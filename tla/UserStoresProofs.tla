-------------------------- MODULE UserStoresProofs --------------------------
(***************************************************************************)
(* Theorems about UserStores, for any number of requests, users and movies *)
(* and any thresholds.  The inductive invariant says what a request knows  *)
(* at each step of what it read earlier, though other requests write both  *)
(* stores in between: rows and nodes never vanish, their e-mails never     *)
(* change, and the names a row has held, the counts and the edges grow.    *)
(***************************************************************************)
EXTENDS UserStores, FiniteSetTheorems, TLAPS

HasRow(u, email) == auth[u] # None /\ auth[u].email = email

\* What a request to create a user knows: its id has no row until the request
\* inserts it.
CreateKnows(p) ==
  LET r == req[p]
  IN /\ r.pc \in {"pgCreate", "graphCreate"} =>
          /\ r.email \in Emails /\ r.input.name \in Names
          /\ r.input.pw \in Secrets /\ r.input.roles \in Roles
     /\ r.pc = "pgCreate" => auth[r.user] = None /\ graph[r.user] = None
     /\ r.pc = "graphCreate" =>
          HasRow(r.user, r.email) /\ r.input.name \in past[r.user]

\* What a PATCH knows: the row it loaded is still there under its e-mail, and
\* once updated has held the new name.
PatchKnows(p) ==
  LET r == req[p]
  IN /\ r.pc \in {"pgFind", "pgUpdate"} =>
          (r.caller # r.user => r.input.name = None /\ r.input.pw = None)
     /\ r.pc \in {"pgUpdate", "syncById", "syncByEmail"} =>
          r.loaded \in Row /\ HasRow(r.user, r.loaded.email)
     /\ r.pc \in {"syncById", "syncByEmail", "syncWrite"} =>
          r.input.name \in Names /\ r.input.name \in past[r.user]
     /\ r.pc = "syncWrite" =>
          SameAccount(r.user, r.node) /\ r.copy.name = r.input.name

\* What a watch knows: its user's node, and after the write its edges.
WatchKnows(p) ==
  LET r == req[p]
  IN /\ r.pc \in {"exists", "watchWrite", "reload", "algoWrite"} =>
          r.movie \in Movies
     /\ r.pc \in {"watchWrite", "reload"} => graph[r.user] # None
     /\ r.pc \in {"reload", "algoWrite"} =>
          /\ <<r.user, r.movie>> \in watched
          /\ r.like => <<r.user, r.movie>> \in liked

\* What may be said of a copy of node n, however old.
GoodCopy(copy, n) ==
  /\ n \in Ids /\ graph[n] # None /\ copy \in Node
  /\ copy.email = graph[n].email
  /\ \E u \in Ids : SameAccount(u, n) /\ copy.name \in past[u]
  /\ Rank(copy.algo) <= Rank(Select(graph[n].watchCount))

CopyKnows(p) ==
  req[p].pc \in {"syncWrite", "algoWrite"} => GoodCopy(req[p].copy, req[p].node)

Knows(p) ==
  /\ req[p].pc # "idle" => req[p].user \in Ids
  /\ CreateKnows(p) /\ PatchKnows(p) /\ WatchKnows(p) /\ CopyKnows(p)

\* No two requests create the same user.
CreatorsDistinct ==
  \A p, q \in Procs :
    (/\ p # q
     /\ req[p].pc \in {"pgCreate", "graphCreate"}
     /\ req[q].pc \in {"pgCreate", "graphCreate"})
      => req[p].user # req[q].user

EmailUnique ==
  \A u, v \in Ids :
    (auth[u] # None /\ auth[v] # None /\ auth[u].email = auth[v].email) => u = v

\* A row and a node under one id have one e-mail.
OwnNode ==
  \A u \in Ids :
    (auth[u] # None /\ graph[u] # None) => auth[u].email = graph[u].email

Related == /\ EmailUnique /\ OwnNode
           /\ GraphNamesWereCommitted /\ AlgorithmNeverAhead

IInv == /\ TypeOK /\ \A p \in Procs : Knows(p)
        /\ CreatorsDistinct /\ Related

\* What no step undoes.
Grow ==
  /\ \A u \in Ids : auth[u] # None =>
       auth'[u] # None /\ auth'[u].email = auth[u].email
  /\ \A n \in Ids : graph[n] # None =>
       /\ graph'[n] # None /\ graph'[n].email = graph[n].email
       /\ graph'[n].watchCount >= graph[n].watchCount
  /\ \A u \in Ids : past[u] \subseteq past'[u]
  /\ watched \subseteq watched' /\ liked \subseteq liked'

\* Only p's slot changes.
Framed(p) ==
  /\ req' \in [Procs -> Request]
  /\ \A q \in Procs \ {p} : req'[q] = req[q]

-----------------------------------------------------------------------------
(* The thresholds *)

LEMMA SelectCases ==
  ASSUME NEW w \in Nat
  PROVE  \/ w < ContentMin /\ Select(w) = "POPULAR"
         \/ w >= ContentMin /\ w < CollabMin /\ Select(w) = "CONTENT_BASED"
         \/ w >= ContentMin /\ w >= CollabMin /\ Select(w) = "COLLABORATIVE"
<1> USE ThresholdAssumption
<1>1. CASE w < ContentMin
  BY <1>1 DEF Select
<1>2. CASE w >= ContentMin /\ w < CollabMin
  BY <1>2 DEF Select
<1>3. CASE w >= ContentMin /\ w >= CollabMin
  BY <1>3 DEF Select
<1> QED
  BY <1>1, <1>2, <1>3

LEMMA SelectType == \A w \in Nat : Select(w) \in Algos
  BY SelectCases DEF Algos

\* More watches never select a lower algorithm, whatever the thresholds.
LEMMA SelectMonotone ==
  ASSUME NEW v \in Nat, NEW w \in Nat, v <= w
  PROVE  Rank(Select(v)) <= Rank(Select(w))
  BY SelectCases, ThresholdAssumption DEF Rank

LEMMA RankType == \A a \in Algos : Rank(a) \in 0..2
  BY DEF Rank

-----------------------------------------------------------------------------
(* What the operators on a request slot do *)

LEMMA GotoEffect ==
  ASSUME TypeOK, NEW p \in Procs, NEW pc \in Pcs, Goto(p, pc)
  PROVE  Framed(p) /\ req'[p] = [req[p] EXCEPT !.pc = pc]
<1>1. req[p] \in Request
  BY DEF TypeOK
<1>2. [req[p] EXCEPT !.pc = pc] \in Request
  BY <1>1 DEF Request
<1> QED
  BY <1>2 DEF Goto, Framed, TypeOK

LEMMA ReplyEffect ==
  ASSUME TypeOK, NEW p \in Procs, NEW answer \in Answers, Reply(p, answer)
  PROVE  /\ Framed(p)
         /\ req'[p] = [req[p] EXCEPT !.pc = "done", !.answer = answer]
<1>1. req[p] \in Request
  BY DEF TypeOK
<1>2. [req[p] EXCEPT !.pc = "done", !.answer = answer] \in Request
  BY <1>1 DEF Request, Pcs
<1> QED
  BY <1>2 DEF Reply, Framed, TypeOK

LEMMA BeginEffect ==
  ASSUME TypeOK, NEW p \in Procs, NEW r \in Request,
         req' = [req EXCEPT ![p] = r]
  PROVE  Framed(p) /\ req'[p] = r
  BY DEF Framed, TypeOK

LEMMA UnusedType == Unused \in Request
  BY DEF Unused, NoInput, Request, Input, Pcs, Answers

-----------------------------------------------------------------------------
(* What a request knows survives the steps of the others *)

StoresOK ==
  /\ auth \in [Ids -> Row \cup {None}]
  /\ graph \in [Ids -> Node \cup {None}]
  /\ watched \subseteq Ids \X Movies
  /\ liked \subseteq Ids \X Movies
  /\ past \in [Ids -> SUBSET Names]
  /\ disturbed \subseteq Ids

\* An id that request q is about to create is still unused.
StillFree(q) ==
  req[q].pc = "pgCreate" =>
    auth'[req[q].user] = None /\ graph'[req[q].user] = None

LEMMA SameAccountKept ==
  ASSUME Grow, NEW u \in Ids, NEW n \in Ids, graph[n] # None,
         SameAccount(u, n)
  PROVE  SameAccount(u, n)'
  BY DEF Grow, SameAccount

LEMMA GoodCopyKept ==
  ASSUME TypeOK, StoresOK', Grow, NEW n, NEW copy, GoodCopy(copy, n)
  PROVE  GoodCopy(copy, n)'
<1>1. /\ n \in Ids /\ graph[n] # None /\ copy \in Node
      /\ copy.email = graph[n].email
      /\ Rank(copy.algo) <= Rank(Select(graph[n].watchCount))
  BY DEF GoodCopy
<1>2. /\ graph'[n] # None /\ copy.email = graph'[n].email
      /\ graph'[n].watchCount >= graph[n].watchCount
  BY <1>1 DEF Grow
<1>3. graph[n] \in Node /\ graph'[n] \in Node
  BY <1>1, <1>2 DEF TypeOK, StoresOK
<1>4. graph[n].watchCount \in Nat /\ graph'[n].watchCount \in Nat
  BY <1>3 DEF Node
<1>5. Rank(Select(graph[n].watchCount)) <= Rank(Select(graph'[n].watchCount))
  BY <1>2, <1>4, SelectMonotone
<1>6. Rank(copy.algo) <= Rank(Select(graph'[n].watchCount))
  BY <1>1, <1>5 DEF Rank
<1>7. PICK u \in Ids : SameAccount(u, n) /\ copy.name \in past[u]
  BY DEF GoodCopy
<1>8. SameAccount(u, n)' /\ copy.name \in past'[u]
  BY <1>1, <1>7, SameAccountKept DEF Grow
<1> QED
  BY <1>1, <1>2, <1>6, <1>8 DEF GoodCopy

LEMMA KnowsKept ==
  ASSUME TypeOK, StoresOK', Grow, NEW q \in Procs, Knows(q),
         req'[q] = req[q], StillFree(q)
  PROVE  Knows(q)'
<1> DEFINE r == req[q]
<1> USE DEF Knows
<1>1. (req[q].pc # "idle" => req[q].user \in Ids)'
  OBVIOUS
<1>2. CreateKnows(q)'
  <2>1. CASE r.pc = "graphCreate"
    BY <2>1, <1>1 DEF CreateKnows, HasRow, Grow
  <2>2. CASE r.pc # "graphCreate"
    BY <2>2 DEF CreateKnows, StillFree
  <2> QED
    BY <2>1, <2>2
<1>3. PatchKnows(q)'
  <2>1. r.pc = "syncWrite" => SameAccount(r.user, r.node)'
    BY <1>1, SameAccountKept DEF PatchKnows, CopyKnows, GoodCopy
  <2>2. r.pc \in {"pgUpdate", "syncById", "syncByEmail"} =>
          r.loaded \in Row /\ HasRow(r.user, r.loaded.email)'
    BY <1>1 DEF PatchKnows, HasRow, Grow
  <2>3. r.pc \in {"syncById", "syncByEmail", "syncWrite"} =>
          r.input.name \in Names /\ r.input.name \in past'[r.user]
    BY <1>1 DEF PatchKnows, Grow
  <2> QED
    BY <2>1, <2>2, <2>3 DEF PatchKnows, HasRow, SameAccount
<1>4. WatchKnows(q)'
  BY <1>1 DEF WatchKnows, Grow
<1>5. CopyKnows(q)'
  BY GoodCopyKept DEF CopyKnows
<1> QED
  BY <1>1, <1>2, <1>3, <1>4, <1>5

\* What is left to show of a step of p.
LEMMA Assemble ==
  ASSUME IInv, NEW p \in Procs, Framed(p), StoresOK', Grow,
         \A q \in Procs \ {p} : StillFree(q),
         Knows(p)', CreatorsDistinct', Related'
  PROVE  IInv'
<1>1. ASSUME NEW q \in Procs PROVE Knows(q)'
  BY KnowsKept DEF IInv, Framed
<1>2. TypeOK'
  BY DEF TypeOK, StoresOK, Framed
<1> QED
  BY <1>1, <1>2 DEF IInv

\* A step that only reads the stores.
LEMMA AssembleRead ==
  ASSUME IInv, NEW p \in Procs, Framed(p), disturbed' \subseteq Ids,
         UNCHANGED <<auth, graph, watched, liked, past>>,
         Knows(p)', CreatorsDistinct'
  PROVE  IInv'
<1>1. StoresOK'
  BY DEF IInv, TypeOK, StoresOK
<1>2. Grow
  <2>1. \A n \in Ids : graph[n] # None => graph[n].watchCount \in Nat
    BY DEF IInv, TypeOK, Node
  <2> QED
    BY <2>1 DEF Grow
<1>3. \A q \in Procs \ {p} : StillFree(q)
  BY DEF IInv, Knows, CreateKnows, StillFree
<1>4. Related'
  BY DEF IInv, Related, EmailUnique, OwnNode, GraphNamesWereCommitted,
         AlgorithmNeverAhead, SameAccount
<1> QED
  BY <1>1, <1>2, <1>3, <1>4, Assemble

\* A step of a request that is not a creation that begins.
LEMMA CreatorsKept ==
  ASSUME IInv, NEW p \in Procs, Framed(p),
         req'[p].pc \in {"pgCreate", "graphCreate"} =>
           /\ req[p].pc \in {"pgCreate", "graphCreate"}
           /\ req'[p].user = req[p].user
  PROVE  CreatorsDistinct'
  BY DEF IInv, CreatorsDistinct, Framed

\* A request that answers has nothing left to know.
LEMMA ReplyKnows ==
  ASSUME IInv, NEW p \in Procs, req[p].pc # "idle",
         NEW answer \in Answers, Reply(p, answer)
  PROVE  Framed(p) /\ Knows(p)' /\ CreatorsDistinct'
<1>1. /\ Framed(p)
      /\ req'[p] = [req[p] EXCEPT !.pc = "done", !.answer = answer]
  BY ReplyEffect DEF IInv
<1>2. req[p] \in Request /\ req[p].user \in Ids
  BY DEF IInv, TypeOK, Knows
<1>3. /\ req'[p].pc = "done" /\ req'[p].answer = answer
      /\ req'[p].user \in Ids
  BY <1>1, <1>2 DEF Request
<1>4. Knows(p)'
  BY <1>3 DEF Knows, CreateKnows, PatchKnows, WatchKnows, CopyKnows
<1>5. CreatorsDistinct'
  BY <1>1, <1>3, CreatorsKept
<1> QED
  BY <1>1, <1>4, <1>5

-----------------------------------------------------------------------------
(* Steps that only read *)

LEMMA StartCreateKeeps ==
  ASSUME IInv, NEW p \in Procs, StartCreate(p)
  PROVE  IInv'
<1>1. PICK u \in Ids, e \in Emails, n \in Names, s \in Secrets, r0 \in Roles :
        /\ FreshId(u)
        /\ Begin(p, u, u, e, [name |-> n, pw |-> s, roles |-> r0], None, FALSE,
                 "pgCreate")
  BY DEF StartCreate
<1>2. [name |-> n, pw |-> s, roles |-> r0] \in Input
  BY DEF Input
<1>3. /\ Framed(p) /\ disturbed' \subseteq Ids
      /\ UNCHANGED <<auth, graph, watched, liked, past>>
      /\ req'[p].pc = "pgCreate" /\ req'[p].user = u /\ req'[p].email = e
      /\ req'[p].input = [name |-> n, pw |-> s, roles |-> r0]
  <2> DEFINE r == [pc |-> "pgCreate", answer |-> "", caller |-> u,
                   user |-> u, email |-> e,
                   input |-> [name |-> n, pw |-> s, roles |-> r0],
                   movie |-> None, like |-> FALSE, loaded |-> None,
                   node |-> None, copy |-> None]
  <2>1. r \in Request
    BY <1>2 DEF Request, Pcs, Answers
  <2>2. /\ req' = [req EXCEPT ![p] = r] /\ disturbed' \subseteq Ids
        /\ UNCHANGED <<auth, graph, watched, liked, past>>
    BY <1>1 DEF Begin, IInv, TypeOK
  <2>3. /\ r.pc = "pgCreate" /\ r.user = u /\ r.email = e
        /\ r.input = [name |-> n, pw |-> s, roles |-> r0]
    OBVIOUS
  <2> HIDE DEF r
  <2>4. Framed(p) /\ req'[p] = r
    BY <2>1, <2>2, BeginEffect DEF IInv
  <2> QED
    BY <2>2, <2>3, <2>4
<1>4. Knows(p)'
  BY <1>1, <1>3
  DEF FreshId, Knows, CreateKnows, PatchKnows, WatchKnows, CopyKnows
<1>5. CreatorsDistinct'
  <2>1. \A q \in Procs : req[q].pc # "idle" => req[q].user # u
    BY <1>1 DEF FreshId
  <2> QED
    BY <1>3, <2>1 DEF IInv, CreatorsDistinct, Framed
<1> QED
  BY <1>3, <1>4, <1>5, AssembleRead

LEMMA StartPatchKeeps ==
  ASSUME IInv, NEW p \in Procs, StartPatch(p)
  PROVE  IInv'
<1>1. PICK caller \in Ids, u \in Ids, input \in Input :
        /\ caller # u => input.name = None /\ input.pw = None
        /\ Begin(p, caller, u, None, input, None, FALSE, "pgFind")
  BY DEF StartPatch
<1>2. /\ Framed(p) /\ disturbed' \subseteq Ids
      /\ UNCHANGED <<auth, graph, watched, liked, past>>
      /\ req'[p].pc = "pgFind" /\ req'[p].user = u /\ req'[p].caller = caller
      /\ req'[p].input = input
  <2> DEFINE r == [pc |-> "pgFind", answer |-> "", caller |-> caller,
                   user |-> u, email |-> None, input |-> input,
                   movie |-> None, like |-> FALSE, loaded |-> None,
                   node |-> None, copy |-> None]
  <2>1. r \in Request
    BY DEF Request, Pcs, Answers
  <2>2. /\ req' = [req EXCEPT ![p] = r] /\ disturbed' \subseteq Ids
        /\ UNCHANGED <<auth, graph, watched, liked, past>>
    BY <1>1 DEF Begin, IInv, TypeOK
  <2>3. /\ r.pc = "pgFind" /\ r.user = u /\ r.caller = caller /\ r.input = input
    OBVIOUS
  <2> HIDE DEF r
  <2>4. Framed(p) /\ req'[p] = r
    BY <2>1, <2>2, BeginEffect DEF IInv
  <2> QED
    BY <2>2, <2>3, <2>4
<1>3. Knows(p)'
  BY <1>1, <1>2
  DEF Knows, CreateKnows, PatchKnows, WatchKnows, CopyKnows
<1> QED
  BY <1>2, <1>3, CreatorsKept, AssembleRead

LEMMA StartWatchKeeps ==
  ASSUME IInv, NEW p \in Procs, StartWatch(p)
  PROVE  IInv'
<1>1. PICK u \in Ids, m \in Movies, like \in BOOLEAN :
        Begin(p, u, u, None, NoInput, m, like, "exists")
  BY DEF StartWatch
<1>2. NoInput \in Input
  BY DEF NoInput, Input
<1>3. /\ Framed(p) /\ disturbed' \subseteq Ids
      /\ UNCHANGED <<auth, graph, watched, liked, past>>
      /\ req'[p].pc = "exists" /\ req'[p].user = u /\ req'[p].movie = m
  <2> DEFINE r == [pc |-> "exists", answer |-> "", caller |-> u,
                   user |-> u, email |-> None, input |-> NoInput,
                   movie |-> m, like |-> like, loaded |-> None,
                   node |-> None, copy |-> None]
  <2>1. r \in Request
    BY <1>2 DEF Request, Pcs, Answers
  <2>2. /\ req' = [req EXCEPT ![p] = r] /\ disturbed' \subseteq Ids
        /\ UNCHANGED <<auth, graph, watched, liked, past>>
    BY <1>1 DEF Begin, IInv, TypeOK
  <2>3. /\ r.pc = "exists" /\ r.user = u /\ r.movie = m
    OBVIOUS
  <2> HIDE DEF r
  <2>4. Framed(p) /\ req'[p] = r
    BY <2>1, <2>2, BeginEffect DEF IInv
  <2> QED
    BY <2>2, <2>3, <2>4
<1>4. Knows(p)'
  BY <1>3
  DEF Knows, CreateKnows, PatchKnows, WatchKnows, CopyKnows
<1> QED
  BY <1>3, <1>4, CreatorsKept, AssembleRead

LEMMA ReturnKeeps ==
  ASSUME IInv, NEW p \in Procs, Return(p)
  PROVE  IInv'
<1>1. Framed(p) /\ req'[p].pc = "idle" /\ disturbed' \subseteq Ids
  BY UnusedType DEF IInv, TypeOK, Return, Framed, Unused
<1>2. Knows(p)'
  BY <1>1
  DEF Knows, CreateKnows, PatchKnows, WatchKnows, CopyKnows
<1> QED
  BY <1>1, <1>2, CreatorsKept, AssembleRead DEF Return

LEMMA FaultKeeps ==
  ASSUME IInv, NEW p \in Procs, Fault(p)
  PROVE  IInv'
<1>1. req[p].pc # "idle" /\ Reply(p, "error")
  BY DEF Fault, At
<1>2. disturbed' \subseteq Ids
  BY <1>1 DEF Fault, IInv, TypeOK, Knows
<1>3. Framed(p) /\ Knows(p)' /\ CreatorsDistinct'
  BY <1>1, ReplyKnows DEF Answers
<1> QED
  BY <1>2, <1>3, AssembleRead DEF Fault

LEMMA PgFindKeeps ==
  ASSUME IInv, NEW p \in Procs, PgFind(p)
  PROVE  IInv'
<1>0. /\ req[p] \in Request /\ req[p].pc = "pgFind" /\ req[p].user \in Ids
      /\ UNCHANGED <<auth, graph, watched, liked, past>>
      /\ disturbed' \subseteq Ids
  BY DEF IInv, TypeOK, Knows, PgFind, At
<1>1. CASE Reply(p, "notFound") \/ Reply(p, "badRequest")
  BY <1>0, <1>1, ReplyKnows, AssembleRead DEF Answers
<1>2. CASE /\ auth[req[p].user] # None
           /\ req' = [req EXCEPT ![p] = [@ EXCEPT !.pc = "pgUpdate",
                                         !.loaded = auth[req[p].user]]]
  <2> DEFINE row == auth[req[p].user]
  <2>1. row \in Row
    BY <1>0, <1>2 DEF IInv, TypeOK
  <2>2. [req[p] EXCEPT !.pc = "pgUpdate", !.loaded = row] \in Request
    BY <1>0, <2>1 DEF Request, Pcs
  <2>3. /\ Framed(p)
        /\ req'[p] = [req[p] EXCEPT !.pc = "pgUpdate", !.loaded = row]
    BY <1>2, <2>2 DEF IInv, TypeOK, Framed
  <2>4. /\ req'[p].pc = "pgUpdate" /\ req'[p].loaded = row
        /\ req'[p].user = req[p].user /\ req'[p].caller = req[p].caller
        /\ req'[p].input = req[p].input
    BY <1>0, <2>3 DEF Request
  <2>5. req[p].caller # req[p].user =>
          req[p].input.name = None /\ req[p].input.pw = None
    BY <1>0 DEF IInv, Knows, PatchKnows
  <2>6. Knows(p)'
    BY <1>0, <1>2, <2>1, <2>4, <2>5
    DEF Knows, CreateKnows, PatchKnows, WatchKnows, CopyKnows, HasRow
  <2> QED
    BY <1>0, <2>3, <2>4, <2>6, CreatorsKept, AssembleRead
<1> QED
  BY <1>1, <1>2 DEF PgFind

\* A request that reads a good copy of a node.
LEMMA ReadKnows ==
  ASSUME IInv, NEW p \in Procs, NEW n \in Ids, NEW copy \in Node,
         NEW pc \in {"syncWrite", "algoWrite"}, req[p].pc # "idle",
         Read(p, n, copy, pc), UNCHANGED <<auth, graph, watched, liked, past>>,
         GoodCopy(copy, n),
         pc = "syncWrite" =>
           /\ req[p].input.name \in Names \cap past[req[p].user]
           /\ SameAccount(req[p].user, n) /\ copy.name = req[p].input.name,
         pc = "algoWrite" =>
           /\ req[p].movie \in Movies
           /\ <<req[p].user, req[p].movie>> \in watched
           /\ req[p].like => <<req[p].user, req[p].movie>> \in liked
  PROVE  Framed(p) /\ Knows(p)' /\ CreatorsDistinct'
<1>0. TypeOK /\ pc \in Pcs
  BY DEF IInv, Pcs
<1>1. /\ Framed(p)
      /\ req'[p] = [req[p] EXCEPT !.pc = pc, !.node = n, !.copy = copy]
  <2>1. req[p] \in Request
    BY <1>0 DEF TypeOK
  <2>2. [req[p] EXCEPT !.pc = pc, !.node = n, !.copy = copy] \in Request
    BY <1>0, <2>1 DEF Request
  <2> QED
    BY <1>0, <2>2 DEF Read, Framed, TypeOK
<1>2. req[p] \in Request /\ req[p].user \in Ids
  BY DEF IInv, TypeOK, Knows
<1>3. /\ req'[p].pc = pc /\ req'[p].node = n /\ req'[p].copy = copy
      /\ req'[p].user = req[p].user /\ req'[p].input = req[p].input
      /\ req'[p].movie = req[p].movie /\ req'[p].like = req[p].like
  BY <1>1, <1>2 DEF Request
<1>4. GoodCopy(copy, n)'
  BY DEF GoodCopy, SameAccount
<1>5. CopyKnows(p)'
  BY <1>3, <1>4 DEF CopyKnows, GoodCopy, SameAccount
<1>6. PatchKnows(p)'
  BY <1>3 DEF PatchKnows, SameAccount
<1>7. Knows(p)'
  BY <1>2, <1>3, <1>5, <1>6
  DEF Knows, CreateKnows, WatchKnows
<1>8. CreatorsDistinct'
  BY <1>1, <1>3, CreatorsKept
<1> QED
  BY <1>1, <1>7, <1>8

\* A copy of a node as it is, or with a new name its account has held, is good.
LEMMA RenamedIsGood ==
  ASSUME IInv, NEW p \in Procs, NEW n \in Ids, graph[n] # None,
         SameAccount(req[p].user, n), req[p].user \in Ids,
         req[p].input.name \in Names \cap past[req[p].user]
  PROVE  /\ Renamed(p, n) \in Node /\ GoodCopy(Renamed(p, n), n)
         /\ Renamed(p, n).name = req[p].input.name
<1>1. graph[n] \in Node
  BY DEF IInv, TypeOK
<1>2. /\ Renamed(p, n) \in Node
      /\ Renamed(p, n).email = graph[n].email
      /\ Renamed(p, n).name = req[p].input.name
      /\ Renamed(p, n).algo = graph[n].algo
  BY <1>1 DEF Renamed, Node
<1>3. Rank(Renamed(p, n).algo) <= Rank(Select(graph[n].watchCount))
  BY <1>2 DEF IInv, Related, AlgorithmNeverAhead
<1> QED
  BY <1>2, <1>3 DEF GoodCopy

LEMMA SyncByIdKeeps ==
  ASSUME IInv, NEW p \in Procs, SyncById(p)
  PROVE  IInv'
<1> DEFINE u == req[p].user
<1>1. /\ req[p] \in Request /\ req[p].pc = "syncById" /\ u \in Ids
      /\ UNCHANGED <<auth, graph, watched, liked, past>>
      /\ disturbed' \subseteq Ids
  BY DEF IInv, TypeOK, Knows, SyncById, At
<1>2. /\ req[p].loaded \in Row /\ HasRow(u, req[p].loaded.email)
      /\ req[p].input.name \in Names \cap past[u]
  BY <1>1 DEF IInv, Knows, PatchKnows
<1>3. CASE graph[u] = None
  <2>1. Framed(p) /\ req'[p] = [req[p] EXCEPT !.pc = "syncByEmail"]
    BY <1>3, GotoEffect DEF IInv, SyncById, Pcs
  <2>2. /\ req'[p].pc = "syncByEmail" /\ req'[p].user = u
        /\ req'[p].loaded = req[p].loaded /\ req'[p].input = req[p].input
    BY <1>1, <2>1 DEF Request
  <2>3. Knows(p)'
    BY <1>1, <1>2, <2>2
    DEF Knows, CreateKnows, PatchKnows, WatchKnows, CopyKnows, HasRow
  <2> QED
    BY <1>1, <2>1, <2>2, <2>3, CreatorsKept, AssembleRead
<1>4. CASE graph[u] # None
  <2>1. Read(p, u, Renamed(p, u), "syncWrite")
    BY <1>4 DEF SyncById
  <2>2. SameAccount(u, u)
    BY <1>1, <1>2, <1>4 DEF IInv, Related, OwnNode, SameAccount, HasRow
  <2>3. /\ Renamed(p, u) \in Node /\ GoodCopy(Renamed(p, u), u)
        /\ Renamed(p, u).name = req[p].input.name
    BY <1>1, <1>2, <1>4, <2>2, RenamedIsGood
  <2>4. Framed(p) /\ Knows(p)' /\ CreatorsDistinct'
    BY <1>1, <1>2, <2>1, <2>2, <2>3, ReadKnows
  <2> QED
    BY <1>1, <2>4, AssembleRead
<1> QED
  BY <1>3, <1>4

\* The node found by e-mail is the account's: its own account has that e-mail
\* too, and no two rows share one.
LEMMA SyncByEmailKeeps ==
  ASSUME IInv, NEW p \in Procs, SyncByEmail(p)
  PROVE  IInv'
<1> DEFINE u == req[p].user
<1>1. /\ req[p] \in Request /\ req[p].pc = "syncByEmail" /\ u \in Ids
      /\ UNCHANGED <<auth, graph, watched, liked, past>>
      /\ disturbed' \subseteq Ids
  BY DEF IInv, TypeOK, Knows, SyncByEmail, At
<1>2. /\ HasRow(u, req[p].loaded.email)
      /\ req[p].input.name \in Names \cap past[u]
  BY <1>1 DEF IInv, Knows, PatchKnows
<1>3. CASE Reply(p, "error")
  BY <1>1, <1>3, ReplyKnows, AssembleRead DEF Answers
<1>4. ASSUME NEW n \in Ids, graph[n] # None,
             graph[n].email = req[p].loaded.email,
             Read(p, n, Renamed(p, n), "syncWrite")
      PROVE  IInv'
  <2>1. PICK v \in Ids : SameAccount(v, n)
    BY <1>4 DEF IInv, Related, GraphNamesWereCommitted
  <2>2. v = u
    BY <1>1, <1>2, <1>4, <2>1 DEF IInv, Related, EmailUnique, SameAccount, HasRow
  <2>3. /\ Renamed(p, n) \in Node /\ GoodCopy(Renamed(p, n), n)
        /\ Renamed(p, n).name = req[p].input.name
    BY <1>1, <1>2, <1>4, <2>1, <2>2, RenamedIsGood
  <2>4. Framed(p) /\ Knows(p)' /\ CreatorsDistinct'
    BY <1>1, <1>2, <1>4, <2>1, <2>2, <2>3, ReadKnows
  <2> QED
    BY <1>1, <2>4, AssembleRead
<1> QED
  BY <1>3, <1>4 DEF SyncByEmail

LEMMA ExistsKeeps ==
  ASSUME IInv, NEW p \in Procs, Exists(p)
  PROVE  IInv'
<1>1. /\ req[p] \in Request /\ req[p].pc = "exists" /\ req[p].user \in Ids
      /\ req[p].movie \in Movies
      /\ UNCHANGED <<auth, graph, watched, liked, past>>
      /\ disturbed' \subseteq Ids
  BY DEF IInv, TypeOK, Knows, WatchKnows, Exists, At
<1>2. CASE Reply(p, "notFound")
  BY <1>1, <1>2, ReplyKnows, AssembleRead DEF Answers
<1>3. CASE graph[req[p].user] # None /\ Goto(p, "watchWrite")
  <2>1. Framed(p) /\ req'[p] = [req[p] EXCEPT !.pc = "watchWrite"]
    BY <1>3, GotoEffect DEF IInv, Pcs
  <2>2. /\ req'[p].pc = "watchWrite" /\ req'[p].user = req[p].user
        /\ req'[p].movie = req[p].movie
    BY <1>1, <2>1 DEF Request
  <2>3. Knows(p)'
    BY <1>1, <1>3, <2>2
    DEF Knows, CreateKnows, PatchKnows, WatchKnows, CopyKnows
  <2> QED
    BY <1>1, <2>1, <2>2, <2>3, CreatorsKept, AssembleRead
<1> QED
  BY <1>2, <1>3 DEF Exists

LEMMA ReloadKeeps ==
  ASSUME IInv, NEW p \in Procs, Reload(p)
  PROVE  IInv'
<1> DEFINE u == req[p].user
           copy == [graph[u] EXCEPT !.algo = NewAlgo(u)]
<1>1. /\ req[p] \in Request /\ req[p].pc = "reload" /\ u \in Ids
      /\ UNCHANGED <<auth, graph, watched, liked, past>>
      /\ disturbed' \subseteq Ids
  BY DEF IInv, TypeOK, Knows, Reload, At
<1>2. /\ req[p].movie \in Movies /\ <<u, req[p].movie>> \in watched
      /\ req[p].like => <<u, req[p].movie>> \in liked
      /\ graph[u] \in Node /\ graph[u] # None
  BY <1>1 DEF IInv, TypeOK, Knows, WatchKnows
<1>3. CASE Reply(p, "watched")
  BY <1>1, <1>3, ReplyKnows, AssembleRead DEF Answers
<1>4. CASE Read(p, u, copy, "algoWrite")
  <2>1. NewAlgo(u) = Select(graph[u].watchCount) /\ NewAlgo(u) \in Algos
    BY <1>2, SelectType DEF NewAlgo, Node
  <2>2. /\ copy \in Node /\ copy.email = graph[u].email
        /\ copy.name = graph[u].name /\ copy.algo = NewAlgo(u)
    BY <1>2, <2>1 DEF Node
  <2>3. \E v \in Ids : SameAccount(v, u) /\ graph[u].name \in past[v]
    BY <1>1, <1>2 DEF IInv, Related, GraphNamesWereCommitted
  <2>4. Rank(copy.algo) <= Rank(Select(graph[u].watchCount))
    BY <2>1, <2>2 DEF Rank
  <2> HIDE DEF copy
  <2>5. GoodCopy(copy, u)
    BY <1>1, <1>2, <2>2, <2>3, <2>4 DEF GoodCopy
  <2>6. Framed(p) /\ Knows(p)' /\ CreatorsDistinct'
    BY <1>1, <1>2, <1>4, <2>2, <2>5, ReadKnows
  <2> QED
    BY <1>1, <2>6, AssembleRead
<1> QED
  BY <1>3, <1>4 DEF Reload

-----------------------------------------------------------------------------
(* Steps that write *)

\* Nodes that keep their names keep them committed.
LEMMA NamesKept ==
  ASSUME GraphNamesWereCommitted, Grow,
         \A n \in Ids : graph'[n] # None =>
           graph[n] # None /\ graph'[n].name = graph[n].name
  PROVE  GraphNamesWereCommitted'
<1> SUFFICES ASSUME NEW n \in Ids, graph'[n] # None
             PROVE  \E u \in Ids : SameAccount(u, n)' /\ graph'[n].name \in past'[u]
  BY DEF GraphNamesWereCommitted, SameAccount
<1>1. PICK u \in Ids : SameAccount(u, n) /\ graph[n].name \in past[u]
  BY DEF GraphNamesWereCommitted
<1>2. SameAccount(u, n)' /\ graph'[n].name \in past'[u]
  BY <1>1, SameAccountKept DEF Grow
<1> QED
  BY <1>2

LEMMA PgCreateKeeps ==
  ASSUME IInv, NEW p \in Procs, PgCreate(p)
  PROVE  IInv'
<1> DEFINE u == req[p].user
           row == [email |-> req[p].email, name |-> req[p].input.name,
                   pw |-> req[p].input.pw, roles |-> req[p].input.roles]
<1>1. /\ req[p] \in Request /\ req[p].pc = "pgCreate" /\ u \in Ids
      /\ UNCHANGED <<graph, watched, liked, disturbed>>
  BY DEF IInv, TypeOK, Knows, PgCreate, At
<1>2. auth[u] = None /\ graph[u] = None /\ row \in Row
  BY <1>1 DEF IInv, Knows, CreateKnows, Row
<1>3. CASE /\ Reply(p, CreateError(UniqueViolation))
           /\ UNCHANGED <<auth, past>>
  <2>1. CreateError(UniqueViolation) \in Answers
    BY DEF CreateError, Answers
  <2>2. Framed(p) /\ Knows(p)' /\ CreatorsDistinct'
    BY <1>1, <1>3, <2>1, ReplyKnows
  <2>3. disturbed' \subseteq Ids
    BY <1>1 DEF IInv, TypeOK
  <2> QED
    BY <1>1, <1>3, <2>2, <2>3, AssembleRead
<1>4. CASE /\ ~EmailTaken(req[p].email)
           /\ auth' = [auth EXCEPT ![u] = row]
           /\ past' = [past EXCEPT ![u] = @ \cup {row.name}]
           /\ Goto(p, "graphCreate")
  <2>1. Framed(p) /\ req'[p] = [req[p] EXCEPT !.pc = "graphCreate"]
    BY <1>4, GotoEffect DEF IInv, Pcs
  <2>2. /\ req'[p].pc = "graphCreate" /\ req'[p].user = u
        /\ req'[p].email = req[p].email /\ req'[p].input = req[p].input
    BY <1>1, <2>1 DEF Request
  <2>3. row.email = req[p].email /\ row.name = req[p].input.name
    OBVIOUS
  <2> HIDE DEF row
  <2>4. row.name \in Names
    BY <1>2 DEF Row
  <2>5. StoresOK'
    BY <1>1, <1>2, <1>4, <2>4 DEF IInv, TypeOK, StoresOK
  <2>6. /\ auth'[u] = row /\ row # None
        /\ \A v \in Ids \ {u} : auth'[v] = auth[v]
        /\ row.name \in past'[u]
        /\ \A v \in Ids : past[v] \subseteq past'[v]
    BY <1>1, <1>2, <1>4, NoneAssumption DEF IInv, TypeOK
  <2>7. Grow
    <3>1. \A n \in Ids : graph[n] # None => graph[n].watchCount \in Nat
      BY DEF IInv, TypeOK, Node
    <3> QED
      BY <1>1, <1>2, <2>6, <3>1 DEF Grow
  <2>8. EmailUnique'
    BY <1>4, <2>3, <2>6 DEF IInv, Related, EmailUnique, EmailTaken
  <2>9. (OwnNode /\ AlgorithmNeverAhead)'
    BY <1>1, <1>2, <2>6 DEF IInv, Related, OwnNode, AlgorithmNeverAhead
  <2>10. GraphNamesWereCommitted'
    BY <1>1, <2>7, NamesKept DEF IInv, Related
  <2>11. \A q \in Procs \ {p} : StillFree(q)
    BY <1>1, <2>6 DEF IInv, Knows, CreateKnows, CreatorsDistinct, StillFree
  <2>12. Knows(p)'
    <3>1. /\ req[p].email \in Emails /\ req[p].input.name \in Names
          /\ req[p].input.pw \in Secrets /\ req[p].input.roles \in Roles
      BY <1>1 DEF IInv, Knows, CreateKnows
    <3> QED
      BY <1>1, <2>2, <2>3, <2>6, <3>1
      DEF Knows, CreateKnows, PatchKnows, WatchKnows, CopyKnows, HasRow
  <2>13. CreatorsDistinct'
    BY <1>1, <2>1, <2>2, CreatorsKept
  <2> QED
    BY <2>1, <2>5, <2>7, <2>8, <2>9, <2>10, <2>11, <2>12, <2>13, Assemble
    DEF Related
<1> QED
  BY <1>3, <1>4 DEF PgCreate

LEMMA GraphCreateKeeps ==
  ASSUME IInv, NEW p \in Procs, GraphCreate(p)
  PROVE  IInv'
<1> DEFINE u == req[p].user
<1>1. /\ req[p] \in Request /\ req[p].pc = "graphCreate" /\ u \in Ids
      /\ UNCHANGED <<auth, watched, liked, past, disturbed>>
      /\ disturbed' \subseteq Ids
  BY DEF IInv, TypeOK, Knows, GraphCreate, At
<1>2. /\ HasRow(u, req[p].email) /\ req[p].input.name \in past[u]
      /\ req[p].email \in Emails /\ req[p].input.name \in Names
  BY <1>1 DEF IInv, Knows, CreateKnows
<1>3. CASE Reply(p, "error") /\ UNCHANGED graph
  BY <1>1, <1>3, ReplyKnows, AssembleRead DEF Answers
<1>4. CASE /\ graph[u] = None
           /\ graph' = [graph EXCEPT ![u] = NewNode(p)]
           /\ Reply(p, "created")
  <2>1. Framed(p) /\ Knows(p)' /\ CreatorsDistinct'
    BY <1>1, <1>4, ReplyKnows DEF Answers
  <2>2. /\ NewNode(p) \in Node /\ NewNode(p).email = req[p].email
        /\ NewNode(p).name = req[p].input.name
        /\ NewNode(p).algo = "POPULAR"
    BY <1>2 DEF NewNode, Node, Algos
  <2>3. /\ graph'[u] = NewNode(p) /\ graph'[u] # None
        /\ \A n \in Ids \ {u} : graph'[n] = graph[n]
    BY <1>1, <1>4, <2>2, NoneAssumption DEF IInv, TypeOK
  <2>4. StoresOK'
    BY <1>1, <1>4, <2>2 DEF IInv, TypeOK, StoresOK
  <2>5. Grow
    <3>1. \A n \in Ids : graph[n] # None => graph[n].watchCount \in Nat
      BY DEF IInv, TypeOK, Node
    <3> QED
      BY <1>1, <1>4, <2>3, <3>1 DEF Grow
  <2>6. (EmailUnique /\ OwnNode)'
    BY <1>1, <1>2, <2>2, <2>3 DEF IInv, Related, EmailUnique, OwnNode, HasRow
  <2>7. GraphNamesWereCommitted'
    <3> SUFFICES ASSUME NEW n \in Ids, graph'[n] # None
                 PROVE  \E v \in Ids :
                          SameAccount(v, n)' /\ graph'[n].name \in past'[v]
      BY DEF GraphNamesWereCommitted, SameAccount
    <3>1. CASE n = u
      BY <1>1, <1>2, <2>2, <2>3, <3>1 DEF SameAccount, HasRow
    <3>2. CASE n # u
      <4>1. PICK v \in Ids : SameAccount(v, n) /\ graph[n].name \in past[v]
        BY <2>3, <3>2 DEF IInv, Related, GraphNamesWereCommitted
      <4>2. SameAccount(v, n)' /\ graph'[n].name \in past'[v]
        BY <1>1, <2>3, <3>2, <4>1 DEF SameAccount
      <4> QED
        BY <4>2
    <3> QED
      BY <3>1, <3>2
  <2>8. AlgorithmNeverAhead'
    BY <2>2, <2>3 DEF IInv, Related, AlgorithmNeverAhead, Rank
  <2>9. \A q \in Procs \ {p} : StillFree(q)
    BY <1>1, <2>3 DEF IInv, Knows, CreateKnows, CreatorsDistinct, StillFree
  <2> QED
    BY <2>1, <2>4, <2>5, <2>6, <2>7, <2>8, <2>9, Assemble
    DEF Related
<1> QED
  BY <1>1, <1>3, <1>4 DEF GraphCreate

\* What an update that sends no empty role list makes of a row.
LEMMA PatchedIsRow ==
  ASSUME NEW row \in Row, NEW input \in Input, input.roles # EmptyRoles
  PROVE  /\ Patched(row, input) \in Row /\ Patched(row, input) # None
         /\ Patched(row, input).email = row.email
         /\ Patched(row, input).name = Sent(input.name, row.name)
         /\ Patched(row, input).pw = Sent(input.pw, row.pw)
         /\ Patched(row, input).roles = Sent(input.roles, row.roles)
<1>1. Patched(row, input) \in Row
  BY DEF Patched, Sent, Row, Input
<1>2. Patched(row, input) # None
  BY <1>1, NoneAssumption
<1> QED
  BY <1>1, <1>2 DEF Patched

LEMMA PgUpdateKeeps ==
  ASSUME IInv, NEW p \in Procs, PgUpdate(p)
  PROVE  IInv'
<1> DEFINE u == req[p].user
           input == req[p].input
           name == Sent(input.name, auth[u].name)
           row == Patched(auth[u], input)
<1>1. /\ req[p] \in Request /\ req[p].pc = "pgUpdate" /\ u \in Ids
      /\ input \in Input
      /\ UNCHANGED <<graph, watched, liked, disturbed>>
      /\ auth[u] # None /\ auth[u] \in Row
  BY DEF IInv, TypeOK, Knows, PgUpdate, Base, At, Request
<1> SUFFICES ASSUME input.roles # EmptyRoles PROVE IInv'
  <2> SUFFICES ASSUME input.roles = EmptyRoles PROVE IInv'
    OBVIOUS
  <2>1. Reply(p, "error") /\ UNCHANGED <<auth, past>> /\ disturbed' \subseteq Ids
    BY <1>1 DEF PgUpdate, IInv, TypeOK
  <2> QED
    BY <1>1, <2>1, ReplyKnows, AssembleRead DEF Answers
<1>2. /\ auth' = [auth EXCEPT ![u] = row]
      /\ past' = [past EXCEPT ![u] = @ \cup {name}]
  BY DEF PgUpdate, Base
<1>3. /\ row \in Row /\ row # None /\ row.email = auth[u].email
      /\ name \in Names /\ (input.name # None => name = input.name)
  BY <1>1, PatchedIsRow DEF Sent, Row, Input
<1> HIDE DEF row, name
<1>5. /\ auth'[u] = row /\ row # None /\ name \in past'[u]
      /\ \A v \in Ids \ {u} : auth'[v] = auth[v]
      /\ \A v \in Ids : past[v] \subseteq past'[v]
  BY <1>1, <1>2, <1>3 DEF IInv, TypeOK
<1>6. StoresOK'
  BY <1>1, <1>2, <1>3 DEF IInv, TypeOK, StoresOK
<1>7. Grow
  <2>1. \A n \in Ids : graph[n] # None => graph[n].watchCount \in Nat
    BY DEF IInv, TypeOK, Node
  <2> QED
    BY <1>1, <1>3, <1>5, <2>1 DEF Grow
<1>8. \A v \in Ids : auth'[v] # None =>
        auth[v] # None /\ auth'[v].email = auth[v].email
  BY <1>1, <1>3, <1>5
<1>9. Related'
  <2>1. EmailUnique'
    BY <1>8 DEF IInv, Related, EmailUnique
  <2>2. OwnNode' /\ AlgorithmNeverAhead'
    BY <1>1, <1>8 DEF IInv, Related, OwnNode, AlgorithmNeverAhead
  <2>3. GraphNamesWereCommitted'
    BY <1>1, <1>7, NamesKept DEF IInv, Related
  <2> QED
    BY <2>1, <2>2, <2>3 DEF Related
<1>10. \A q \in Procs \ {p} : StillFree(q)
  BY <1>1, <1>5 DEF IInv, Knows, CreateKnows, StillFree
<1>11. CASE input.name = None /\ Reply(p, "patched")
  <2>1. Framed(p) /\ Knows(p)' /\ CreatorsDistinct'
    BY <1>1, <1>11, ReplyKnows DEF Answers
  <2> QED
    BY <1>6, <1>7, <1>9, <1>10, <2>1, Assemble
<1>12. CASE input.name # None /\ Goto(p, "syncById")
  <2>1. Framed(p) /\ req'[p] = [req[p] EXCEPT !.pc = "syncById"]
    BY <1>12, GotoEffect DEF IInv, Pcs
  <2>2. /\ req'[p].pc = "syncById" /\ req'[p].user = u
        /\ req'[p].input = input /\ req'[p].loaded = req[p].loaded
    BY <1>1, <2>1 DEF Request
  <2>3. req[p].loaded \in Row /\ auth[u].email = req[p].loaded.email
    BY <1>1 DEF IInv, Knows, PatchKnows, HasRow
  <2>4. Knows(p)'
    BY <1>1, <1>3, <1>5, <1>12, <2>2, <2>3
    DEF Knows, CreateKnows, PatchKnows, WatchKnows, CopyKnows, HasRow
  <2>5. CreatorsDistinct'
    BY <2>1, <2>2, CreatorsKept
  <2> QED
    BY <1>6, <1>7, <1>9, <1>10, <2>1, <2>4, <2>5, Assemble
<1> QED
  BY <1>11, <1>12 DEF PgUpdate

\* Writing back a good copy, however old, leaves the e-mail and the count of
\* the node, and gives it a committed name and an algorithm it has reached.
LEMMA UpdateProfileEffect ==
  ASSUME IInv, NEW p \in Procs, req[p].pc \in {"syncWrite", "algoWrite"},
         UpdateProfile(p), UNCHANGED <<auth, watched, liked, past, disturbed>>
  PROVE  StoresOK' /\ Grow /\ Related' /\ \A q \in Procs : StillFree(q)
<1> DEFINE n == req[p].node
           copy == req[p].copy
           node == [email |-> copy.email, name |-> copy.name,
                    algo |-> copy.algo, watchCount |-> graph[n].watchCount]
<1>1. /\ n \in Ids /\ graph[n] # None /\ copy \in Node
      /\ copy.email = graph[n].email
      /\ \E u \in Ids : SameAccount(u, n) /\ copy.name \in past[u]
      /\ Rank(copy.algo) <= Rank(Select(graph[n].watchCount))
  BY DEF IInv, Knows, CopyKnows, GoodCopy
<1>2. graph' = [graph EXCEPT ![n] = node]
  BY DEF UpdateProfile
<1>3. graph[n] \in Node
  BY <1>1 DEF IInv, TypeOK
<1>4. /\ node \in Node /\ node.email = graph[n].email
      /\ node.name = copy.name /\ node.algo = copy.algo
      /\ node.watchCount = graph[n].watchCount
  BY <1>1, <1>3 DEF Node
<1> HIDE DEF node
<1>5. /\ graph'[n] = node /\ graph'[n] # None
      /\ \A m \in Ids \ {n} : graph'[m] = graph[m]
  BY <1>1, <1>2, <1>4, NoneAssumption DEF IInv, TypeOK
<1>6. StoresOK'
  BY <1>1, <1>2, <1>4 DEF IInv, TypeOK, StoresOK
<1>7. Grow
  <2>1. \A m \in Ids : graph[m] # None => graph[m].watchCount \in Nat
    BY DEF IInv, TypeOK, Node
  <2> QED
    BY <1>4, <1>5, <2>1 DEF Grow
<1>8. (EmailUnique /\ OwnNode)'
  BY <1>1, <1>4, <1>5 DEF IInv, Related, EmailUnique, OwnNode
<1>9. AlgorithmNeverAhead'
  BY <1>1, <1>4, <1>5 DEF IInv, Related, AlgorithmNeverAhead
<1>10. ASSUME NEW m \in Ids, graph'[m] # None
       PROVE  \E v \in Ids : /\ auth'[v] # None
                             /\ auth'[v].email = graph'[m].email
                             /\ v = m \/ m \in SeedNodes
                             /\ graph'[m].name \in past'[v]
  <2>1. CASE m = n
    BY <1>1, <1>4, <1>5, <2>1 DEF SameAccount
  <2>2. CASE m # n
    BY <1>5, <1>10, <2>2 DEF IInv, Related, GraphNamesWereCommitted, SameAccount
  <2> QED
    BY <2>1, <2>2
<1>11. GraphNamesWereCommitted'
  BY <1>10 DEF GraphNamesWereCommitted, SameAccount
<1>12. \A q \in Procs : StillFree(q)
  BY <1>1, <1>5 DEF IInv, Knows, CreateKnows, StillFree
<1> QED
  BY <1>6, <1>7, <1>8, <1>9, <1>11, <1>12 DEF Related

LEMMA SyncWriteKeeps ==
  ASSUME IInv, NEW p \in Procs, SyncWrite(p)
  PROVE  IInv'
<1>1. /\ req[p].pc = "syncWrite" /\ Reply(p, "patched") /\ UpdateProfile(p)
      /\ UNCHANGED <<auth, watched, liked, past, disturbed>>
  BY DEF SyncWrite, At
<1>2. StoresOK' /\ Grow /\ Related' /\ \A q \in Procs : StillFree(q)
  BY <1>1, UpdateProfileEffect
<1>3. Framed(p) /\ Knows(p)' /\ CreatorsDistinct'
  BY <1>1, ReplyKnows DEF Answers
<1> QED
  BY <1>2, <1>3, Assemble

LEMMA AlgoWriteKeeps ==
  ASSUME IInv, NEW p \in Procs, AlgoWrite(p)
  PROVE  IInv'
<1>1. /\ req[p].pc = "algoWrite" /\ Reply(p, "watched") /\ UpdateProfile(p)
      /\ UNCHANGED <<auth, watched, liked, past, disturbed>>
  BY DEF AlgoWrite, At
<1>2. StoresOK' /\ Grow /\ Related' /\ \A q \in Procs : StillFree(q)
  BY <1>1, UpdateProfileEffect
<1>3. Framed(p) /\ Knows(p)' /\ CreatorsDistinct'
  BY <1>1, ReplyKnows DEF Answers
<1> QED
  BY <1>2, <1>3, Assemble

LEMMA WatchWriteKeeps ==
  ASSUME IInv, NEW p \in Procs, WatchWrite(p)
  PROVE  IInv'
<1> DEFINE u == req[p].user
           node == [graph[u] EXCEPT !.watchCount = @ + 1]
<1>1. /\ req[p] \in Request /\ req[p].pc = "watchWrite" /\ u \in Ids
      /\ Goto(p, "reload") /\ UNCHANGED <<auth, past, disturbed>>
      /\ req[p].movie \in Movies /\ graph[u] # None
  BY DEF IInv, TypeOK, Knows, WatchKnows, WatchWrite, At
<1>2. /\ graph' = [graph EXCEPT ![u] = node]
      /\ watched' = watched \cup {<<u, req[p].movie>>}
      /\ liked' \in {liked, liked \cup {<<u, req[p].movie>>}}
      /\ req[p].like => <<u, req[p].movie>> \in liked'
  BY DEF WatchWrite
<1>3. graph[u] \in Node
  BY <1>1 DEF IInv, TypeOK
<1>4. /\ node \in Node /\ node.email = graph[u].email
      /\ node.name = graph[u].name /\ node.algo = graph[u].algo
      /\ node.watchCount = graph[u].watchCount + 1
      /\ graph[u].watchCount \in Nat
  BY <1>3 DEF Node
<1> HIDE DEF node
<1>5. /\ graph'[u] = node /\ graph'[u] # None
      /\ \A m \in Ids \ {u} : graph'[m] = graph[m]
  BY <1>1, <1>2, <1>4, NoneAssumption DEF IInv, TypeOK
<1>6. StoresOK'
  BY <1>1, <1>2, <1>4 DEF IInv, TypeOK, StoresOK
<1>7. Grow
  <2>1. \A m \in Ids : graph[m] # None => graph[m].watchCount \in Nat
    BY DEF IInv, TypeOK, Node
  <2> QED
    BY <1>1, <1>2, <1>4, <1>5, <2>1 DEF Grow
<1>8. (EmailUnique /\ OwnNode)'
  BY <1>1, <1>4, <1>5 DEF IInv, Related, EmailUnique, OwnNode
<1>9. GraphNamesWereCommitted'
  BY <1>1, <1>4, <1>5, <1>7, NamesKept DEF IInv, Related
<1>10. AlgorithmNeverAhead'
  <2>1. Rank(Select(graph[u].watchCount)) <= Rank(Select(node.watchCount))
    BY <1>4, SelectMonotone
  <2>2. Rank(graph[u].algo) <= Rank(Select(graph[u].watchCount))
    BY <1>1 DEF IInv, Related, AlgorithmNeverAhead
  <2>3. Rank(node.algo) <= Rank(Select(node.watchCount))
    BY <1>4, <2>1, <2>2 DEF Rank
  <2> QED
    BY <1>5, <2>3 DEF IInv, Related, AlgorithmNeverAhead
<1>11. \A q \in Procs \ {p} : StillFree(q)
  BY <1>1, <1>5 DEF IInv, Knows, CreateKnows, StillFree
<1>12. Framed(p) /\ req'[p] = [req[p] EXCEPT !.pc = "reload"]
  BY <1>1, GotoEffect DEF IInv, Pcs
<1>13. /\ req'[p].pc = "reload" /\ req'[p].user = u
       /\ req'[p].movie = req[p].movie /\ req'[p].like = req[p].like
  BY <1>1, <1>12 DEF Request
<1>14. Knows(p)'
  BY <1>1, <1>2, <1>5, <1>13
  DEF Knows, CreateKnows, PatchKnows, WatchKnows, CopyKnows
<1>15. CreatorsDistinct'
  BY <1>12, <1>13, CreatorsKept
<1> QED
  BY <1>6, <1>7, <1>8, <1>9, <1>10, <1>11, <1>12, <1>14, <1>15, Assemble
  DEF Related

-----------------------------------------------------------------------------
(* The inductive invariant *)

LEMMA InitIInv == Init => IInv
<1> SUFFICES ASSUME Init PROVE IInv
  OBVIOUS
<1>1. PICK name \in Names, s \in Secrets, r \in Roles :
        /\ auth = [u \in Ids |-> IF u \in SeedRows
                     THEN [email |-> SeedEmail, name |-> name, pw |-> s,
                           roles |-> r]
                     ELSE None]
        /\ graph = [u \in Ids |-> IF u \in SeedNodes
                      THEN [email |-> SeedEmail, name |-> name, algo |-> "",
                            watchCount |-> 0]
                      ELSE None]
        /\ past = [u \in Ids |-> IF u \in SeedRows THEN {name} ELSE {}]
  BY DEF Init
<1>2. /\ watched = {} /\ liked = {} /\ disturbed = SeedRows \cup SeedNodes
      /\ req = [p \in Procs |-> Unused]
  BY DEF Init
<1> DEFINE row == [email |-> SeedEmail, name |-> name, pw |-> s, roles |-> r]
           node == [email |-> SeedEmail, name |-> name, algo |-> "",
                    watchCount |-> 0]
<1>3. /\ row \in Row /\ node \in Node /\ row # None /\ node # None
      /\ row.email = SeedEmail /\ node.email = SeedEmail /\ node.name = name
      /\ node.algo = ""
  <2>1. row \in Row
    BY SeedAssumption DEF Row
  <2>2. node \in Node
    BY SeedAssumption DEF Node, Algos
  <2>3. row.email = SeedEmail
    OBVIOUS
  <2>4. node.email = SeedEmail /\ node.name = name /\ node.algo = ""
    OBVIOUS
  <2> HIDE DEF row, node
  <2> QED
    BY <2>1, <2>2, <2>3, <2>4, NoneAssumption
<1>4. /\ auth = [u \in Ids |-> IF u \in SeedRows THEN row ELSE None]
      /\ graph = [u \in Ids |-> IF u \in SeedNodes THEN node ELSE None]
  BY <1>1
<1> HIDE DEF row, node
<1>5. TypeOK
  <2>1. req \in [Procs -> Request]
    BY <1>2, UnusedType
  <2>2. past \in [Ids -> SUBSET Names]
    BY <1>1
  <2> QED
    BY <1>2, <1>3, <1>4, <2>1, <2>2, SeedAssumption DEF TypeOK
<1>6. \A p \in Procs : req[p].pc = "idle"
  BY <1>2 DEF Unused
<1>7. (\A p \in Procs : Knows(p)) /\ CreatorsDistinct
  BY <1>6
  DEF Knows, CreateKnows, PatchKnows, WatchKnows, CopyKnows,
      CreatorsDistinct
<1>8. EmailUnique /\ OwnNode
  BY <1>4, SeedAssumption DEF EmailUnique, OwnNode
<1>9. GraphNamesWereCommitted
  <2> SUFFICES ASSUME NEW n \in Ids, graph[n] # None
               PROVE  \E u \in Ids : SameAccount(u, n) /\ graph[n].name \in past[u]
    BY DEF GraphNamesWereCommitted
  <2>1. n \in SeedNodes /\ graph[n] = node
    BY <1>4
  <2>2. PICK u \in SeedRows : u \in Ids
    BY <2>1, SeedAssumption
  <2>3. auth[u] = row /\ past[u] = {name}
    BY <1>1, <1>4, <2>2
  <2> QED
    BY <1>3, <2>1, <2>2, <2>3 DEF SameAccount
<1>10. AlgorithmNeverAhead
  <2> SUFFICES ASSUME NEW n \in Ids, graph[n] # None
               PROVE  Rank(graph[n].algo) <= Rank(Select(graph[n].watchCount))
    BY DEF AlgorithmNeverAhead
  <2>1. graph[n] = node
    BY <1>4
  <2>2. Rank(node.algo) = 0
    BY <1>3 DEF Rank
  <2> QED
    BY <2>1, <2>2 DEF Rank
<1> QED
  BY <1>5, <1>7, <1>8, <1>9, <1>10 DEF IInv, Related

LEMMA NextIInv == IInv /\ [Next]_vars => IInv'
<1> SUFFICES ASSUME IInv, [Next]_vars PROVE IInv'
  OBVIOUS
<1>1. ASSUME NEW p \in Procs, Step(p) PROVE IInv'
  BY <1>1, StartCreateKeeps, PgCreateKeeps, GraphCreateKeeps, StartPatchKeeps,
     PgFindKeeps, PgUpdateKeeps, SyncByIdKeeps, SyncByEmailKeeps,
     SyncWriteKeeps, StartWatchKeeps, ExistsKeeps, WatchWriteKeeps,
     ReloadKeeps, AlgoWriteKeeps, ReturnKeeps, FaultKeeps
  DEF Step
<1>2. CASE UNCHANGED vars
  BY <1>2
  DEF vars, IInv, TypeOK, Knows, CreateKnows, PatchKnows, WatchKnows, CopyKnows,
      GoodCopy, HasRow, SameAccount, CreatorsDistinct, Related,
      EmailUnique, OwnNode, GraphNamesWereCommitted, AlgorithmNeverAhead
<1> QED
  BY <1>1, <1>2 DEF Next

LEMMA Inductive == Spec => []IInv
  BY InitIInv, NextIInv, PTL DEF Spec

-----------------------------------------------------------------------------
(* Theorems *)

\* Every variable keeps its type: in particular no handler writes to a node or
\* a row that is not there.
THEOREM TypeCorrect == Spec => []TypeOK
<1>1. IInv => TypeOK
  BY DEF IInv
<1> QED
  BY <1>1, Inductive, PTL

\* The dual write of POST /users and the profile writes of the other requests
\* never leave a graph user that no account owns.
THEOREM ProfilesHaveAccounts == Spec => []NodesHaveRows
<1>1. IInv => NodesHaveRows
  BY DEF IInv, Related, GraphNamesWereCommitted, NodesHaveRows
<1> QED
  BY <1>1, Inductive, PTL

\* No request puts a name in the graph that Postgres has not accepted, however
\* old the profile it writes back.
THEOREM OnlyCommittedNames == Spec => []GraphNamesWereCommitted
<1>1. IInv => GraphNamesWereCommitted
  BY DEF IInv, Related
<1> QED
  BY <1>1, Inductive, PTL

\* The read-modify-write of currentAlgorithm may lag behind the watch count and
\* never runs ahead of it, for any thresholds.
THEOREM NeverAhead == Spec => []AlgorithmNeverAhead
<1>1. IInv => AlgorithmNeverAhead
  BY DEF IInv, Related
<1> QED
  BY <1>1, Inductive, PTL

\* No request answers success before its writes are in both stores: the step
\* that gives the answer finds, or leaves, the new account whole, the sent
\* columns in the row or the sent name in the account's node, and the edges of
\* the watch, whatever the other requests wrote in between.
THEOREM TrueAnswers == Spec => AnswersAreTrue
<1>1. ASSUME IInv, [Next]_vars, NEW p \in Procs, Busy(p), At(p, "done")'
      PROVE  AnswerTrue(p)'
  <2> DEFINE r == req[p]
             u == req[p].user
  <2>1. PICK q \in Procs : Step(q)
    BY <1>1 DEF Next, vars, Busy, At
  <2>2. q = p
    BY <1>1, <2>1
    DEF IInv, TypeOK, Busy, At, Step, StartCreate, StartPatch, StartWatch, Begin,
        PgCreate, GraphCreate, PgFind, PgUpdate, SyncById, SyncByEmail, SyncWrite,
        Exists, WatchWrite, Reload, AlgoWrite, Return, Fault, Goto, Reply, Read
  <2>3. r \in Request /\ u \in Ids /\ Knows(p)
    BY <1>1 DEF IInv, TypeOK, Knows, Busy
  <2>4. ASSUME NEW answer \in Answers, Reply(p, answer)
        PROVE  /\ req'[p].user = u /\ req'[p].answer = answer
               /\ req'[p].email = r.email /\ req'[p].input = r.input
               /\ req'[p].movie = r.movie /\ req'[p].like = r.like
    BY <1>1, <2>3, <2>4, ReplyEffect DEF IInv, Request
  <2>5. ASSUME NEW answer \in Answers \ {"created", "patched", "watched"},
               Reply(p, answer)
        PROVE  AnswerTrue(p)'
    BY <2>4, <2>5 DEF AnswerTrue
  <2>6. CASE /\ GraphCreate(p) /\ Reply(p, "created")
             /\ graph' = [graph EXCEPT ![u] = NewNode(p)]
    <3>1. /\ auth' = auth /\ HasRow(u, r.email)
          /\ r.email \in Emails /\ r.input.name \in Names
      BY <2>3, <2>6 DEF GraphCreate, At, Knows, CreateKnows
    <3>2. NewNode(p) \in Node
      BY <3>1 DEF NewNode, Node, Algos
    <3>3. graph'[u] = NewNode(p) /\ NewNode(p) # None
      BY <1>1, <2>3, <2>6, <3>2, NoneAssumption DEF IInv, TypeOK
    <3>4. NewNode(p).email = r.email /\ NewNode(p).name = r.input.name
      BY DEF NewNode
    <3> QED
      BY <2>4, <2>6, <3>1, <3>3, <3>4 DEF AnswerTrue, HasRow, Answers
  <2>7. CASE /\ PgUpdate(p) /\ r.input.name = None /\ Reply(p, "patched")
             /\ auth' = [auth EXCEPT ![u] = Patched(auth[u], r.input)]
             /\ r.input.roles # EmptyRoles
    <3> DEFINE row == Patched(auth[u], r.input)
    <3>1. auth[u] \in Row /\ r.input \in Input
      BY <1>1, <2>3, <2>7 DEF IInv, TypeOK, PgUpdate, Base, Request
    <3>2. /\ row.pw = Sent(r.input.pw, auth[u].pw) /\ row # None
          /\ row.roles = Sent(r.input.roles, auth[u].roles)
      BY <2>7, <3>1, PatchedIsRow
    <3> HIDE DEF row
    <3>3. auth'[u] = row
      BY <1>1, <2>3, <2>7 DEF IInv, TypeOK, row
    <3>4. /\ r.input.pw \in {None, auth'[u].pw}
          /\ r.input.roles \in {None, auth'[u].roles}
      BY <3>2, <3>3 DEF Sent
    <3> QED
      BY <2>4, <2>7, <3>2, <3>3, <3>4 DEF AnswerTrue, Answers
  <2>8. CASE SyncWrite(p)
    <3> DEFINE n == r.node
    <3>1. /\ r.pc = "syncWrite" /\ UpdateProfile(p) /\ Reply(p, "patched")
          /\ UNCHANGED <<auth, watched, liked, past, disturbed>>
      BY <2>8 DEF SyncWrite, At
    <3>2. /\ n \in Ids /\ graph[n] # None /\ SameAccount(u, n)
          /\ r.input.name \in Names /\ r.input.name \in past[u]
          /\ r.copy.name = r.input.name
      BY <2>3, <3>1 DEF Knows, PatchKnows, CopyKnows, GoodCopy
    <3>3. Grow
      BY <1>1, <3>1, UpdateProfileEffect
    <3>4. graph'[n].name = r.input.name
      BY <1>1, <3>1, <3>2 DEF UpdateProfile, IInv, TypeOK
    <3>5. /\ graph'[n] # None /\ auth'[u] # None
          /\ auth'[u].email = graph'[n].email
          /\ u = n \/ n \in SeedNodes
      BY <2>3, <3>2, <3>3 DEF Grow, SameAccount
    <3>6. r.input.name # None
      BY <3>2, NoneAssumption
    <3>7. /\ req'[p].user = u /\ req'[p].answer = "patched"
          /\ req'[p].input = r.input /\ past' = past
      BY <2>4, <3>1 DEF Answers
    <3>8. req'[p].answer # "created" /\ req'[p].answer # "watched"
      BY <3>7
    <3>9. (\E m \in Ids : /\ graph[m] # None /\ SameAccount(req[p].user, m)
                         /\ graph[m].name = req[p].input.name)'
      BY <3>2, <3>4, <3>5, <3>7 DEF SameAccount
    <3>10. (req[p].input.name # None /\ req[p].input.name \in past[req[p].user])'
      BY <3>2, <3>6, <3>7
    <3> HIDE DEF r, u, n
    <3> QED
      BY <3>8, <3>9, <3>10, Zenon DEF AnswerTrue
  <2>9. CASE (Reload(p) \/ AlgoWrite(p)) /\ Reply(p, "watched")
    <3>1. r.pc \in {"reload", "algoWrite"} /\ UNCHANGED <<watched, liked>>
      BY <2>9 DEF Reload, AlgoWrite, At
    <3>2. /\ <<u, r.movie>> \in watched
          /\ r.like => <<u, r.movie>> \in liked
      BY <2>3, <3>1 DEF Knows, WatchKnows
    <3> QED
      BY <2>4, <2>9, <3>1, <3>2 DEF AnswerTrue, Answers
  <2>10. ASSUME NEW pc \in Pcs \ {"done"} PROVE ~Goto(p, pc)
    BY <1>1, <2>3 DEF Goto, At, IInv, TypeOK, Request
  <2>11. ASSUME NEW pc \in Pcs \ {"done"}, NEW n, NEW copy
         PROVE  ~Read(p, n, copy, pc)
    <3> SUFFICES ASSUME Read(p, n, copy, pc) PROVE FALSE
      OBVIOUS
    <3>1. req'[p] = [r EXCEPT !.pc = pc, !.node = n, !.copy = copy]
      BY <1>1 DEF Read, IInv, TypeOK
    <3> QED
      BY <1>1, <2>3, <3>1 DEF At, Request
  <2>12. CASE GraphCreate(p)
    <3>1. "error" \in Answers \ {"created", "patched", "watched"}
      BY DEF Answers
    <3> QED
      BY <2>5, <2>6, <2>12, <3>1 DEF GraphCreate
  <2>13. CASE PgUpdate(p)
    <3>1. CASE r.input.roles = EmptyRoles
      BY <2>5, <2>13, <3>1 DEF PgUpdate, Answers
    <3>2. CASE r.input.roles # EmptyRoles
      <4>1. ~Goto(p, "syncById")
        BY <2>10 DEF Pcs
      <4>2. /\ auth' = [auth EXCEPT ![u] = Patched(auth[u], r.input)]
            /\ r.input.name = None /\ Reply(p, "patched")
        BY <2>13, <3>2, <4>1 DEF PgUpdate, Base
      <4> QED
        BY <2>7, <2>13, <3>2, <4>2
    <3> QED
      BY <3>1, <3>2
  <2>14. CASE Reload(p) \/ AlgoWrite(p)
    BY <2>9, <2>11, <2>14 DEF Reload, AlgoWrite, Pcs
  <2>15. CASE PgCreate(p)
    BY <2>5, <2>10, <2>15 DEF PgCreate, CreateError, Answers, Pcs
  <2>16. CASE PgFind(p)
    <3>1. req' # [req EXCEPT ![p] =
                    [@ EXCEPT !.pc = "pgUpdate", !.loaded = auth[u]]]
      BY <1>1, <2>3 DEF At, IInv, TypeOK, Request
    <3> QED
      BY <2>5, <2>16, <3>1 DEF PgFind, Answers
  <2>17. CASE SyncByEmail(p) \/ Exists(p) \/ Fault(p)
    BY <2>5, <2>10, <2>11, <2>17 DEF SyncByEmail, Exists, Fault, Answers, Pcs
  <2>18. ~SyncById(p) /\ ~WatchWrite(p)
    BY <2>10, <2>11 DEF SyncById, WatchWrite, Pcs
  <2>19. ~StartCreate(p) /\ ~StartPatch(p) /\ ~StartWatch(p) /\ ~Return(p)
    BY <1>1 DEF StartCreate, StartPatch, StartWatch, Return, Busy, At
  <2> QED
    BY <2>1, <2>2, <2>8, <2>12, <2>13, <2>14, <2>15, <2>16, <2>17, <2>18, <2>19
    DEF Step
<1>2. IInv /\ [Next]_vars =>
        [\A p \in Procs : (Busy(p) /\ At(p, "done")') => AnswerTrue(p)']_vars
  BY <1>1
<1> QED
  BY <1>2, Inductive, PTL DEF Spec, AnswersAreTrue

\* No PATCH undoes another: a column of a row changes only to the value that a
\* request then at its update has sent for it, and a name or a password only by
\* the owner's request.
THEOREM NoColumnUndone == Spec => OnlySentColumnsChange
<1>1. ASSUME IInv, [Next]_vars, NEW u \in Ids,
             NEW column \in {"name", "pw", "roles"},
             auth[u] # None, auth'[u][column] # auth[u][column]
      PROVE  \E p \in Procs :
               /\ At(p, "pgUpdate") /\ req[p].user = u
               /\ req[p].input[column] = auth'[u][column]
               /\ column # "roles" => req[p].caller = u
  <2>1. auth' # auth
    BY <1>1
  <2>2. PICK p \in Procs : PgCreate(p) \/ PgUpdate(p)
    BY <1>1, <2>1
    DEF Next, Step, vars, StartCreate, StartPatch, StartWatch, Begin, GraphCreate,
        PgFind, SyncById, SyncByEmail, SyncWrite, Exists, WatchWrite, Reload,
        AlgoWrite, Return, Fault
  <2>3. req[p] \in Request /\ auth \in [Ids -> Row \cup {None}]
    BY <1>1 DEF IInv, TypeOK
  <2>4. CASE PgCreate(p)
    <3>1. /\ req[p].user \in Ids /\ auth[req[p].user] = None
          /\ \A v \in Ids \ {req[p].user} : auth'[v] = auth[v]
      BY <1>1, <2>3, <2>4 DEF IInv, Knows, CreateKnows, PgCreate, At
    <3> QED
      BY <1>1, <3>1
  <2>5. CASE PgUpdate(p)
    <3> DEFINE v == req[p].user
               input == req[p].input
    <3>1. /\ At(p, "pgUpdate") /\ v \in Ids
          /\ input \in Input /\ auth[v] \in Row
          /\ (req[p].caller # v => input.name = None /\ input.pw = None)
      BY <1>1, <2>3, <2>5 DEF IInv, Knows, PatchKnows, PgUpdate, Base, At, Request
    <3>2. auth' = [auth EXCEPT ![v] = Patched(auth[v], input)]
      BY <1>1, <2>1, <2>5 DEF PgUpdate, Base
    <3>3. u = v
      BY <1>1, <2>3, <3>1, <3>2
    <3>4. /\ auth'[v].name = Sent(input.name, auth[v].name)
          /\ auth'[v].pw = Sent(input.pw, auth[v].pw)
          /\ auth'[v].roles = Sent(input.roles, auth[v].roles)
      BY <2>3, <3>1, <3>2 DEF Patched
    <3>5. CASE column = "name"
      BY <1>1, <3>1, <3>3, <3>4, <3>5 DEF Sent
    <3>6. CASE column = "pw"
      BY <1>1, <3>1, <3>3, <3>4, <3>6 DEF Sent
    <3>7. CASE column = "roles"
      BY <1>1, <3>1, <3>3, <3>4, <3>7 DEF Sent
    <3> QED
      BY <3>5, <3>6, <3>7
  <2> QED
    BY <2>2, <2>4, <2>5
<1>2. IInv /\ [Next]_vars => [OnlySentChange]_vars
  BY <1>1 DEF OnlySentChange
<1> QED
  BY <1>2, Inductive, PTL DEF Spec, OnlySentColumnsChange

-----------------------------------------------------------------------------
(* The count of watched movies *)

Seen(u) == {m \in Movies : <<u, m>> \in watched}

EdgesCounted ==
  /\ liked \subseteq watched
  /\ \A u \in Ids :
       /\ IsFiniteSet(Seen(u))
       /\ Seen(u) # {} => graph[u] # None
       /\ graph[u] # None => Cardinality(Seen(u)) <= graph[u].watchCount

\* A step that records no watch keeps the edges, and takes no count away.
LEMMA EdgesKept ==
  ASSUME IInv, IInv', EdgesCounted, UNCHANGED <<watched, liked>>,
         \A u \in Ids : graph[u] # None =>
           graph'[u] # None /\ graph'[u].watchCount = graph[u].watchCount
  PROVE  EdgesCounted'
<1> SUFFICES ASSUME NEW u \in Ids
             PROVE  /\ IsFiniteSet(Seen(u)')
                    /\ Seen(u)' # {} => graph'[u] # None
                    /\ graph'[u] # None =>
                         Cardinality(Seen(u)') <= graph'[u].watchCount
  BY DEF EdgesCounted
<1>1. Seen(u)' = Seen(u)
  BY DEF Seen
<1>2. /\ IsFiniteSet(Seen(u)) /\ (Seen(u) # {} => graph[u] # None)
      /\ graph[u] # None => Cardinality(Seen(u)) <= graph[u].watchCount
  BY DEF EdgesCounted
<1>3. CASE graph[u] # None
  BY <1>1, <1>2, <1>3
<1>4. CASE graph[u] = None
  <2>1. Seen(u) = {} /\ Cardinality(Seen(u)) = 0
    BY <1>2, <1>4, FS_EmptySet
  <2>2. graph'[u] # None => graph'[u].watchCount \in Nat
    BY DEF IInv, TypeOK, Node
  <2> QED
    BY <1>1, <1>2, <2>1, <2>2
<1> QED
  BY <1>3, <1>4

\* A watch adds at most one edge and exactly one to the count.
LEMMA WatchCounted ==
  ASSUME IInv, EdgesCounted, NEW p \in Procs, WatchWrite(p)
  PROVE  EdgesCounted'
<1> DEFINE v == req[p].user
           m == req[p].movie
<1>1. /\ v \in Ids /\ m \in Movies /\ graph[v] # None /\ graph[v] \in Node
      /\ graph \in [Ids -> Node \cup {None}]
  BY DEF IInv, TypeOK, Knows, WatchKnows, WatchWrite, At
<1>2. /\ graph' = [graph EXCEPT ![v].watchCount = @ + 1]
      /\ watched' = watched \cup {<<v, m>>}
      /\ liked' \in {liked, liked \cup {<<v, m>>}}
  BY DEF WatchWrite
<1>3. liked' \subseteq watched'
  BY <1>2 DEF EdgesCounted
<1>4. ASSUME NEW u \in Ids
      PROVE  /\ IsFiniteSet(Seen(u)')
             /\ Seen(u)' # {} => graph'[u] # None
             /\ graph'[u] # None => Cardinality(Seen(u)') <= graph'[u].watchCount
  <2>1. /\ IsFiniteSet(Seen(u)) /\ (Seen(u) # {} => graph[u] # None)
        /\ graph[u] # None => Cardinality(Seen(u)) <= graph[u].watchCount
    BY DEF EdgesCounted
  <2>2. CASE u # v
    <3>1. Seen(u)' = Seen(u) /\ graph'[u] = graph[u]
      BY <1>1, <1>2, <2>2 DEF Seen
    <3> QED
      BY <2>1, <3>1
  <2>3. CASE u = v
    <3>1. Seen(u)' = Seen(u) \cup {m}
      BY <1>1, <1>2, <2>3 DEF Seen
    <3>2. /\ IsFiniteSet(Seen(u)')
          /\ Cardinality(Seen(u)') <= Cardinality(Seen(u)) + 1
          /\ Cardinality(Seen(u)) \in Nat /\ Cardinality(Seen(u)') \in Nat
      <4>1. IsFiniteSet(Seen(u)) /\ Cardinality(Seen(u)) \in Nat
        BY <2>1, FS_CardinalityType
      <4>2. /\ IsFiniteSet(Seen(u) \cup {m})
            /\ Cardinality(Seen(u) \cup {m}) =
                 IF m \in Seen(u) THEN Cardinality(Seen(u))
                 ELSE Cardinality(Seen(u)) + 1
        BY <4>1, FS_AddElement
      <4> QED
        BY <3>1, <4>1, <4>2
    <3>3. /\ graph'[u].watchCount = graph[u].watchCount + 1
          /\ graph[u].watchCount \in Nat
      BY <1>1, <1>2, <2>3 DEF Node
    <3>4. graph'[u] # None
      <4>1. [graph[v] EXCEPT !.watchCount = @ + 1] \in Node
        BY <1>1 DEF Node
      <4> QED
        BY <1>1, <1>2, <2>3, <4>1, NoneAssumption
    <3> QED
      BY <1>1, <2>1, <2>3, <3>2, <3>3, <3>4
  <2> QED
    BY <2>2, <2>3
<1> QED
  BY <1>3, <1>4 DEF EdgesCounted

\* A step that is not a watch's write leaves the edges and the counts.
LEMMA OtherStepsKeepEdges ==
  ASSUME IInv, NEW p \in Procs, Step(p), ~WatchWrite(p)
  PROVE  /\ UNCHANGED <<watched, liked>>
         /\ \A u \in Ids : graph[u] # None =>
              graph'[u] # None /\ graph'[u].watchCount = graph[u].watchCount
<1>1. UNCHANGED <<watched, liked>>
  BY DEF Step, StartCreate, StartPatch, StartWatch, Begin, PgCreate, GraphCreate,
         PgFind, PgUpdate, SyncById, SyncByEmail, SyncWrite, Exists, Reload,
         AlgoWrite, Return, Fault
<1>2. CASE UNCHANGED graph
  BY <1>1, <1>2
<1>3. CASE GraphCreate(p)
  <2>1. CASE UNCHANGED graph
    BY <1>1, <2>1
  <2>2. CASE graph[req[p].user] = None /\
             graph' = [graph EXCEPT ![req[p].user] = NewNode(p)]
    BY <1>1, <2>2 DEF IInv, TypeOK
  <2>3. req[p].user \in Ids
    BY <1>3 DEF IInv, Knows, GraphCreate, At
  <2> QED
    BY <1>3, <2>1, <2>2, <2>3 DEF GraphCreate
<1>4. CASE SyncWrite(p) \/ AlgoWrite(p)
  <2> DEFINE n == req[p].node
  <2>1. /\ UpdateProfile(p) /\ req[p].pc \in {"syncWrite", "algoWrite"}
        /\ graph \in [Ids -> Node \cup {None}]
    BY <1>4 DEF IInv, TypeOK, SyncWrite, AlgoWrite, At
  <2>2. n \in Ids /\ graph[n] # None /\ req[p].copy \in Node
    BY <2>1 DEF IInv, Knows, CopyKnows, GoodCopy
  <2>3. /\ graph'[n].watchCount = graph[n].watchCount
        /\ \A m \in Ids \ {n} : graph'[m] = graph[m]
    BY <2>1, <2>2 DEF UpdateProfile
  <2>4. graph'[n] # None
    BY <1>4, <2>1, <2>2, UpdateProfileEffect DEF Grow, SyncWrite, AlgoWrite
  <2> QED
    BY <1>1, <2>2, <2>3, <2>4
<1> QED
  BY <1>2, <1>3, <1>4
  DEF Step, StartCreate, StartPatch, StartWatch, Begin, PgCreate, PgFind, PgUpdate,
      SyncById, SyncByEmail, Exists, Reload, Return, Fault

\* No watch is lost: whatever profile is written back, the count of a user is
\* never below the number of movies it watched.
THEOREM NoWatchLost == Spec => []WatchEdgesCounted
<1>1. Init => EdgesCounted
  <2> SUFFICES ASSUME Init PROVE EdgesCounted
    OBVIOUS
  <2>1. watched = {} /\ liked = {}
    BY DEF Init
  <2>2. \A u \in Ids : Seen(u) = {}
    BY <2>1 DEF Seen
  <2>3. \A u \in Ids : graph[u] # None => graph[u].watchCount \in Nat
    BY InitIInv DEF IInv, TypeOK, Node
  <2> QED
    BY <2>1, <2>2, <2>3, FS_EmptySet DEF EdgesCounted
<1>2. IInv /\ IInv' /\ EdgesCounted /\ [Next]_vars => EdgesCounted'
  <2> SUFFICES ASSUME IInv, IInv', EdgesCounted, [Next]_vars
               PROVE  EdgesCounted'
    OBVIOUS
  <2>1. ASSUME NEW p \in Procs, WatchWrite(p) PROVE EdgesCounted'
    BY <2>1, WatchCounted
  <2>2. ASSUME NEW p \in Procs, Step(p), ~WatchWrite(p) PROVE EdgesCounted'
    BY <2>2, OtherStepsKeepEdges, EdgesKept
  <2>3. CASE UNCHANGED vars
    BY <2>3, EdgesKept DEF vars
  <2> QED
    BY <2>1, <2>2, <2>3 DEF Next
<1>3. EdgesCounted => WatchEdgesCounted
  BY DEF EdgesCounted, WatchEdgesCounted, Seen
<1> QED
  BY <1>1, <1>2, <1>3, Inductive, PTL DEF Spec
=============================================================================
