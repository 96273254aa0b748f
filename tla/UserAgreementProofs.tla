------------------------ MODULE UserAgreementProofs ------------------------
(***************************************************************************)
(* A user whose requests neither overlap nor break off ends every request  *)
(* the same in both stores.  The invariant of UserStoresProofs says what   *)
(* holds whatever the requests do; the one here adds what a request may    *)
(* count on while it is the only one about its user: between its calls,    *)
(* nobody else writes that user's row or node.                             *)
(***************************************************************************)
EXTENDS UserStoresProofs

\* currentAlgorithm is the one the count selects.
Chosen(u) ==
  graph[u].algo = IF graph[u].watchCount = 0 THEN "POPULAR"
                  ELSE Select(graph[u].watchCount)

Agree(u) ==
  /\ graph[u] # None
  /\ graph[u].email = auth[u].email
  /\ graph[u].name = auth[u].name
  /\ Chosen(u)

\* The seeded pair shares an e-mail across two ids, and is never undisturbed.
SeedsApart ==
  /\ \A u \in SeedRows : HasRow(u, SeedEmail)
  /\ \A n \in SeedNodes : graph[n] # None /\ graph[n].email = SeedEmail
  /\ SeedRows \cup SeedNodes \subseteq disturbed

\* An undisturbed user has at most one request under way.
Alone ==
  \A p, q \in Procs :
    (p # q /\ Busy(p) /\ Busy(q) /\ req[p].user = req[q].user)
      => req[p].user \in disturbed

\* The watch request writes the node of its own user.
OwnCopy(p) == At(p, "algoWrite") => req[p].node = req[p].user

\* How far the two stores of p's user are apart while p is alone with them:
\* a request that has written nothing yet leaves them as it found them, and
\* one that has is apart in just what its next call puts right.
Midway(p) ==
  LET r == req[p]
      u == r.user
  IN /\ r.pc \in {"pgFind", "pgUpdate", "exists", "watchWrite"} =>
          (auth[u] # None => Agree(u))
     /\ r.pc = "graphCreate" =>
          graph[u] = None /\ auth[u].name = r.input.name
     /\ r.pc # "syncByEmail"
     /\ r.pc \in {"syncById", "syncWrite"} =>
          graph[u] # None /\ Chosen(u) /\ auth[u].name = r.input.name
     /\ r.pc = "syncWrite" =>
          r.node = u /\ r.copy = [graph[u] EXCEPT !.name = r.input.name]
     /\ r.pc \in {"reload", "algoWrite"} =>
          /\ auth[u] # None /\ graph[u] # None
          /\ graph[u].name = auth[u].name /\ graph[u].watchCount > 0
     /\ r.pc = "algoWrite" =>
          r.copy = [graph[u] EXCEPT !.algo = Select(graph[u].watchCount)]

UndisturbedMidway ==
  \A p \in Procs : (Busy(p) /\ req[p].user \notin disturbed) => Midway(p)

AInv ==
  /\ SeedsApart /\ Alone /\ \A p \in Procs : OwnCopy(p)
  /\ UndisturbedMidway /\ UndisturbedUsersAgree

-----------------------------------------------------------------------------
(* What a step of p leaves of the other users and of the other requests *)

\* A row or a node keeps its e-mail, and a user once disturbed stays so.
EmailsKept ==
  /\ \A u \in Ids : auth[u] # None =>
       auth'[u] # None /\ auth'[u].email = auth[u].email
  /\ \A n \in Ids : graph[n] # None =>
       graph'[n] # None /\ graph'[n].email = graph[n].email
  /\ disturbed \subseteq disturbed'

\* p is about user u, and writes to no undisturbed user but u.
About(p, u) ==
  /\ Busy(p) => req[p].user = u
  /\ Busy(p)' =>
       /\ req'[p].user = u
       /\ Busy(p) \/ Quiet(u) \/ u \in disturbed'
  /\ Busy(p) \/ UNCHANGED <<auth, graph>>
  /\ \A v \in Ids \ disturbed' :
       v # u => auth'[v] = auth[v] /\ graph'[v] = graph[v]

\* What is left to show of a step of p: where p stands, or the two stores
\* when it leaves its user quiet.
LEMMA AssembleAgreement ==
  ASSUME IInv, IInv', AInv, NEW p \in Procs, NEW u \in Ids,
         Framed(p), EmailsKept, About(p, u), OwnCopy(p)',
         (Busy(p)' /\ u \notin disturbed') => Midway(p)',
         (/\ ~Busy(p)' /\ u \notin disturbed' /\ Quiet(u)'
          /\ auth'[u] # None) => Agree(u)'
  PROVE  AInv'
<1>1. SeedsApart'
  BY SeedAssumption DEF AInv, SeedsApart, EmailsKept, HasRow
<1>2. \A q \in Procs \ {p} : req'[q] = req[q]
  BY DEF Framed
<1>3. Alone'
  <2> SUFFICES ASSUME NEW q \in Procs, NEW r \in Procs, q # r,
                      Busy(q)', Busy(r)', req'[q].user = req'[r].user
               PROVE  req'[q].user \in disturbed'
    BY DEF Alone, Busy
  <2>1. CASE q # p /\ r # p
    <3>1. req[q].user \in disturbed
      BY <1>2, <2>1 DEF AInv, Alone, Busy
    <3> QED
      BY <1>2, <2>1, <3>1 DEF EmailsKept
  <2>2. ASSUME NEW o \in Procs \ {p}, Busy(o)', Busy(p)', req'[o].user = u
        PROVE  u \in disturbed'
    <3>1. Busy(o) /\ req[o].user = u
      BY <1>2, <2>2 DEF Busy
    <3>2. CASE Busy(p)
      BY <3>1, <3>2 DEF About, AInv, Alone, EmailsKept
    <3> QED
      BY <2>2, <3>1, <3>2 DEF About, Quiet
  <2> QED
    BY <2>1, <2>2 DEF About
<1>4. \A q \in Procs : OwnCopy(q)'
  BY <1>2 DEF AInv, OwnCopy, At
<1>5. UndisturbedMidway'
  <2> SUFFICES ASSUME NEW q \in Procs \ {p}, Busy(q)',
                      req'[q].user \notin disturbed'
               PROVE  Midway(q)'
    BY DEF UndisturbedMidway, About, Busy
  <2> DEFINE v == req[q].user
  <2>1. /\ Busy(q) /\ v \notin disturbed' /\ v \notin disturbed
        /\ req'[q] = req[q]
    BY <1>2 DEF Busy, EmailsKept
  <2>2. v \in Ids
    BY <2>1 DEF IInv, Knows, Busy
  <2>3. Midway(q)
    BY <2>1 DEF AInv, UndisturbedMidway
  <2>4. v # u \/ UNCHANGED <<auth, graph>>
    BY <2>1 DEF About, AInv, Alone
  <2>5. auth'[v] = auth[v] /\ graph'[v] = graph[v]
    BY <2>1, <2>2, <2>4 DEF About
  <2> QED
    BY <2>1, <2>3, <2>5 DEF Midway, Agree, Chosen
<1>6. UndisturbedUsersAgree'
  <2> SUFFICES ASSUME NEW v \in Ids \ disturbed', auth'[v] # None, Quiet(v)'
               PROVE  Agree(v)'
    BY DEF UndisturbedUsersAgree, Agree, Chosen, Quiet
  <2>1. CASE v = u
    BY <2>1 DEF About, Quiet
  <2>2. CASE v # u
    <3>1. auth'[v] = auth[v] /\ graph'[v] = graph[v]
      BY <2>2 DEF About
    <3>2. Quiet(v)
      BY <1>2, <2>2 DEF Quiet, Busy, About
    <3>3. Agree(v)
      BY <3>1, <3>2 DEF AInv, UndisturbedUsersAgree, Agree, Chosen, EmailsKept
    <3> QED
      BY <3>1, <3>3 DEF Agree, Chosen
  <2> QED
    BY <2>1, <2>2
<1> QED
  BY <1>1, <1>3, <1>4, <1>5, <1>6 DEF AInv

\* Reading the stores keeps the e-mails; so do the six writes.
LEMMA StepKeepsEmails ==
  ASSUME IInv, IInv', NEW p \in Procs, Step(p)
  PROVE  EmailsKept
<1> DEFINE u == req[p].user
<1> USE DEF EmailsKept
<1>1. CASE UNCHANGED <<auth, graph>> /\ disturbed \subseteq disturbed'
  BY <1>1
<1>2. CASE PgCreate(p)
  <2>1. u \in Ids /\ auth[u] = None /\ UNCHANGED <<graph, disturbed>>
    BY <1>2 DEF PgCreate, At, IInv, Knows, CreateKnows
  <2>2. \A v \in Ids \ {u} : auth'[v] = auth[v]
    BY <1>2, <2>1 DEF PgCreate, IInv, TypeOK
  <2> QED
    BY <2>1, <2>2
<1>3. CASE GraphCreate(p)
  <2>1. u \in Ids /\ UNCHANGED <<auth, disturbed>>
    BY <1>3 DEF GraphCreate, At, IInv, Knows
  <2>2. CASE UNCHANGED graph
    BY <2>1, <2>2
  <2>3. CASE /\ graph[u] = None
             /\ graph' = [graph EXCEPT ![u] = NewNode(p)]
    BY <2>1, <2>3 DEF IInv, TypeOK
  <2> QED
    BY <1>3, <2>1, <2>2, <2>3 DEF GraphCreate
<1>4. CASE PgUpdate(p)
  <2>1. u \in Ids /\ UNCHANGED <<graph, disturbed>> /\ auth[u] # None
    BY <1>4 DEF PgUpdate, Base, At, IInv, Knows
  <2>2. CASE UNCHANGED auth
    BY <2>1, <2>2
  <2>3. CASE /\ req[p].input.roles # EmptyRoles
             /\ auth' = [auth EXCEPT ![u] = Patched(auth[u], req[p].input)]
    <3>1. auth[u] \in Row /\ req[p].input \in Input
      BY <2>1 DEF IInv, TypeOK, Request
    <3>2. /\ \A v \in Ids \ {u} : auth'[v] = auth[v]
          /\ auth'[u] = Patched(auth[u], req[p].input)
      BY <2>1, <2>3 DEF IInv, TypeOK
    <3> QED
      BY <2>1, <2>3, <3>1, <3>2, PatchedIsRow
  <2> QED
    BY <1>4, <2>2, <2>3 DEF PgUpdate, Base
<1>5. CASE SyncWrite(p) \/ AlgoWrite(p)
  <2>1. /\ UpdateProfile(p) /\ req[p].pc \in {"syncWrite", "algoWrite"}
        /\ UNCHANGED <<auth, watched, liked, past, disturbed>>
    BY <1>5 DEF SyncWrite, AlgoWrite, At
  <2>2. Grow
    BY <2>1, UpdateProfileEffect
  <2> QED
    BY <2>1, <2>2 DEF Grow
<1>6. CASE WatchWrite(p)
  <2>1. /\ u \in Ids /\ UNCHANGED <<auth, disturbed>>
        /\ graph' = [graph EXCEPT ![u].watchCount = @ + 1]
    BY <1>6 DEF WatchWrite, At, IInv, Knows
  <2>2. graph[u] \in Node
    BY <1>6 DEF WatchWrite, At, IInv, Knows, WatchKnows, TypeOK
  <2>3. /\ [graph[u] EXCEPT !.watchCount = @ + 1] \in Node
        /\ [graph[u] EXCEPT !.watchCount = @ + 1].email = graph[u].email
    BY <2>2 DEF Node
  <2> QED
    BY <2>1, <2>3, NoneAssumption DEF IInv, TypeOK
<1> QED
  BY <1>1, <1>2, <1>3, <1>4, <1>5, <1>6
  DEF Step, StartCreate, StartPatch, StartWatch, Begin, PgFind, SyncById,
      SyncByEmail, Exists, Reload, Return, Fault

\* What the operators on a slot leave of the request, none of whose steps
\* changes its user or its input.
LEMMA GotoSlot ==
  ASSUME IInv, IInv', NEW p \in Procs, NEW pc, Goto(p, pc)
  PROVE  /\ Framed(p) /\ req'[p].pc = pc /\ req'[p].user = req[p].user
         /\ req'[p].input = req[p].input /\ req'[p].node = req[p].node
         /\ req'[p].copy = req[p].copy
  BY DEF IInv, TypeOK, Goto, Framed, Request

LEMMA ReplySlot ==
  ASSUME IInv, IInv', NEW p \in Procs, NEW answer, Reply(p, answer)
  PROVE  Framed(p) /\ req'[p].pc = "done" /\ req'[p].user = req[p].user
  BY DEF IInv, TypeOK, Reply, Framed, Request

LEMMA ReadSlot ==
  ASSUME IInv, IInv', NEW p \in Procs, NEW n, NEW copy, NEW pc,
         Read(p, n, copy, pc)
  PROVE  /\ Framed(p) /\ req'[p].pc = pc /\ req'[p].user = req[p].user
         /\ req'[p].input = req[p].input /\ req'[p].node = n
         /\ req'[p].copy = copy
  BY DEF IInv, TypeOK, Read, Framed, Request

\* Only the node and the row of p's user change, if anybody's.
OwnWrites(p) ==
  \A v \in Ids \ disturbed' :
    v # req[p].user => auth'[v] = auth[v] /\ graph'[v] = graph[v]

LEMMA AssembleReply ==
  ASSUME IInv, IInv', AInv, NEW p \in Procs, Busy(p), EmailsKept,
         NEW answer, Reply(p, answer), OwnWrites(p),
         (/\ req[p].user \notin disturbed' /\ Quiet(req[p].user)'
          /\ auth'[req[p].user] # None) => Agree(req[p].user)'
  PROVE  AInv'
<1> DEFINE u == req[p].user
<1>1. /\ Framed(p) /\ req'[p].pc = "done" /\ req'[p].user = u
      /\ u \in Ids
  BY ReplySlot DEF IInv, Knows, Busy
<1>2. /\ ~Busy(p)' /\ About(p, u) /\ OwnCopy(p)'
  BY <1>1 DEF Busy, About, OwnCopy, OwnWrites, At
<1> QED
  BY <1>1, <1>2, AssembleAgreement DEF Agree, Chosen, Quiet, Busy

LEMMA AssembleMove ==
  ASSUME IInv, IInv', AInv, NEW p \in Procs, Busy(p), EmailsKept, Framed(p),
         req'[p].user = req[p].user, OwnWrites(p), OwnCopy(p)', Busy(p)',
         req[p].user \notin disturbed' => Midway(p)'
  PROVE  AInv'
<1>1. req[p].user \in Ids
  BY DEF IInv, Knows, Busy
<1>2. About(p, req[p].user)
  BY DEF About, OwnWrites
<1> QED
  BY <1>1, <1>2, AssembleAgreement

\* Where p stands, when nobody disturbs it.
LEMMA StandsMidway ==
  ASSUME AInv, NEW p \in Procs, Busy(p), EmailsKept,
         req[p].user \notin disturbed'
  PROVE  Midway(p) /\ req[p].user \notin SeedRows \cup SeedNodes
  BY DEF AInv, UndisturbedMidway, SeedsApart, EmailsKept

-----------------------------------------------------------------------------
(* Steps that begin or end a request *)

\* A request that finds its user quiet finds the stores agreeing.
LEMMA BeginAgrees ==
  ASSUME IInv, IInv', AInv, NEW p \in Procs, At(p, "idle"), EmailsKept,
         NEW caller, NEW u \in Ids, NEW email, NEW input, NEW movie, NEW like,
         NEW pc \in {"pgCreate", "pgFind", "exists"},
         Begin(p, caller, u, email, input, movie, like, pc)
  PROVE  AInv'
<1>1. /\ Framed(p) /\ req'[p].pc = pc /\ req'[p].user = u
  BY DEF Begin, IInv, TypeOK, Framed
<1>2. /\ UNCHANGED <<auth, graph>> /\ ~Busy(p) /\ Busy(p)' /\ OwnCopy(p)'
      /\ Quiet(u) \/ u \in disturbed'
  BY <1>1 DEF Begin, At, Busy, OwnCopy
<1>3. About(p, u)
  BY <1>1, <1>2 DEF About
<1>4. ASSUME u \notin disturbed' PROVE Midway(p)'
  <2>1. u \notin disturbed /\ Quiet(u)
    BY <1>2, <1>4 DEF EmailsKept
  <2>2. auth[u] # None => Agree(u)
    BY <2>1 DEF AInv, UndisturbedUsersAgree, Agree, Chosen
  <2>3. auth'[u] # None => Agree(u)'
    BY <1>2, <2>2 DEF Agree, Chosen
  <2> QED
    BY <1>1, <2>3 DEF Midway, Agree, Chosen
<1> QED
  BY <1>1, <1>2, <1>3, <1>4, AssembleAgreement

LEMMA StartsAgree ==
  ASSUME IInv, IInv', AInv, NEW p \in Procs, EmailsKept,
         StartCreate(p) \/ StartPatch(p) \/ StartWatch(p)
  PROVE  AInv'
  BY BeginAgrees DEF StartCreate, StartPatch, StartWatch

LEMMA FaultAgrees ==
  ASSUME IInv, IInv', AInv, NEW p \in Procs, EmailsKept, Fault(p)
  PROVE  AInv'
<1>0. PICK u : u = req[p].user
  OBVIOUS
<1>1. /\ Reply(p, "error") /\ u \in Ids /\ UNCHANGED <<auth, graph>>
      /\ Busy(p) => u \in disturbed'
      /\ ~Busy(p) => disturbed' = disturbed
  BY <1>0 DEF Fault, At, IInv, Knows
<1>2. Framed(p) /\ req'[p].pc = "done" /\ req'[p].user = u
  BY <1>0, <1>1, ReplySlot
<1>3. ~Busy(p)' /\ About(p, u) /\ OwnCopy(p)'
  BY <1>0, <1>1, <1>2 DEF Busy, About, OwnCopy, At
<1>4. ASSUME u \notin disturbed', Quiet(u)', auth'[u] # None PROVE Agree(u)'
  <2>1. ~Busy(p) /\ u \notin disturbed
    BY <1>1, <1>4
  <2>2. Quiet(u)
    BY <1>2, <1>4, <2>1 DEF Quiet, Busy, Framed
  <2>3. Agree(u)
    BY <1>1, <1>4, <2>1, <2>2 DEF AInv, UndisturbedUsersAgree, Agree, Chosen
  <2> QED
    BY <1>1, <2>3 DEF Agree, Chosen
<1> QED
  BY <1>1, <1>2, <1>3, <1>4, AssembleAgreement

LEMMA ReturnAgrees ==
  ASSUME IInv, IInv', AInv, NEW p \in Procs, EmailsKept, Return(p)
  PROVE  AInv'
<1>0. PICK u : u = req[p].user
  OBVIOUS
<1>1. /\ Framed(p) /\ req'[p].pc = "idle" /\ u \in Ids
      /\ UNCHANGED <<auth, graph, disturbed>> /\ req[p].pc = "done"
  BY <1>0 DEF Return, Unused, IInv, TypeOK, Knows, Framed, At
<1>2. ~Busy(p) /\ ~Busy(p)' /\ About(p, u) /\ OwnCopy(p)'
  BY <1>0, <1>1 DEF Busy, About, OwnCopy, At
<1>3. ASSUME u \notin disturbed', Quiet(u)', auth'[u] # None PROVE Agree(u)'
  <2>1. Quiet(u)
    BY <1>1, <1>3 DEF Quiet, Busy, Framed
  <2>2. Agree(u)
    BY <1>1, <1>3, <2>1 DEF AInv, UndisturbedUsersAgree, Agree, Chosen
  <2> QED
    BY <1>1, <2>2 DEF Agree, Chosen
<1> QED
  BY <1>1, <1>2, <1>3, AssembleAgreement

-----------------------------------------------------------------------------
(* POST /users *)

LEMMA PgCreateAgrees ==
  ASSUME IInv, IInv', AInv, NEW p \in Procs, EmailsKept, PgCreate(p)
  PROVE  AInv'
<1> DEFINE u == req[p].user
<1>1. /\ req[p].pc = "pgCreate" /\ Busy(p) /\ u \in Ids /\ auth[u] = None
      /\ graph[u] = None /\ UNCHANGED <<graph, disturbed>>
  BY DEF PgCreate, At, Busy, IInv, Knows, CreateKnows
<1>2. CASE Reply(p, CreateError(UniqueViolation)) /\ UNCHANGED auth
  <2>1. req'[p].user = u /\ OwnWrites(p)
    BY <1>1, <1>2, ReplySlot DEF OwnWrites
  <2> QED
    BY <1>1, <1>2, <2>1, AssembleReply
<1>3. ASSUME NEW row, row.name = req[p].input.name,
             auth' = [auth EXCEPT ![u] = row], Goto(p, "graphCreate")
      PROVE  AInv'
  <2>1. /\ Framed(p) /\ req'[p].pc = "graphCreate" /\ req'[p].user = u
        /\ req'[p].input = req[p].input
    BY <1>3, GotoSlot
  <2>2. /\ auth'[u].name = req[p].input.name
        /\ \A v \in Ids \ {u} : auth'[v] = auth[v]
    BY <1>1, <1>3 DEF IInv, TypeOK
  <2>3. Midway(p)' /\ Busy(p)' /\ OwnCopy(p)' /\ OwnWrites(p)
    BY <1>1, <2>1, <2>2 DEF Midway, Busy, OwnCopy, OwnWrites, At
  <2> QED
    BY <1>1, <2>1, <2>3, AssembleMove
<1> QED
  BY <1>2, <1>3 DEF PgCreate

\* The constraints refuse no node of an undisturbed user: a node under its
\* id, or with its e-mail, would be its account's, and only the seeded
\* account has a node under another id.
LEMMA GraphCreateAgrees ==
  ASSUME IInv, IInv', AInv, NEW p \in Procs, EmailsKept, GraphCreate(p)
  PROVE  AInv'
<1> DEFINE u == req[p].user
           clash == \E n \in Ids : /\ graph[n] # None
                                   /\ n = u \/ graph[n].email = req[p].email
<1>1. /\ req[p].pc = "graphCreate" /\ Busy(p) /\ u \in Ids
      /\ HasRow(u, req[p].email) /\ UNCHANGED <<auth, disturbed>>
  BY DEF GraphCreate, At, Busy, IInv, Knows, CreateKnows
<1>2. ASSUME u \notin disturbed
      PROVE  graph[u] = None /\ auth[u].name = req[p].input.name /\ ~clash
  <2>1. /\ graph[u] = None /\ auth[u].name = req[p].input.name
        /\ u \notin SeedRows
    BY <1>1, <1>2, StandsMidway DEF Midway
  <2>2. ASSUME NEW n \in Ids, graph[n] # None, graph[n].email = req[p].email
        PROVE  FALSE
    <3>1. PICK v \in Ids : SameAccount(v, n)
      BY <2>2 DEF IInv, Related, GraphNamesWereCommitted
    <3>2. v = u
      BY <1>1, <2>2, <3>1 DEF IInv, Related, EmailUnique, SameAccount, HasRow
    <3>3. n \in SeedNodes
      BY <2>1, <2>2, <3>1, <3>2 DEF SameAccount
    <3>4. PICK seed \in SeedRows : HasRow(seed, SeedEmail)
      BY <3>3, SeedAssumption DEF AInv, SeedsApart
    <3>5. seed = u
      BY <1>1, <2>2, <3>3, <3>4, SeedAssumption
      DEF AInv, SeedsApart, IInv, Related, EmailUnique, HasRow
    <3> QED
      BY <2>1, <3>5
  <2> QED
    BY <2>1, <2>2
<1>3. CASE clash
  <2>1. Reply(p, "error") /\ UNCHANGED graph /\ u \in disturbed
    BY <1>2, <1>3 DEF GraphCreate
  <2>2. req'[p].user = u /\ OwnWrites(p)
    BY <1>1, <2>1, ReplySlot DEF OwnWrites
  <2> QED
    BY <1>1, <2>1, <2>2, AssembleReply
<1>4. CASE ~clash
  <2>1. graph' = [graph EXCEPT ![u] = NewNode(p)] /\ Reply(p, "created")
    BY <1>4 DEF GraphCreate
  <2>2. /\ req'[p].user = u /\ graph'[u] = NewNode(p)
        /\ \A v \in Ids \ {u} : graph'[v] = graph[v]
    BY <1>1, <2>1, ReplySlot DEF IInv, TypeOK
  <2>3. OwnWrites(p)
    BY <1>1, <2>2 DEF OwnWrites
  <2>4. ASSUME u \notin disturbed PROVE Agree(u)'
    <3>1. /\ NewNode(p).email = auth[u].email /\ NewNode(p).algo = "POPULAR"
          /\ NewNode(p).name = auth[u].name /\ NewNode(p).watchCount = 0
      BY <1>1, <1>2, <2>4 DEF NewNode, HasRow
    <3>2. NewNode(p) # None
      <4>1. NewNode(p) \in Node
        BY <1>1 DEF NewNode, Node, Algos, IInv, Knows, CreateKnows
      <4> QED
        BY <4>1, NoneAssumption
    <3> QED
      BY <1>1, <2>2, <3>1, <3>2 DEF Agree, Chosen
  <2> QED
    BY <1>1, <2>1, <2>2, <2>3, <2>4, AssembleReply
<1> QED
  BY <1>3, <1>4

-----------------------------------------------------------------------------
(* PATCH /users/{id} *)

LEMMA PgFindAgrees ==
  ASSUME IInv, IInv', AInv, NEW p \in Procs, EmailsKept, PgFind(p)
  PROVE  AInv'
<1> DEFINE u == req[p].user
<1>1. /\ req[p].pc = "pgFind" /\ Busy(p)
      /\ UNCHANGED <<auth, graph, disturbed>> /\ OwnWrites(p)
  BY DEF PgFind, At, Busy, OwnWrites
<1>2. u \notin disturbed => (auth[u] # None => Agree(u))
  BY <1>1, StandsMidway DEF Midway
<1>3. ASSUME NEW answer, Reply(p, answer) PROVE AInv'
  <2>1. req'[p].user = u
    BY <1>3, ReplySlot
  <2> QED
    BY <1>1, <1>2, <1>3, <2>1, AssembleReply DEF Agree, Chosen
<1>4. ASSUME NEW row,
             req' = [req EXCEPT ![p] = [@ EXCEPT !.pc = "pgUpdate", !.loaded = row]]
      PROVE  AInv'
  <2>1. Framed(p) /\ req'[p].pc = "pgUpdate" /\ req'[p].user = u
    BY <1>4 DEF IInv, TypeOK, Request, Framed
  <2>2. Busy(p)' /\ OwnCopy(p)'
    BY <2>1 DEF Busy, OwnCopy, At
  <2>3. u \notin disturbed' => Midway(p)'
    BY <1>1, <1>2, <2>1 DEF Midway, Agree, Chosen
  <2> QED
    BY <1>1, <2>1, <2>2, <2>3, AssembleMove
<1> QED
  BY <1>3, <1>4 DEF PgFind

LEMMA PgUpdateAgrees ==
  ASSUME IInv, IInv', AInv, NEW p \in Procs, EmailsKept, PgUpdate(p)
  PROVE  AInv'
<1> DEFINE u == req[p].user
           name == req[p].input.name
<1>1. /\ req[p].pc = "pgUpdate" /\ Busy(p) /\ u \in Ids /\ auth[u] # None
      /\ UNCHANGED <<graph, disturbed>>
  BY DEF PgUpdate, Base, At, Busy, IInv, Knows
<1> SUFFICES ASSUME req[p].input.roles # EmptyRoles PROVE AInv'
  <2> SUFFICES ASSUME req[p].input.roles = EmptyRoles PROVE AInv'
    OBVIOUS
  <2>1. Reply(p, "error") /\ UNCHANGED auth /\ OwnWrites(p)
    BY <1>1 DEF PgUpdate, OwnWrites
  <2>2. u \notin disturbed => Agree(u)
    BY <1>1, StandsMidway DEF Midway
  <2>3. req'[p].user = u
    BY <2>1, ReplySlot
  <2> QED
    BY <1>1, <2>1, <2>2, <2>3, AssembleReply DEF Agree, Chosen
<1>2. /\ auth'[u].name = Sent(name, auth[u].name)
      /\ auth'[u].email = auth[u].email
      /\ \A v \in Ids \ {u} : auth'[v] = auth[v]
  <2>1. auth' = [auth EXCEPT ![u] = Patched(auth[u], req[p].input)]
    BY DEF PgUpdate, Base
  <2>2. /\ auth'[u] = Patched(auth[u], req[p].input)
        /\ \A v \in Ids \ {u} : auth'[v] = auth[v]
    BY <1>1, <2>1 DEF IInv, TypeOK
  <2> QED
    BY <2>2 DEF Patched
<1>3. OwnWrites(p) /\ (u \notin disturbed => Agree(u))
  BY <1>1, <1>2, StandsMidway DEF OwnWrites, Midway
<1>4. CASE name = None
  <2>1. Reply(p, "patched") /\ req'[p].user = u
    BY <1>4, ReplySlot DEF PgUpdate
  <2>2. u \notin disturbed => Agree(u)'
    BY <1>1, <1>2, <1>3, <1>4, <2>1 DEF Agree, Chosen, Sent
  <2> QED
    BY <1>1, <1>3, <2>1, <2>2, AssembleReply
<1>5. CASE name # None
  <2>1. /\ Framed(p) /\ req'[p].pc = "syncById" /\ req'[p].user = u
        /\ req'[p].input = req[p].input
    BY <1>5, GotoSlot DEF PgUpdate
  <2>2. Busy(p)' /\ OwnCopy(p)'
    BY <2>1 DEF Busy, OwnCopy, At
  <2>3. u \notin disturbed' => Midway(p)'
    BY <1>1, <1>2, <1>3, <1>5, <2>1 DEF Midway, Agree, Chosen, Sent
  <2> QED
    BY <1>1, <1>3, <2>1, <2>2, <2>3, AssembleMove
<1> QED
  BY <1>4, <1>5

\* The copy made of an undisturbed user differs from its node in the name.
LEMMA SyncByIdAgrees ==
  ASSUME IInv, IInv', AInv, NEW p \in Procs, EmailsKept, SyncById(p)
  PROVE  AInv'
<1> DEFINE u == req[p].user
<1>1. /\ req[p].pc = "syncById" /\ Busy(p)
      /\ UNCHANGED <<auth, graph, disturbed>> /\ OwnWrites(p)
  BY DEF SyncById, At, Busy, OwnWrites
<1>2. u \notin disturbed =>
        graph[u] # None /\ Chosen(u) /\ auth[u].name = req[p].input.name
  BY <1>1, StandsMidway DEF Midway
<1>3. CASE graph[u] = None
  <2>1. /\ Framed(p) /\ req'[p].pc = "syncByEmail" /\ req'[p].user = u
        /\ u \in disturbed
    BY <1>2, <1>3, GotoSlot DEF SyncById
  <2>2. Busy(p)' /\ OwnCopy(p)'
    BY <2>1 DEF Busy, OwnCopy, At
  <2> QED
    BY <1>1, <2>1, <2>2, AssembleMove
<1>4. CASE graph[u] # None
  <2>1. Read(p, u, Renamed(p, u), "syncWrite")
    BY <1>4 DEF SyncById
  <2>2. /\ Framed(p) /\ req'[p].pc = "syncWrite" /\ req'[p].user = u
        /\ req'[p].input = req[p].input /\ req'[p].node = u
        /\ req'[p].copy = [graph[u] EXCEPT !.name = req[p].input.name]
    BY <2>1, ReadSlot DEF Renamed
  <2>3. Busy(p)' /\ OwnCopy(p)'
    BY <2>2 DEF Busy, OwnCopy, At
  <2>4. u \notin disturbed' => Midway(p)'
    BY <1>1, <1>2, <2>2 DEF Midway, Chosen
  <2> QED
    BY <1>1, <2>2, <2>3, <2>4, AssembleMove
<1> QED
  BY <1>3, <1>4

\* Only a disturbed user is looked up by its e-mail.
LEMMA SyncByEmailAgrees ==
  ASSUME IInv, IInv', AInv, NEW p \in Procs, EmailsKept, SyncByEmail(p)
  PROVE  AInv'
<1> DEFINE u == req[p].user
<1>1. /\ req[p].pc = "syncByEmail" /\ Busy(p)
      /\ UNCHANGED <<auth, graph, disturbed>> /\ OwnWrites(p)
  BY DEF SyncByEmail, At, Busy, OwnWrites
<1>2. u \in disturbed
  BY <1>1, StandsMidway DEF Midway
<1>3. CASE Reply(p, "error")
  <2>1. req'[p].user = u
    BY <1>3, ReplySlot
  <2> QED
    BY <1>1, <1>2, <1>3, <2>1, AssembleReply
<1>4. ASSUME NEW n \in Ids, Read(p, n, Renamed(p, n), "syncWrite")
      PROVE  AInv'
  <2>1. Framed(p) /\ req'[p].pc = "syncWrite" /\ req'[p].user = u
    BY <1>4, ReadSlot
  <2>2. Busy(p)' /\ OwnCopy(p)'
    BY <2>1 DEF Busy, OwnCopy, At
  <2> QED
    BY <1>1, <1>2, <2>1, <2>2, AssembleMove
<1> QED
  BY <1>3, <1>4 DEF SyncByEmail

\* The node written is the user's own, or the seeded one.
LEMMA SyncWriteAgrees ==
  ASSUME IInv, IInv', AInv, NEW p \in Procs, EmailsKept, SyncWrite(p)
  PROVE  AInv'
<1> DEFINE u == req[p].user
           n == req[p].node
<1>1. /\ req[p].pc = "syncWrite" /\ Busy(p) /\ u \in Ids /\ n \in Ids
      /\ n = u \/ n \in SeedNodes
      /\ UNCHANGED <<auth, disturbed>> /\ UpdateProfile(p)
      /\ Reply(p, "patched")
  BY DEF SyncWrite, At, Busy, IInv, Knows, PatchKnows, CopyKnows, GoodCopy,
         SameAccount
<1>2. /\ \A m \in Ids \ {n} : graph'[m] = graph[m]
      /\ graph'[n].name = req[p].copy.name /\ graph'[n].algo = req[p].copy.algo
      /\ graph'[n].watchCount = graph[n].watchCount
  BY <1>1 DEF UpdateProfile, IInv, TypeOK
<1>3. OwnWrites(p) /\ req'[p].user = u
  BY <1>1, <1>2, ReplySlot DEF OwnWrites, AInv, SeedsApart
<1>4. ASSUME u \notin disturbed PROVE Agree(u)'
  <2>1. /\ graph[u] # None /\ Chosen(u) /\ auth[u].name = req[p].input.name
        /\ n = u /\ req[p].copy = [graph[u] EXCEPT !.name = req[p].input.name]
    BY <1>1, <1>4, StandsMidway DEF Midway
  <2>2. graph[u] \in Node /\ auth[u] # None
    BY <1>1, <2>1 DEF IInv, TypeOK, Knows, PatchKnows, SameAccount
  <2>3. req[p].copy.name = auth[u].name /\ req[p].copy.algo = graph[u].algo
    BY <2>1, <2>2 DEF Node
  <2>4. graph'[u] # None /\ auth'[u] # None
    BY <1>1, <2>1, <2>2 DEF EmailsKept
  <2>5. graph'[u].email = auth'[u].email
    BY <1>1, <2>4 DEF IInv, Related, OwnNode
  <2>6. graph'[u].name = auth'[u].name /\ Chosen(u)'
    BY <1>1, <1>2, <1>3, <2>1, <2>3 DEF Chosen
  <2> QED
    BY <1>3, <2>4, <2>5, <2>6 DEF Agree, Chosen
<1> QED
  BY <1>1, <1>3, <1>4, AssembleReply

-----------------------------------------------------------------------------
(* POST /movies/{id}/watched *)

LEMMA ExistsAgrees ==
  ASSUME IInv, IInv', AInv, NEW p \in Procs, EmailsKept, Exists(p)
  PROVE  AInv'
<1> DEFINE u == req[p].user
<1>1. /\ req[p].pc = "exists" /\ Busy(p)
      /\ UNCHANGED <<auth, graph, disturbed>> /\ OwnWrites(p)
  BY DEF Exists, At, Busy, OwnWrites
<1>2. u \notin disturbed => (auth[u] # None => Agree(u))
  BY <1>1, StandsMidway DEF Midway
<1>3. CASE Reply(p, "notFound")
  <2>1. req'[p].user = u
    BY <1>3, ReplySlot
  <2> QED
    BY <1>1, <1>2, <1>3, <2>1, AssembleReply DEF Agree, Chosen
<1>4. CASE Goto(p, "watchWrite")
  <2>1. Framed(p) /\ req'[p].pc = "watchWrite" /\ req'[p].user = u
    BY <1>4, GotoSlot
  <2>2. Busy(p)' /\ OwnCopy(p)'
    BY <2>1 DEF Busy, OwnCopy, At
  <2>3. u \notin disturbed' => Midway(p)'
    BY <1>1, <1>2, <2>1 DEF Midway, Agree, Chosen
  <2> QED
    BY <1>1, <2>1, <2>2, <2>3, AssembleMove
<1> QED
  BY <1>3, <1>4 DEF Exists

\* The node belongs to the user's row, since it is not the seeded one.
LEMMA WatchWriteAgrees ==
  ASSUME IInv, IInv', AInv, NEW p \in Procs, EmailsKept, WatchWrite(p)
  PROVE  AInv'
<1> DEFINE u == req[p].user
<1>1. /\ req[p].pc = "watchWrite" /\ Busy(p) /\ u \in Ids
      /\ graph[u] # None /\ graph[u] \in Node
      /\ graph' = [graph EXCEPT ![u].watchCount = @ + 1]
      /\ UNCHANGED <<auth, disturbed>> /\ Goto(p, "reload")
  BY DEF WatchWrite, At, Busy, IInv, Knows, WatchKnows, TypeOK
<1>2. /\ \A v \in Ids \ {u} : graph'[v] = graph[v]
      /\ graph'[u].name = graph[u].name /\ graph'[u].watchCount > 0
      /\ graph'[u] # None
  BY <1>1 DEF IInv, TypeOK, Node, EmailsKept
<1>3. /\ Framed(p) /\ req'[p].pc = "reload" /\ req'[p].user = u
  BY <1>1, GotoSlot
<1>4. Busy(p)' /\ OwnCopy(p)' /\ OwnWrites(p)
  BY <1>1, <1>2, <1>3 DEF Busy, OwnCopy, OwnWrites, At
<1>5. ASSUME u \notin disturbed' PROVE Midway(p)'
  <2>1. u \notin SeedNodes /\ (auth[u] # None => Agree(u))
    BY <1>1, <1>5, StandsMidway DEF Midway
  <2>2. PICK v \in Ids : SameAccount(v, u)
    BY <1>1 DEF IInv, Related, GraphNamesWereCommitted
  <2>3. auth[u] # None /\ graph[u].name = auth[u].name
    BY <2>1, <2>2 DEF SameAccount, Agree
  <2> QED
    BY <1>1, <1>2, <1>3, <2>3 DEF Midway
<1> QED
  BY <1>1, <1>3, <1>4, <1>5, AssembleMove

\* If the choice is unchanged it is already the node's.
LEMMA ReloadAgrees ==
  ASSUME IInv, IInv', AInv, NEW p \in Procs, EmailsKept, Reload(p)
  PROVE  AInv'
<1> DEFINE u == req[p].user
<1>1. /\ req[p].pc = "reload" /\ Busy(p) /\ u \in Ids
      /\ UNCHANGED <<auth, graph, disturbed>> /\ OwnWrites(p)
  BY DEF Reload, At, Busy, OwnWrites, IInv, Knows
<1>2. u \notin disturbed =>
        /\ auth[u] # None /\ graph[u] # None
        /\ graph[u].name = auth[u].name /\ graph[u].watchCount > 0
  BY <1>1, StandsMidway DEF Midway
<1>3. CASE NewAlgo(u) = graph[u].algo /\ Reply(p, "watched")
  <2>1. req'[p].user = u
    BY <1>3, ReplySlot
  <2>2. ASSUME u \notin disturbed PROVE Agree(u)'
    <3>1. graph[u].email = auth[u].email
      BY <1>1, <1>2, <2>2 DEF IInv, Related, OwnNode
    <3>2. Chosen(u)
      BY <1>2, <1>3, <2>2 DEF Chosen, NewAlgo
    <3> QED
      BY <1>1, <1>2, <2>1, <2>2, <3>1, <3>2 DEF Agree, Chosen
  <2> QED
    BY <1>1, <1>3, <2>1, <2>2, AssembleReply
<1>4. CASE Read(p, u, [graph[u] EXCEPT !.algo = NewAlgo(u)], "algoWrite")
  <2>1. /\ Framed(p) /\ req'[p].pc = "algoWrite" /\ req'[p].user = u
        /\ req'[p].node = u
        /\ req'[p].copy =
             [graph[u] EXCEPT !.algo = Select(graph[u].watchCount)]
    BY <1>4, ReadSlot DEF NewAlgo
  <2>2. Busy(p)' /\ OwnCopy(p)'
    BY <2>1 DEF Busy, OwnCopy, At
  <2>3. u \notin disturbed' => Midway(p)'
    BY <1>1, <1>2, <2>1 DEF Midway
  <2> QED
    BY <1>1, <2>1, <2>2, <2>3, AssembleMove
<1> QED
  BY <1>3, <1>4 DEF Reload

LEMMA AlgoWriteAgrees ==
  ASSUME IInv, IInv', AInv, NEW p \in Procs, EmailsKept, AlgoWrite(p)
  PROVE  AInv'
<1> DEFINE u == req[p].user
<1>1. /\ req[p].pc = "algoWrite" /\ Busy(p) /\ u \in Ids /\ req[p].node = u
      /\ UNCHANGED <<auth, disturbed>> /\ UpdateProfile(p)
      /\ Reply(p, "watched")
  BY DEF AlgoWrite, At, Busy, IInv, Knows, AInv, OwnCopy
<1>2. /\ \A m \in Ids \ {u} : graph'[m] = graph[m]
      /\ graph'[u].name = req[p].copy.name /\ graph'[u].algo = req[p].copy.algo
      /\ graph'[u].watchCount = graph[u].watchCount
  BY <1>1 DEF UpdateProfile, IInv, TypeOK
<1>3. OwnWrites(p) /\ req'[p].user = u
  BY <1>1, <1>2, ReplySlot DEF OwnWrites
<1>4. ASSUME u \notin disturbed PROVE Agree(u)'
  <2>1. /\ auth[u] # None /\ graph[u] # None
        /\ graph[u].name = auth[u].name /\ graph[u].watchCount > 0
        /\ req[p].copy = [graph[u] EXCEPT !.algo = Select(graph[u].watchCount)]
    BY <1>1, <1>4, StandsMidway DEF Midway
  <2>2. graph[u] \in Node
    BY <1>1, <2>1 DEF IInv, TypeOK
  <2>3. /\ req[p].copy.name = auth[u].name
        /\ req[p].copy.algo = Select(graph[u].watchCount)
    BY <2>1, <2>2 DEF Node
  <2>4. graph'[u] # None /\ auth'[u] # None
    BY <1>1, <2>1 DEF EmailsKept
  <2>5. graph'[u].email = auth'[u].email
    BY <1>1, <2>4 DEF IInv, Related, OwnNode
  <2>6. graph'[u].name = auth'[u].name /\ Chosen(u)'
    BY <1>1, <1>2, <1>3, <2>1, <2>2, <2>3 DEF Chosen, Node
  <2> QED
    BY <1>3, <2>4, <2>5, <2>6 DEF Agree, Chosen
<1> QED
  BY <1>1, <1>3, <1>4, AssembleReply

-----------------------------------------------------------------------------
(* The theorem *)

LEMMA InitAgrees == Init => AInv
<1> SUFFICES ASSUME Init PROVE AInv
  OBVIOUS
<1>1. \A p \in Procs : ~Busy(p) /\ ~At(p, "algoWrite")
  BY DEF Init, Unused, Busy, At
<1>2. disturbed = SeedRows \cup SeedNodes
  BY DEF Init
<1>3. SeedsApart
  <2>1. PICK n \in Names, s \in Secrets, r \in Roles :
          /\ auth = [u \in Ids |-> IF u \in SeedRows
               THEN [email |-> SeedEmail, name |-> n, pw |-> s, roles |-> r]
               ELSE None]
          /\ graph = [u \in Ids |-> IF u \in SeedNodes
               THEN [email |-> SeedEmail, name |-> n, algo |-> "",
                     watchCount |-> 0]
               ELSE None]
          /\ past = [u \in Ids |-> IF u \in SeedRows THEN {n} ELSE {}]
    BY Zenon DEF Init
  <2>2. [email |-> SeedEmail, name |-> n, pw |-> s, roles |-> r] \in Row
    BY SeedAssumption DEF Row
  <2>3. [email |-> SeedEmail, name |-> n, algo |-> "", watchCount |-> 0] \in Node
    BY SeedAssumption DEF Node, Algos
  <2>4. \A u \in SeedRows : HasRow(u, SeedEmail)
    BY <2>1, <2>2, NoneAssumption, SeedAssumption DEF HasRow
  <2>5. \A m \in SeedNodes : graph[m] # None /\ graph[m].email = SeedEmail
    BY <2>1, <2>3, NoneAssumption, SeedAssumption
  <2> QED
    BY <1>2, <2>4, <2>5 DEF SeedsApart
<1>4. UndisturbedUsersAgree
  BY <1>2 DEF UndisturbedUsersAgree, Init
<1> QED
  BY <1>1, <1>3, <1>4 DEF AInv, Alone, OwnCopy, UndisturbedMidway

LEMMA NextAgrees == IInv /\ IInv' /\ AInv /\ [Next]_vars => AInv'
<1> SUFFICES ASSUME IInv, IInv', AInv, [Next]_vars PROVE AInv'
  OBVIOUS
<1>1. ASSUME NEW p \in Procs, Step(p) PROVE AInv'
  <2>1. EmailsKept
    BY <1>1, StepKeepsEmails
  <2> QED
    BY <1>1, <2>1, StartsAgree, PgCreateAgrees, GraphCreateAgrees, PgFindAgrees,
       PgUpdateAgrees, SyncByIdAgrees, SyncByEmailAgrees, SyncWriteAgrees,
       ExistsAgrees, WatchWriteAgrees, ReloadAgrees, AlgoWriteAgrees,
       ReturnAgrees, FaultAgrees
    DEF Step
<1>2. CASE UNCHANGED vars
  BY <1>2
  DEF vars, AInv, SeedsApart, Alone, OwnCopy, UndisturbedMidway, Midway,
      UndisturbedUsersAgree, Agree, Chosen, HasRow, Busy, Quiet, At
<1> QED
  BY <1>1, <1>2 DEF Next

\* A user whose requests neither overlapped nor were interrupted is the same
\* in both stores once no request is about it, and its currentAlgorithm is the
\* one its watch count selects: the dual writes of the three handlers, each
\* run to its end, leave nothing to repair.
THEOREM UndisturbedAgree == Spec => []UndisturbedUsersAgree
<1>1. AInv => UndisturbedUsersAgree
  BY DEF AInv
<1> QED
  BY <1>1, InitAgrees, NextAgrees, Inductive, PTL DEF Spec
=============================================================================
