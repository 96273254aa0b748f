----------------------------- MODULE UserStores -----------------------------
(***************************************************************************)
(* A user account lives in two stores that no transaction spans: a row of  *)
(* the Postgres table users (credentials, roles) and a User node of the    *)
(* Neo4j graph (profile, watch history).  Three HTTP requests write them:  *)
(*                                                                         *)
(*   POST /users                  insert the row, then create the node     *)
(*   PATCH /users/{id}            update the row, then copy a new name to  *)
(*                                the node by read-modify-write            *)
(*   POST /movies/{id}/watched    add an edge and count it, then recompute *)
(*                                currentAlgorithm by read-modify-write    *)
(*                                                                         *)
(* A process is one request being served by one of the API's replicas.  An *)
(* action is one call to a store, so requests interleave between calls and *)
(* may end between them (Fault).                                           *)
(***************************************************************************)
EXTENDS Integers, FiniteSets

CONSTANTS
  Procs,        \* request slots: how many requests are served at once
  Ids,          \* user ids (uuid.New, or gen_random_uuid in the seed scripts)
  Emails,
  Names,        \* non-blank names, trimmed
  Secrets,      \* password hashes
  Roles,        \* the non-empty role lists
  PatchRoles,   \* those whose every role is in allowedPatchRoles
  EmptyRoles,   \* the empty role list, which a PATCH may send
  Movies,       \* movies in the graph; nothing deletes a movie
  None,         \* no row, no node, or a column the request does not send
  ContentMin,   \* RECOMMENDATION_CONTENT_BASED_MIN_WATCHES
  CollabMin,    \* RECOMMENDATION_COLLABORATIVE_MIN_WATCHES
  SeedRows,     \* ids the seed script gives rows (local/postgresql/init.sql)
  SeedNodes,    \* ids the seed script gives nodes (local/neo4j/init.cypher)
  SeedEmail,    \* the e-mail both scripts seed
  Faults,       \* whether a request may end between two calls
  MaxWatch      \* bound on the watch requests one user makes

Row == [email : Emails, name : Names, pw : Secrets, roles : Roles]

\* currentAlgorithm; a seeded node has neither this property nor a watchCount,
\* which recordToUser reads as the empty string and zero.
Algos == {"", "POPULAR", "CONTENT_BASED", "COLLABORATIVE"}
Node == [email : Emails, name : Names, algo : Algos, watchCount : Nat]

\* The columns a PATCH may send, or the values a POST gives to its row.
Input == [name  : Names \cup {None},
          pw    : Secrets \cup {None},
          roles : Roles \cup {EmptyRoles, None}]

ASSUME NoneAssumption ==
  None \notin Row \cup Node \cup Names \cup Secrets \cup Roles \cup {EmptyRoles}
ASSUME ThresholdAssumption ==
  ContentMin \in Nat /\ CollabMin \in Nat /\ MaxWatch \in Nat
ASSUME SeedAssumption ==
  /\ SeedRows \subseteq Ids /\ SeedNodes \subseteq Ids \ SeedRows
  /\ SeedEmail \in Emails
  /\ \A u, v \in SeedRows : u = v
  /\ \A n, m \in SeedNodes : n = m
  /\ SeedNodes # {} => SeedRows # {}
ASSUME RoleAssumption ==
  PatchRoles \subseteq Roles /\ EmptyRoles \notin Roles /\ Faults \in BOOLEAN

VARIABLES
  auth,       \* Postgres: id -> row or None
  graph,      \* Neo4j: id -> node or None
  watched,    \* Neo4j: WATCHED edges, <<user, movie>>
  liked,      \* Neo4j: LIKED edges, <<user, movie>>
  req,        \* the request each process serves
  past,       \* history: the names each row has held
  disturbed   \* history: users with overlapping or interrupted requests

vars == <<auth, graph, watched, liked, req, past, disturbed>>

-----------------------------------------------------------------------------
\* AlgorithmSelector.Select
Select(watchCount) ==
  CASE watchCount < ContentMin -> "POPULAR"
    [] watchCount >= ContentMin /\ watchCount < CollabMin -> "CONTENT_BASED"
    [] watchCount >= ContentMin /\ watchCount >= CollabMin -> "COLLABORATIVE"

NoInput == [name |-> None, pw |-> None, roles |-> None]

Pcs == {"idle", "pgCreate", "graphCreate", "pgFind", "pgUpdate", "syncById",
        "syncByEmail", "syncWrite", "exists", "watchWrite", "reload",
        "algoWrite", "done"}
Answers == {"", "created", "patched", "watched", "conflict", "notFound",
            "badRequest", "error"}

\* user: the user the request is about; loaded: the row PATCH read;
\* node, copy: id and contents of the graph user last read.
Request == [pc : Pcs, answer : Answers,
            caller : Ids \cup {None}, user : Ids \cup {None},
            email : Emails \cup {None}, input : Input,
            movie : Movies \cup {None}, like : BOOLEAN,
            loaded : Row \cup {None},
            node : Ids \cup {None}, copy : Node \cup {None}]

At(p, pc) == req[p].pc = pc
Busy(p) == req[p].pc \notin {"idle", "done"}
Quiet(u) == \A p \in Procs : Busy(p) => req[p].user # u

Goto(p, pc) == req' = [req EXCEPT ![p].pc = pc]
Reply(p, answer) ==
  req' = [req EXCEPT ![p] = [@ EXCEPT !.pc = "done", !.answer = answer]]

\* A request enters its slot.  If another one about the same user is under
\* way, neither runs undisturbed.
Begin(p, caller, user, email, input, movie, like, pc) ==
  /\ req' = [req EXCEPT ![p] =
       [pc |-> pc, answer |-> "", caller |-> caller, user |-> user,
        email |-> email, input |-> input, movie |-> movie, like |-> like,
        loaded |-> None, node |-> None, copy |-> None]]
  /\ disturbed' = IF Quiet(user) THEN disturbed ELSE disturbed \cup {user}
  /\ UNCHANGED <<auth, graph, watched, liked, past>>

\* A slot that serves nothing.
Unused == [pc |-> "idle", answer |-> "", caller |-> None, user |-> None,
           email |-> None, input |-> NoInput, movie |-> None, like |-> FALSE,
           loaded |-> None, node |-> None, copy |-> None]

\* The handler returns and its slot is free again.
Return(p) ==
  /\ At(p, "done")
  /\ req' = [req EXCEPT ![p] = Unused]
  /\ UNCHANGED <<auth, graph, watched, liked, past, disturbed>>

\* A call fails, the request's context is cancelled or the replica dies: the
\* request ends where it stands, and what it has written stays.  A call whose
\* write took effect and whose answer was lost is that call's action and then
\* this one; after the last call nothing is left undone.
Fault(p) ==
  /\ Faults /\ ~At(p, "idle") /\ req[p].answer # "error"
  /\ Reply(p, "error")
  /\ disturbed' = IF Busy(p) THEN disturbed \cup {req[p].user} ELSE disturbed
  /\ UNCHANGED <<auth, graph, watched, liked, past>>

-----------------------------------------------------------------------------
(* POST /users *)

\* uuid.New never returns an id that is in use or was handed out.
FreshId(u) ==
  /\ auth[u] = None /\ graph[u] = None
  /\ \A p \in Procs : req[p].pc # "idle" => req[p].user # u

\* A body that lacks a field or any role is answered 400 and changes nothing,
\* so only complete requests begin; every other role list is accepted.
StartCreate(p) ==
  /\ At(p, "idle")
  /\ \E u \in Ids, e \in Emails, n \in Names, s \in Secrets, r \in Roles :
       /\ FreshId(u)
       /\ Begin(p, u, u, e, [name |-> n, pw |-> s, roles |-> r], None, FALSE,
                "pgCreate")

EmailTaken(e) == \E u \in Ids : auth[u] # None /\ auth[u].email = e

\* What the driver behind gorm.io/driver/postgres (pgx) returns for a
\* duplicate key (external).
UniqueViolation == [type |-> "pgconn.PgError", code |-> "23505"]

\* Create maps a *pq.Error with code 23505 to ErrEmailAlreadyExists (409) and
\* every other error to 500.
CreateError(err) ==
  IF err.type = "pq.Error" /\ err.code = "23505" THEN "conflict" ELSE "error"

\* Mutant of PgCreate: the node is written before the row.
NodeFirst(p) ==
  /\ At(p, "pgCreate") /\ Goto(p, "graphCreate")
  /\ UNCHANGED <<auth, graph, watched, liked, past, disturbed>>

PgCreate(p) ==
  /\ At(p, "pgCreate")
  /\ LET u == req[p].user
         row == [email |-> req[p].email, name |-> req[p].input.name,
                 pw |-> req[p].input.pw, roles |-> req[p].input.roles]
     IN \/ /\ EmailTaken(req[p].email)
           /\ Reply(p, CreateError(UniqueViolation))
           /\ UNCHANGED <<auth, past>>
        \/ /\ ~EmailTaken(req[p].email)
           /\ auth' = [auth EXCEPT ![u] = row]
           /\ past' = [past EXCEPT ![u] = @ \cup {row.name}]
           /\ Goto(p, "graphCreate")
  /\ UNCHANGED <<graph, watched, liked, disturbed>>

\* Mutant of NewNode: a user with no algorithm gets no default.
NewNodeBare(p) == [email |-> req[p].email, name |-> req[p].input.name,
                   algo |-> "", watchCount |-> 0]

NewNode(p) == [email |-> req[p].email, name |-> req[p].input.name,
               algo |-> "POPULAR", watchCount |-> 0]

\* manageUserUC.Create; the constraints user_id and user_email refuse a
\* second node.  A failure leaves the row: nothing compensates.
GraphCreate(p) ==
  /\ At(p, "graphCreate")
  /\ LET u == req[p].user
         clash == \E n \in Ids : /\ graph[n] # None
                                 /\ n = u \/ graph[n].email = req[p].email
     IN IF clash
        THEN Reply(p, "error") /\ UNCHANGED graph
        ELSE /\ graph' = [graph EXCEPT ![u] = NewNode(p)]
             /\ Reply(p, "created")
  /\ UNCHANGED <<auth, watched, liked, past, disturbed>>

-----------------------------------------------------------------------------
(* PATCH /users/{id} *)

\* The caller is authenticated, so its id is a row's.  A payload without a
\* column is refused (400), and so is a name or a password sent by anyone but
\* the owner (403); neither changes anything.
StartPatch(p) ==
  /\ At(p, "idle")
  /\ \E caller, u \in Ids, input \in Input :
       /\ auth[caller] # None
       /\ input # NoInput
       /\ caller # u => input.name = None /\ input.pw = None
       /\ Begin(p, caller, u, None, input, None, FALSE, "pgFind")

\* isAllowedRoles, for the roles a payload has; the empty list passes.
RolesAllowed(roles) == roles \in PatchRoles \cup {EmptyRoles, None}

\* FindByID, then the checks on the values sent.
PgFind(p) ==
  /\ At(p, "pgFind")
  /\ LET row == auth[req[p].user]
     IN IF row = None THEN Reply(p, "notFound")
        ELSE IF ~RolesAllowed(req[p].input.roles)
        THEN Reply(p, "badRequest")
        ELSE req' = [req EXCEPT ![p] =
                       [@ EXCEPT !.pc = "pgUpdate", !.loaded = row]]
  /\ UNCHANGED <<auth, graph, watched, liked, past, disturbed>>

\* Mutant of Sent: the columns are left out of the update.
SentIgnored(new, old) == old

Sent(new, old) == IF new = None THEN old ELSE new

\* Mutant of Base: the update saves the whole row that was loaded.
Loaded(p) == req[p].loaded

\* The row the sent columns are written over.
Base(p) == auth[req[p].user]

\* The new row: the columns that were sent, over the others.
Patched(row, input) ==
  [email |-> row.email, name |-> Sent(input.name, row.name),
   pw |-> Sent(input.pw, row.pw), roles |-> Sent(input.roles, row.roles)]

\* Update writes the columns that were sent and no other.  Nothing deletes a
\* row, so the case of no row affected does not arise after PgFind.  The copy
\* made of an empty role list is nil, which the driver sends as NULL, and the
\* column is NOT NULL: the whole update fails, and the answer is 500.
PgUpdate(p) ==
  /\ At(p, "pgUpdate")
  /\ LET u == req[p].user
         input == req[p].input
         row == Base(p)
     IN /\ row # None
        /\ \/ /\ input.roles = EmptyRoles
              /\ Reply(p, "error")
              /\ UNCHANGED <<auth, past>>
           \/ /\ input.roles # EmptyRoles
              /\ auth' = [auth EXCEPT ![u] = Patched(row, input)]
              /\ past' = [past EXCEPT ![u] = @ \cup {Sent(input.name, row.name)}]
              /\ IF input.name = None
                 THEN Reply(p, "patched")
                 ELSE Goto(p, "syncById")
  /\ UNCHANGED <<graph, watched, liked, disturbed>>

\* The request now holds a copy of node n.
Read(p, n, copy, pc) ==
  req' = [req EXCEPT ![p] =
            [@ EXCEPT !.pc = pc, !.node = n, !.copy = copy]]

\* Mutant of Renamed: the new name is not set.
NotRenamed(p, n) == graph[n]

Renamed(p, n) == [graph[n] EXCEPT !.name = req[p].input.name]

\* Mutant of SyncById: a user missing from the graph is no error.
SyncMissing(p) ==
  /\ At(p, "syncById")
  /\ LET u == req[p].user
     IN IF graph[u] = None
        THEN Reply(p, "patched")
        ELSE Read(p, u, Renamed(p, u), "syncWrite")
  /\ UNCHANGED <<auth, graph, watched, liked, past, disturbed>>

SyncById(p) ==
  /\ At(p, "syncById")
  /\ LET u == req[p].user
     IN IF graph[u] = None
        THEN Goto(p, "syncByEmail")
        ELSE Read(p, u, Renamed(p, u), "syncWrite")
  /\ UNCHANGED <<auth, graph, watched, liked, past, disturbed>>

SyncByEmail(p) ==
  /\ At(p, "syncByEmail")
  /\ \/ \E n \in Ids :
          /\ graph[n] # None /\ graph[n].email = req[p].loaded.email
          /\ Read(p, n, Renamed(p, n), "syncWrite")
     \/ /\ \A n \in Ids :
             graph[n] # None => graph[n].email # req[p].loaded.email
        /\ Reply(p, "error")
  /\ UNCHANGED <<auth, graph, watched, liked, past, disturbed>>

\* Mutants of UpdateProfile: it sets the count of the copy too, or the e-mail
\* of the request, which a PATCH does not have.
SetAll(p) == graph' = [graph EXCEPT ![req[p].node] = req[p].copy]
SetRequested(p) == graph' = [graph EXCEPT ![req[p].node].email = req[p].email]

\* UpdateProfile: SET name, email and currentAlgorithm from the copy.
UpdateProfile(p) ==
  LET n == req[p].node
      copy == req[p].copy
  IN graph' = [graph EXCEPT ![n] =
       [email |-> copy.email, name |-> copy.name, algo |-> copy.algo,
        watchCount |-> graph[n].watchCount]]

SyncWrite(p) ==
  /\ At(p, "syncWrite")
  /\ UpdateProfile(p)
  /\ Reply(p, "patched")
  /\ UNCHANGED <<auth, watched, liked, past, disturbed>>

-----------------------------------------------------------------------------
(* POST /movies/{id}/watched *)

WatchesUnderWay(u) ==
  {p \in Procs : req[p].user = u /\ req[p].pc \in {"exists", "watchWrite"}}

\* GetByID has found the movie; for an unknown one the answer is 404.  The
\* user is the caller, whose row exists.
StartWatch(p) ==
  /\ At(p, "idle")
  /\ \E u \in Ids, m \in Movies, like \in BOOLEAN :
       /\ auth[u] # None
       /\ (IF graph[u] = None THEN 0 ELSE graph[u].watchCount)
            + Cardinality(WatchesUnderWay(u)) < MaxWatch
       /\ Begin(p, u, u, None, NoInput, m, like, "exists")

\* The existence query of userRepository.RecordWatched.
Exists(p) ==
  /\ At(p, "exists")
  /\ IF graph[req[p].user] = None
     THEN Reply(p, "notFound")
     ELSE Goto(p, "watchWrite")
  /\ UNCHANGED <<auth, graph, watched, liked, past, disturbed>>

\* One query: MERGE the edge, count the request (a second watch of the same
\* movie too), MERGE a LIKED edge for 'liked'.
WatchWrite(p) ==
  /\ At(p, "watchWrite")
  /\ LET u == req[p].user
         edge == <<u, req[p].movie>>
     IN /\ graph' = [graph EXCEPT ![u].watchCount = @ + 1]
        /\ watched' = watched \cup {edge}
        /\ liked' = IF req[p].like THEN liked \cup {edge} ELSE liked
  /\ Goto(p, "reload")
  /\ UNCHANGED <<auth, past, disturbed>>

\* Mutant of NewAlgo: the watch being recorded is counted twice.
NewAlgoAhead(u) == Select(graph[u].watchCount + 1)

NewAlgo(u) == Select(graph[u].watchCount)

\* FindByID and Select: write the profile back only if the choice changed.
Reload(p) ==
  /\ At(p, "reload")
  /\ LET u == req[p].user
         newAlgo == NewAlgo(u)
     IN IF newAlgo # graph[u].algo
        THEN Read(p, u, [graph[u] EXCEPT !.algo = newAlgo], "algoWrite")
        ELSE Reply(p, "watched")
  /\ UNCHANGED <<auth, graph, watched, liked, past, disturbed>>

AlgoWrite(p) ==
  /\ At(p, "algoWrite")
  /\ UpdateProfile(p)
  /\ Reply(p, "watched")
  /\ UNCHANGED <<auth, watched, liked, past, disturbed>>

-----------------------------------------------------------------------------
\* Empty stores, or what the two seed scripts leave: one e-mail, a row and a
\* node whose ids were drawn independently, and no currentAlgorithm.  The two
\* scripts also agree on the name; the seed row holds the role "*".
Init ==
  /\ \E n \in Names, s \in Secrets, r \in Roles :
       /\ auth = [u \in Ids |-> IF u \in SeedRows
                    THEN [email |-> SeedEmail, name |-> n, pw |-> s, roles |-> r]
                    ELSE None]
       /\ graph = [u \in Ids |-> IF u \in SeedNodes
                    THEN [email |-> SeedEmail, name |-> n, algo |-> "",
                          watchCount |-> 0]
                    ELSE None]
       /\ past = [u \in Ids |-> IF u \in SeedRows THEN {n} ELSE {}]
  /\ watched = {}
  /\ liked = {}
  /\ req = [p \in Procs |-> Unused]
  /\ disturbed = SeedRows \cup SeedNodes

Step(p) ==
  \/ StartCreate(p) \/ PgCreate(p) \/ GraphCreate(p)
  \/ StartPatch(p) \/ PgFind(p) \/ PgUpdate(p)
  \/ SyncById(p) \/ SyncByEmail(p) \/ SyncWrite(p)
  \/ StartWatch(p) \/ Exists(p) \/ WatchWrite(p) \/ Reload(p) \/ AlgoWrite(p)
  \/ Return(p) \/ Fault(p)

Next == \E p \in Procs : Step(p)

Spec == Init /\ [][Next]_vars

-----------------------------------------------------------------------------
(* Properties *)

TypeOK ==
  /\ auth \in [Ids -> Row \cup {None}]
  /\ graph \in [Ids -> Node \cup {None}]
  /\ watched \subseteq Ids \X Movies
  /\ liked \subseteq Ids \X Movies
  /\ req \in [Procs -> Request]
  /\ past \in [Ids -> SUBSET Names]
  /\ disturbed \subseteq Ids

\* Row u and node n describe the same account: the ids are equal, except for
\* the seeded pair, which only the e-mail relates.
SameAccount(u, n) ==
  /\ auth[u] # None
  /\ auth[u].email = graph[n].email
  /\ u = n \/ n \in SeedNodes

\* The dual write leaves rows without a node, never a node without its row:
\* whatever fails or interleaves, the profile of every graph user belongs to
\* an account that can log in, under the id its token will carry.
NodesHaveRows ==
  \A n \in Ids : graph[n] # None => \E u \in Ids : SameAccount(u, n)

\* A graph user is only ever given a name its row has held: no request puts a
\* name in the graph before Postgres has accepted it.
GraphNamesWereCommitted ==
  \A n \in Ids : graph[n] # None =>
    \E u \in Ids : SameAccount(u, n) /\ graph[n].name \in past[u]

Rank(algo) ==
  IF algo = "COLLABORATIVE" THEN 2 ELSE IF algo = "CONTENT_BASED" THEN 1 ELSE 0

\* Concurrent profile writes may set currentAlgorithm back, but never ahead:
\* it claims no more watch history than the node has counted.
AlgorithmNeverAhead ==
  \A n \in Ids : graph[n] # None =>
    Rank(graph[n].algo) <= Rank(Select(graph[n].watchCount))

\* The read-modify-write of the profile loses no count: the WATCHED edges of
\* a user are at most its watchCount, and a LIKED edge is a WATCHED one.
WatchEdgesCounted ==
  /\ liked \subseteq watched
  /\ \A u \in Ids :
       LET seen == {m \in Movies : <<u, m>> \in watched}
       IN /\ seen # {} => graph[u] # None
          /\ graph[u] # None => Cardinality(seen) <= graph[u].watchCount

\* Once no request is about it, a user whose requests neither overlapped nor
\* were interrupted is the same in both stores, and its currentAlgorithm is
\* the one its watch count selects.  (A user with no watch keeps POPULAR,
\* whatever the thresholds.)
UndisturbedUsersAgree ==
  \A u \in Ids \ disturbed :
    (auth[u] # None /\ Quiet(u)) =>
      /\ graph[u] # None
      /\ graph[u].email = auth[u].email
      /\ graph[u].name = auth[u].name
      /\ graph[u].algo =
           IF graph[u].watchCount = 0 THEN "POPULAR"
           ELSE Select(graph[u].watchCount)

\* What p's success answer says of the stores: the new account is whole; the
\* sent columns are in the row or, when the name was among them and its sync
\* came last, the row has held that name and the account's node has it; the
\* movie is watched, and liked if the request says so.
AnswerTrue(p) ==
  LET r == req[p]
      u == r.user
  IN /\ r.answer = "created" =>
          /\ auth[u] # None /\ auth[u].email = r.email
          /\ graph[u] # None /\ graph[u].email = r.email
          /\ graph[u].name = r.input.name
     /\ (r.answer = "patched" /\ r.input.name = None) =>
          /\ auth[u] # None
          /\ \A column \in {"pw", "roles"} :
               r.input[column] \in {None, auth[u][column]}
     /\ (r.answer = "patched" /\ r.input.name # None) =>
          /\ r.input.name \in past[u]
          /\ \E n \in Ids : /\ graph[n] # None /\ SameAccount(u, n)
                            /\ graph[n].name = r.input.name
     /\ r.answer = "watched" =>
          /\ <<u, r.movie>> \in watched
          /\ r.like => <<u, r.movie>> \in liked

\* No request answers success before its writes are in both stores: whatever
\* the others did meanwhile, the answer is true at the step that gives it.
AnswersAreTrue ==
  [][\A p \in Procs : (Busy(p) /\ At(p, "done")') => AnswerTrue(p)']_vars

\* A column of an existing row changes only by the update of a request that
\* sent that very value, and a name or a password only by its owner's: a
\* concurrent PATCH of another column is never undone.
OnlySentChange ==
  \A u \in Ids, column \in {"name", "pw", "roles"} :
    (auth[u] # None /\ auth'[u][column] # auth[u][column]) =>
      \E p \in Procs :
        /\ At(p, "pgUpdate") /\ req[p].user = u
        /\ req[p].input[column] = auth'[u][column]
        /\ column # "roles" => req[p].caller = u
OnlySentColumnsChange == [][OnlySentChange]_vars

\* task-07 asks that the name be synchronised in Neo4j when it changes: when
\* the requests now being answered are all successful changes of u's name and
\* no other is under way, both stores hold the same name.
NameSynchronised ==
  \A u \in Ids :
    (\A p \in Procs : /\ At(p, "done") /\ req[p].user = u
                      /\ req[p].answer = "patched" /\ req[p].input.name # None)
      => \A n \in Ids : (graph[n] # None /\ SameAccount(u, n)) =>
           graph[n].name = auth[u].name

\* openapi.yaml promises 409 for an e-mail that already exists.
DuplicateEmailIsConflict ==
  [][\A p \in Procs :
       (At(p, "pgCreate") /\ req'[p].pc = "done" /\ EmailTaken(req[p].email))
         => req'[p].answer \in {"conflict", ""}]_vars
=============================================================================
