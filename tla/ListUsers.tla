----------------------------- MODULE ListUsers -----------------------------
(***************************************************************************)
(* GET /users: a client walks through the pages of the users that match    *)
(* its filter while accounts are created and renamed.  A page is two       *)
(* statements without a transaction, COUNT and then SELECT with an OFFSET  *)
(* in the order of created_at, and a creation takes its created_at before  *)
(* it inserts: a row may appear in front of rows that are already there.   *)
(***************************************************************************)
EXTENDS Integers, FiniteSets

CONSTANTS
  Users,     \* accounts, by id; each has its own e-mail
  Caller,    \* the account of the client's token
  PageSize,  \* what the client sends: 1..100, or 0 for nothing
  None,
  MaxClock   \* bound on the clock

ASSUME ListAssumption ==
  /\ IsFiniteSet(Users) /\ Caller \in Users
  /\ PageSize \in 0..100
  /\ None \notin Users
  /\ None \notin Nat
  /\ None \notin [at : Nat, match : BOOLEAN]
  /\ MaxClock \in Nat

VARIABLES
  table,    \* account -> its row, or None; match: its name fits the filter
  pending,  \* account being created -> the time it took, or None
  clock,
  walk,     \* the client's walk: the page it asks for and what it was told
  start,    \* history: the users that matched when the walk began
  shown,    \* history: the users on the pages so far
  again,    \* history: those that were on two of them
  left,     \* history: a row has left the filter since the walk began
  late      \* history: a row has joined in front of another since the walk began

history == <<start, shown, again, left, late>>
vars == <<table, pending, clock, walk, history>>

Row == [at : Nat, match : BOOLEAN]

-----------------------------------------------------------------------------
(* What a request asks of the table *)

\* A caller without users:write or the wildcard is held to its own e-mail.
EmailFilter(writer, email) == IF writer THEN email ELSE Caller

Matches(t, w, u) ==
  /\ t[u] # None /\ t[u].match
  /\ w.email # None => u = w.email
Matching == {u \in Users : Matches(table, walk, u)}

\* Mutant of EffectivePage: an absent page is not the first.
PageAsked(p) == p

EffectivePage(p) == IF p < 1 THEN 1 ELSE p
Size == IF PageSize < 1 THEN 20 ELSE IF PageSize > 100 THEN 100 ELSE PageSize

\* Mutants of Offset: pages are counted from 0, or skip one row each.
OffsetOfRows(page) == page - 1
OffsetFromZero(page) == page * Size

Offset(page) == (page - 1) * Size

\* ORDER BY created_at: nothing else breaks a tie.
Before(u, v) == table[u].at < table[v].at

AtMost(n, k) == IF n < k THEN n ELSE k

\* The rows skipped and the rows returned: any that an order which respects
\* Before may put there.
IsPage(skipped, page, offset) ==
  LET rest == Matching \ (skipped \cup page)
  IN /\ skipped \cup page \subseteq Matching /\ skipped \cap page = {}
     /\ Cardinality(skipped) = AtMost(Cardinality(Matching), offset)
     /\ Cardinality(page) = AtMost(Cardinality(Matching \ skipped), Size)
     /\ \A u \in skipped, v \in page \cup rest : ~Before(v, u)
     /\ \A u \in page, v \in rest : ~Before(v, u)

-----------------------------------------------------------------------------
(* The accounts *)

\* CreateUser takes the time, and inserts the row later or not at all.
TakeTime(u) ==
  /\ table[u] = None /\ pending[u] = None
  /\ pending' = [pending EXCEPT ![u] = clock]
  /\ UNCHANGED <<table, clock, walk, history>>

\* u's row becomes r: it may leave the filter, or join it in front of one that
\* matches or was shown.
Write(u, r) ==
  /\ table' = [table EXCEPT ![u] = r]
  /\ left' = (left \/ (Matches(table, walk, u) /\ ~Matches(table', walk, u)))
  /\ late' = (late \/ /\ Matches(table', walk, u) /\ ~Matches(table, walk, u)
                      /\ \E v \in Matching \cup shown : r.at <= table[v].at)
  /\ UNCHANGED <<walk, start, shown, again>>

Insert(u) ==
  /\ pending[u] # None
  /\ \E m \in BOOLEAN : Write(u, [at |-> pending[u], match |-> m])
  /\ pending' = [pending EXCEPT ![u] = None]
  /\ UNCHANGED clock

Abandon(u) ==
  /\ pending[u] # None
  /\ pending' = [pending EXCEPT ![u] = None]
  /\ UNCHANGED <<table, clock, walk, history>>

\* PATCH of a name.
Rename(u) ==
  /\ table[u] # None
  /\ \E m \in BOOLEAN : Write(u, [table[u] EXCEPT !.match = m])
  /\ UNCHANGED <<pending, clock>>

Tick ==
  /\ clock < MaxClock
  /\ clock' = clock + 1
  /\ UNCHANGED <<table, pending, walk, history>>

-----------------------------------------------------------------------------
(* The walk *)

At(pc) == walk.pc = pc

\* The first request sends no page: 0.
Begin(writer, email) ==
  /\ At("idle") \/ At("answered")
  /\ walk' = [pc |-> "count", email |-> EmailFilter(writer, email),
              page |-> EffectivePage(0), total |-> 0, size |-> 0]
  /\ start' = {u \in Users : Matches(table, walk', u)}
  /\ shown' = {} /\ again' = {} /\ left' = FALSE /\ late' = FALSE
  /\ UNCHANGED <<table, pending, clock>>

Count ==
  /\ At("count")
  /\ walk' = [walk EXCEPT !.pc = "find", !.total = Cardinality(Matching)]
  /\ UNCHANGED <<table, pending, clock, history>>

Find ==
  /\ At("find")
  /\ \E skipped, page \in SUBSET Matching :
       /\ IsPage(skipped, page, Offset(walk.page))
       /\ walk' = [walk EXCEPT !.pc = "answered", !.size = Cardinality(page)]
       /\ shown' = shown \cup page
       /\ again' = again \cup (shown \cap page)
  /\ UNCHANGED <<table, pending, clock, start, left, late>>

\* Either statement fails: 500, and the client asks for the page again.
Fail ==
  /\ At("count") \/ At("find")
  /\ walk' = [walk EXCEPT !.pc = "count", !.total = 0, !.size = 0]
  /\ UNCHANGED <<table, pending, clock, history>>

\* The client asks for the next page unless this one was short.
NextPage ==
  /\ At("answered") /\ walk.size = Size
  /\ walk' = [walk EXCEPT !.pc = "count", !.page = @ + 1, !.total = 0, !.size = 0]
  /\ UNCHANGED <<table, pending, clock, history>>

-----------------------------------------------------------------------------
\* The seed script's account, whose name fits the filter or not.
Init ==
  /\ \E m \in BOOLEAN :
       table = [u \in Users |-> IF u = Caller THEN [at |-> 0, match |-> m] ELSE None]
  /\ pending = [u \in Users |-> None]
  /\ clock = 0
  /\ walk = [pc |-> "idle", email |-> None, page |-> 1, total |-> 0, size |-> 0]
  /\ start = {} /\ shown = {} /\ again = {} /\ left = FALSE /\ late = FALSE

Account(u) == TakeTime(u) \/ Insert(u) \/ Abandon(u) \/ Rename(u)

Client ==
  \/ \E writer \in BOOLEAN, email \in Users \cup {None} : Begin(writer, email)
  \/ Count \/ Find \/ Fail \/ NextPage

Next == Tick \/ Client \/ \E u \in Users : Account(u)

Spec == Init /\ [][Next]_vars

-----------------------------------------------------------------------------
(* Properties *)

TypeOK ==
  /\ table \in [Users -> Row \cup {None}]
  /\ pending \in [Users -> Nat \cup {None}]
  /\ clock \in Nat
  /\ walk \in [pc : {"idle", "count", "find", "answered"},
               email : Users \cup {None}, page : Nat \ {0}, total : Nat,
               size : 0..100]
  /\ start \subseteq Users /\ shown \subseteq Users /\ again \subseteq Users
  /\ left \in BOOLEAN /\ late \in BOOLEAN

\* No two rows have one created_at.
NoTies ==
  \A u, v \in Users :
    (table[u] # None /\ table[v] # None /\ table[u].at = table[v].at) => u = v

\* The client may take this page for the last: it is short, or it reaches the
\* total it came with, and no row has come in front of another meanwhile.
IsLast ==
  \/ walk.size < Size
  \/ Offset(walk.page) + Size >= walk.total /\ ~late

\* A walk that came to its last page has shown everybody who matched when it
\* began, though rows were inserted before, between and behind its pages and
\* requests were repeated; unless created_at ties or a rename took a row out.
NobodyMissed ==
  (At("answered") /\ IsLast /\ NoTies /\ ~left) => start \subseteq shown

\* A user is on two pages only if a row came in front of another during the
\* walk: creations in the order of their created_at disturb no walk.
RepeatsNeedLateRows == (NoTies /\ ~late) => again = {}
=============================================================================
