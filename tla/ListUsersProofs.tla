-------------------------- MODULE ListUsersProofs --------------------------
(***************************************************************************)
(* Theorems about ListUsers, for any number of users, any page size and    *)
(* any interleaving.  A user's rank is the number of matching rows in      *)
(* front of its own.  Without ties a page is exactly the rows of its ranks;*)
(* between two pages ranks only grow while no row leaves the filter, and   *)
(* stay where they are while none joins in front of another.               *)
(***************************************************************************)
EXTENDS ListUsers, FiniteSetTheorems, TLAPS

Ahead(u) == {v \in Matching : Before(v, u)}
Rank(u) == Cardinality(Ahead(u))

\* The first rank the walk has not reached.
Reached == Offset(walk.page) + (IF At("answered") THEN Size ELSE 0)

HaveRows == \A u \in start \cup shown : table[u] # None

\* Nobody of the start is behind the walk unseen.
NobodyBehind ==
  (NoTies /\ ~left) => \A u \in start :
    /\ u \in Matching
    /\ \/ u \in shown
       \/ Reached <= Rank(u) /\ (At("answered") => walk.size = Size)

\* The total of this request counts everybody of the start.
TotalCounts ==
  (NoTies /\ ~left /\ ~late /\ (At("find") \/ At("answered"))) =>
    \A u \in start : Rank(u) < walk.total

\* Whoever was shown is behind the walk.
ShownBehind ==
  (NoTies /\ ~late) => again = {} /\ \A u \in shown : Rank(u) < Reached

PendingAreNew == \A u \in Users : pending[u] # None => table[u] = None

IInv == /\ TypeOK /\ HaveRows /\ PendingAreNew
        /\ NobodyBehind /\ TotalCounts /\ ShownBehind

-----------------------------------------------------------------------------
(* Numbers and finite sets *)

LEMMA SizeBounds == Size \in 1..100
BY ListAssumption DEF Size

LEMMA OffsetTyped ==
  ASSUME NEW page \in Nat \ {0}
  PROVE  Offset(page) \in Nat /\ Offset(page + 1) = Offset(page) + Size
<1>1. Size \in Nat
  BY SizeBounds
<1> HIDE DEF Size
<1>2. PICK k \in Nat : page = k + 1
  <2>1. page - 1 \in Nat /\ page = (page - 1) + 1
    OBVIOUS
  <2> QED  BY <2>1
<1>3. Offset(page) = k * Size /\ Offset(page + 1) = (k + 1) * Size
  BY <1>2 DEF Offset
<1>4. k * Size \in Nat /\ (k + 1) * Size = k * Size + Size
  BY <1>1
<1> QED  BY <1>3, <1>4

LEMMA ReachedTyped ==
  ASSUME TypeOK
  PROVE  Offset(walk.page) \in Nat /\ Size \in Nat /\ Reached \in Nat
BY OffsetTyped, SizeBounds DEF TypeOK, Reached

LEMMA Finite ==
  ASSUME NEW S \in SUBSET Users
  PROVE  IsFiniteSet(S) /\ Cardinality(S) \in Nat
BY FS_Subset, FS_CardinalityType, ListAssumption

\* A subset that leaves an element out is smaller.
LEMMA Smaller ==
  ASSUME NEW S \in SUBSET Users, NEW T \in SUBSET S, NEW x \in S, x \notin T
  PROVE  Cardinality(T) < Cardinality(S)
<1>1. IsFiniteSet(S) /\ Cardinality(S) \in Nat /\ Cardinality(T) \in Nat
  BY Finite
<1>2. Cardinality(T) <= Cardinality(S) /\ (Cardinality(S) = Cardinality(T) => S = T)
  BY <1>1, FS_Subset
<1> QED  BY <1>1, <1>2

LEMMA NotLarger ==
  ASSUME NEW S \in SUBSET Users, NEW T \in SUBSET S
  PROVE  Cardinality(T) <= Cardinality(S)
BY Finite, FS_Subset

LEMMA DisjointUnion ==
  ASSUME NEW S \in SUBSET Users, NEW T \in SUBSET Users, S \cap T = {}
  PROVE  Cardinality(S \cup T) = Cardinality(S) + Cardinality(T)
<1>1. IsFiniteSet(S) /\ IsFiniteSet(T) /\ Cardinality(S) \in Nat /\ Cardinality(T) \in Nat
  BY Finite
<1>2. Cardinality(S \cup T) = Cardinality(S) + Cardinality(T) - Cardinality(S \cap T)
  BY <1>1, FS_Union
<1>3. Cardinality(S \cap T) = 0
  BY FS_EmptySet
<1> QED  BY <1>1, <1>2, <1>3

LEMMA RankTyped ==
  ASSUME NEW u \in Users
  PROVE  Ahead(u) \in SUBSET Matching /\ Matching \in SUBSET Users /\ Rank(u) \in Nat
<1>1. Ahead(u) \in SUBSET Matching /\ Matching \in SUBSET Users
  BY DEF Ahead, Matching
<1> QED  BY <1>1, Finite DEF Rank

-----------------------------------------------------------------------------
(* A page *)

\* Without ties two matching rows are one in front of the other.
LEMMA Ordered ==
  ASSUME TypeOK, NoTies, NEW u \in Matching, NEW v \in Matching, u # v
  PROVE  (~Before(u, v) => Before(v, u)) /\ (Before(u, v) => ~Before(v, u))
<1>1. u \in Users /\ v \in Users /\ table[u] # None /\ table[v] # None
  BY DEF Matching, Matches
<1>2. table[u] \in Row /\ table[v] \in Row
  BY <1>1 DEF TypeOK
<1>3. table[u].at \in Nat /\ table[v].at \in Nat
  BY <1>2 DEF Row
<1>4. table[u].at # table[v].at
  BY <1>1 DEF NoTies
<1> QED  BY <1>3, <1>4 DEF Before

LEMMA NotBeforeItself ==
  ASSUME TypeOK, NEW u \in Matching
  PROVE  ~Before(u, u)
<1>1. u \in Users /\ table[u] \in Row
  BY DEF TypeOK, Matching, Matches
<1>2. table[u].at \in Nat
  BY <1>1 DEF Row
<1> QED  BY <1>2 DEF Before

\* A page holds the rows of its own ranks and no others.
LEMMA PageRanks ==
  ASSUME TypeOK, NoTies, NEW skipped, NEW page, NEW o \in Nat,
         IsPage(skipped, page, o)
  PROVE  /\ Cardinality(page) \in 0..Size
         /\ \A u \in page : o <= Rank(u) /\ Rank(u) < o + Size
         /\ \A u \in Matching \ page :
              Rank(u) < o \/ (Cardinality(page) = Size /\ o + Size <= Rank(u))
<1> DEFINE M == Matching
           rest == M \ (skipped \cup page)
<1>1. /\ skipped \in SUBSET M /\ page \in SUBSET M /\ skipped \cap page = {}
      /\ Cardinality(skipped) = AtMost(Cardinality(M), o)
      /\ Cardinality(page) = AtMost(Cardinality(M \ skipped), Size)
      /\ \A u \in skipped, v \in page \cup rest : ~Before(v, u)
      /\ \A u \in page, v \in rest : ~Before(v, u)
  BY DEF IsPage
<1>2. M \in SUBSET Users /\ Size \in Nat
  BY SizeBounds DEF Matching
<1>3. /\ Cardinality(M) \in Nat /\ Cardinality(skipped) \in Nat
      /\ Cardinality(page) \in Nat /\ Cardinality(M \ skipped) \in Nat
  BY <1>1, <1>2, Finite
<1>4. Cardinality(page) <= Size /\ Cardinality(skipped) <= o
  BY <1>1, <1>2, <1>3 DEF AtMost
<1>5. ASSUME NEW u \in M \ skipped
      PROVE  Cardinality(skipped) = o
  <2>1. Cardinality(skipped) < Cardinality(M)
    BY <1>1, <1>2, <1>5, Smaller
  <2> QED  BY <1>1, <1>3, <2>1 DEF AtMost
<1>6. ASSUME NEW u \in rest
      PROVE  Cardinality(page) = Size
  <2>1. page \in SUBSET (M \ skipped) /\ u \in M \ skipped /\ u \notin page
    BY <1>1, <1>6
  <2>2. Cardinality(page) < Cardinality(M \ skipped)
    BY <1>2, <2>1, Smaller
  <2> QED  BY <1>1, <1>2, <1>3, <2>2 DEF AtMost
<1>7. ASSUME NEW u \in page
      PROVE  o <= Rank(u) /\ Rank(u) < o + Size
  <2>1. u \in M /\ u \in Users /\ u \notin skipped
    BY <1>1, <1>2
  <2>2. skipped \in SUBSET Ahead(u)
    BY <1>1, <2>1, Ordered DEF Ahead
  <2>3. Ahead(u) \in SUBSET (skipped \cup page) /\ u \notin Ahead(u)
    BY <1>1, <2>1, NotBeforeItself DEF Ahead
  <2>4. skipped \cup page \in SUBSET Users /\ Ahead(u) \in SUBSET Users
    BY <1>1, <1>2, <2>3
  <2>5. Cardinality(skipped) <= Rank(u)
    BY <2>2, <2>4, NotLarger DEF Rank
  <2>6. Rank(u) < Cardinality(skipped \cup page)
    BY <2>3, <2>4, Smaller DEF Rank
  <2>7. Cardinality(skipped \cup page) = Cardinality(skipped) + Cardinality(page)
    BY <1>1, <2>4, DisjointUnion
  <2>8. Rank(u) \in Nat
    BY <2>1, RankTyped
  <2> HIDE DEF M, rest
  <2> QED  BY <1>2, <1>3, <1>4, <1>5, <2>1, <2>5, <2>6, <2>7, <2>8
<1>8. ASSUME NEW u \in skipped
      PROVE  Rank(u) < o
  <2>1. u \in M /\ u \in Users
    BY <1>1, <1>2
  <2>2. Ahead(u) \in SUBSET skipped /\ u \notin Ahead(u)
    BY <1>1, <2>1, NotBeforeItself DEF Ahead
  <2>3. Rank(u) < Cardinality(skipped)
    BY <1>1, <1>2, <2>2, Smaller DEF Rank
  <2>4. Rank(u) \in Nat
    BY <2>1, RankTyped
  <2> QED  BY <1>3, <1>4, <2>3, <2>4
<1>9. ASSUME NEW u \in rest
      PROVE  o + Size <= Rank(u)
  <2>1. u \in M /\ u \in Users /\ u \notin skipped /\ u \notin page
    BY <1>2
  <2>2. skipped \cup page \in SUBSET Ahead(u)
    BY <1>1, <1>9, <2>1, Ordered DEF Ahead
  <2>3. Ahead(u) \in SUBSET Users /\ skipped \cup page \in SUBSET Users
    BY <1>1, <1>2 DEF Ahead
  <2>4. Cardinality(skipped \cup page) <= Rank(u)
    BY <2>2, <2>3, NotLarger DEF Rank
  <2>5. Cardinality(skipped \cup page) = Cardinality(skipped) + Cardinality(page)
    BY <1>1, <1>2, DisjointUnion
  <2>6. Cardinality(skipped) = o /\ Cardinality(page) = Size
    BY <1>5, <1>6, <1>9, <2>1
  <2> QED  BY <2>4, <2>5, <2>6
<1> QED  BY <1>2, <1>3, <1>4, <1>6, <1>7, <1>8, <1>9
-----------------------------------------------------------------------------
(* A row is written *)

\* r may become u's row: it keeps the created_at of the one that is there.
CanBe(u, r) == r \in Row /\ (table[u] # None => r.at = table[u].at)

LEMMA RowNotNone ==
  ASSUME NEW r \in Row
  PROVE  r # None
BY ListAssumption DEF Row

LEMMA WriteStable ==
  ASSUME TypeOK, NEW u \in Users, NEW r, CanBe(u, r), Write(u, r)
  PROVE  /\ table' \in [Users -> Row \cup {None}]
         /\ table'[u] = r
         /\ \A v \in Users : v # u => table'[v] = table[v]
         /\ \A v \in Users : table[v] # None =>
              table'[v] # None /\ table'[v].at = table[v].at
<1>1. r \in Row /\ r # None
  BY RowNotNone DEF CanBe
<1>2. table' = [table EXCEPT ![u] = r] /\ table \in [Users -> Row \cup {None}]
  BY DEF Write, TypeOK
<1>3. table' \in [Users -> Row \cup {None}] /\ table'[u] = r
  BY <1>1, <1>2
<1>4. \A v \in Users : v # u => table'[v] = table[v]
  BY <1>2
<1> QED  BY <1>1, <1>3, <1>4 DEF CanBe

LEMMA WriteTyped ==
  ASSUME TypeOK, NEW u \in Users, NEW r, CanBe(u, r), Write(u, r),
         UNCHANGED clock, pending' \in [Users -> Nat \cup {None}]
  PROVE  TypeOK'
BY WriteStable DEF Write, TypeOK

LEMMA TiesKept ==
  ASSUME TypeOK, NEW u \in Users, NEW r, CanBe(u, r), Write(u, r), NoTies'
  PROVE  NoTies
BY WriteStable DEF NoTies

\* While no row leaves the filter, the rows in front of another stay there.
LEMMA AheadGrows ==
  ASSUME TypeOK, NEW u \in Users, NEW r, CanBe(u, r), Write(u, r), ~left'
  PROVE  /\ ~left /\ Matching \subseteq Matching'
         /\ \A v \in Matching : Ahead(v) \subseteq Ahead(v)'
<1>1. ~left /\ ~(Matches(table, walk, u) /\ ~Matches(table', walk, u))
  BY DEF Write
<1>2. walk' = walk
  BY DEF Write
<1>3. \A v \in Users : v # u => table'[v] = table[v]
  BY WriteStable
<1>4. ASSUME NEW v \in Matching
      PROVE  v \in Matching'
  <2>1. v \in Users /\ Matches(table, walk, v)
    BY DEF Matching
  <2>2. CASE v = u
    BY <1>1, <1>2, <2>1, <2>2 DEF Matching
  <2>3. CASE v # u
    BY <1>2, <1>3, <2>1, <2>3 DEF Matching, Matches
  <2> QED  BY <2>2, <2>3
<1>5. ASSUME NEW v \in Matching, NEW x \in Ahead(v)
      PROVE  x \in Ahead(v)'
  <2>1. x \in Matching /\ x \in Users /\ v \in Users /\ Before(x, v)
    BY DEF Ahead, Matching
  <2>2. table[x] # None /\ table[v] # None
    BY <2>1 DEF Matching, Matches
  <2>3. Before(x, v)'
    BY <2>1, <2>2, WriteStable DEF Before
  <2> QED  BY <1>4, <2>1, <2>3 DEF Ahead
<1> QED  BY <1>1, <1>4, <1>5

\* While no row joins in front of another, none is newly in front of a row that
\* matches or was shown.
LEMMA AheadKept ==
  ASSUME TypeOK, HaveRows, NEW u \in Users, NEW r, CanBe(u, r), Write(u, r), ~late'
  PROVE  ~late /\ \A v \in Matching \cup shown : Ahead(v)' \subseteq Ahead(v)
<1>1. /\ ~late
      /\ ~(/\ Matches(table', walk, u) /\ ~Matches(table, walk, u)
           /\ \E v \in Matching \cup shown : r.at <= table[v].at)
  BY DEF Write
<1>2. walk' = walk
  BY DEF Write
<1>3. ASSUME NEW v \in Matching \cup shown, NEW x \in Ahead(v)'
      PROVE  x \in Ahead(v)
  <2>1. v \in Users /\ table[v] # None
    BY DEF Matching, Matches, HaveRows, TypeOK
  <2>2. x \in Users /\ Matches(table', walk, x) /\ Before(x, v)'
    BY <1>2 DEF Ahead, Matching
  <2>3. table[v] \in Row /\ r \in Row
    BY <2>1 DEF TypeOK, CanBe
  <2>4. table[v].at \in Nat /\ r.at \in Nat
    BY <2>3 DEF Row
  <2>5. table'[x].at < table[v].at
    BY <2>1, <2>2, WriteStable DEF Before
  <2>6. CASE x # u
    <3>1. table'[x] = table[x]
      BY <2>2, <2>6, WriteStable
    <3>2. Matches(table, walk, x)
      BY <2>2, <3>1 DEF Matches
    <3>3. Before(x, v)
      BY <2>5, <3>1 DEF Before
    <3> QED  BY <2>2, <3>2, <3>3 DEF Ahead, Matching
  <2>7. CASE x = u
    <3>1. table'[u] = r
      BY WriteStable
    <3>2. r.at <= table[v].at
      BY <2>4, <2>5, <2>7, <3>1
    <3>3. Matches(table, walk, u)
      BY <1>1, <1>3, <2>2, <2>7, <3>2
    <3>4. table[u].at = r.at
      BY <3>3 DEF Matches, CanBe
    <3>5. Before(x, v)
      BY <2>5, <2>7, <3>1, <3>4 DEF Before
    <3> QED  BY <2>7, <3>3, <3>5 DEF Ahead, Matching
  <2> QED  BY <2>6, <2>7
<1> QED  BY <1>1, <1>3

LEMMA WriteKeeps ==
  ASSUME IInv, NEW u \in Users, NEW r, CanBe(u, r), Write(u, r),
         UNCHANGED clock, pending' \in [Users -> Nat \cup {None}],
         pending'[u] = None, \A v \in Users : v # u => pending'[v] = pending[v]
  PROVE  IInv'
<1>1. TypeOK /\ HaveRows /\ TypeOK'
  BY WriteTyped DEF IInv
<1>2. UNCHANGED <<walk, start, shown, again>>
  BY DEF Write
<1>3. HaveRows'
  BY <1>1, <1>2, WriteStable DEF HaveRows, TypeOK
<1>4. Reached' = Reached /\ Reached \in Nat
  BY <1>1, <1>2, ReachedTyped DEF Reached, At
<1>5. Matching' \in SUBSET Users
  BY DEF Matching
<1>6. NobodyBehind'
  <2> SUFFICES ASSUME NoTies', ~left', NEW v \in start
               PROVE  /\ v \in Matching'
                      /\ \/ v \in shown'
                         \/ Reached' <= Rank(v)' /\ (At("answered")' => walk'.size = Size)
    BY <1>2 DEF NobodyBehind
  <2>1. NoTies /\ ~left /\ Matching \subseteq Matching'
    BY <1>1, TiesKept, AheadGrows
  <2>2. /\ v \in Matching
        /\ \/ v \in shown
           \/ Reached <= Rank(v) /\ (At("answered") => walk.size = Size)
    BY <2>1 DEF IInv, NobodyBehind
  <2>3. CASE v \in shown
    BY <1>2, <2>1, <2>2, <2>3
  <2>4. CASE Reached <= Rank(v) /\ (At("answered") => walk.size = Size)
    <3>1. Ahead(v) \subseteq Ahead(v)' /\ Ahead(v)' \subseteq Users
      BY <1>1, <1>5, <2>2, AheadGrows DEF Ahead
    <3>2. Cardinality(Ahead(v)) <= Cardinality(Ahead(v)')
      BY <3>1, NotLarger
    <3>3. Rank(v)' = Cardinality(Ahead(v)') /\ Rank(v)' \in Nat /\ Rank(v) \in Nat
      BY <3>1, Finite DEF Rank
    <3>4. Reached' <= Rank(v)'
      BY <1>4, <2>4, <3>2, <3>3 DEF Rank
    <3> QED  BY <1>2, <2>1, <2>2, <2>4, <3>4 DEF At
  <2> QED  BY <2>2, <2>3, <2>4
<1>7. ASSUME ~late', NEW v \in Matching \cup shown
      PROVE  Rank(v)' <= Rank(v) /\ Rank(v)' \in Nat /\ Rank(v) \in Nat
  <2>1. Ahead(v)' \subseteq Ahead(v) /\ Ahead(v) \subseteq Users
    BY <1>1, <1>7, AheadKept DEF Ahead, Matching
  <2>2. Cardinality(Ahead(v)') <= Cardinality(Ahead(v))
    BY <2>1, NotLarger
  <2> QED  BY <2>1, <2>2, Finite DEF Rank
<1>8. TotalCounts'
  <2> SUFFICES ASSUME NoTies', ~left', ~late', At("find")' \/ At("answered")',
                      NEW v \in start
               PROVE  Rank(v)' < walk'.total
    BY <1>2 DEF TotalCounts
  <2>1. NoTies /\ ~left /\ ~late /\ (At("find") \/ At("answered"))
    BY <1>1, <1>2, TiesKept, AheadGrows, AheadKept DEF At
  <2>2. v \in Matching /\ Rank(v) < walk.total
    BY <2>1 DEF IInv, NobodyBehind, TotalCounts
  <2>3. walk.total \in Nat /\ walk' = walk
    BY <1>1, <1>2 DEF TypeOK
  <2> QED  BY <1>7, <2>2, <2>3
<1>9. ShownBehind'
  <2> SUFFICES ASSUME NoTies', ~late'
               PROVE  again' = {} /\ \A v \in shown' : Rank(v)' < Reached'
    BY DEF ShownBehind
  <2>1. NoTies /\ ~late
    BY <1>1, TiesKept, AheadKept
  <2>2. again = {} /\ \A v \in shown : Rank(v) < Reached
    BY <2>1 DEF IInv, ShownBehind
  <2>3. ASSUME NEW v \in shown'
        PROVE  Rank(v)' < Reached'
    BY <1>2, <1>4, <1>7, <2>2
  <2> QED  BY <1>2, <2>2, <2>3
<1>10. PendingAreNew'
  BY <1>1, WriteStable DEF IInv, PendingAreNew
<1> QED  BY <1>1, <1>3, <1>6, <1>8, <1>9, <1>10 DEF IInv

LEMMA InsertStep ==
  ASSUME IInv, NEW u \in Users, Insert(u)
  PROVE  IInv'
<1>1. PICK m \in BOOLEAN : Write(u, [at |-> pending[u], match |-> m])
  BY DEF Insert
<1>2. pending[u] \in Nat /\ pending \in [Users -> Nat \cup {None}]
  BY DEF Insert, IInv, TypeOK
<1>3. CanBe(u, [at |-> pending[u], match |-> m])
  BY <1>2 DEF CanBe, Row, Insert, IInv, PendingAreNew
<1>4. /\ UNCHANGED clock /\ pending' \in [Users -> Nat \cup {None}]
      /\ pending'[u] = None /\ \A v \in Users : v # u => pending'[v] = pending[v]
  BY <1>2 DEF Insert
<1> QED  BY <1>1, <1>3, <1>4, WriteKeeps

LEMMA RenameStep ==
  ASSUME IInv, NEW u \in Users, Rename(u)
  PROVE  IInv'
<1>1. PICK m \in BOOLEAN : Write(u, [table[u] EXCEPT !.match = m])
  BY DEF Rename
<1>2. table[u] \in Row
  BY DEF Rename, IInv, TypeOK
<1>3. CanBe(u, [table[u] EXCEPT !.match = m])
  BY <1>2 DEF CanBe, Row
<1>4. /\ UNCHANGED clock /\ pending' = pending
      /\ pending \in [Users -> Nat \cup {None}] /\ pending[u] = None
  BY DEF Rename, IInv, TypeOK, PendingAreNew
<1> QED  BY <1>1, <1>3, <1>4, WriteKeeps
-----------------------------------------------------------------------------
(* The walk *)

\* The table and the filter stay, and so do the ranks.
LEMMA RanksStay ==
  ASSUME UNCHANGED table, walk'.email = walk.email
  PROVE  /\ Matching' = Matching /\ (NoTies' <=> NoTies)
         /\ \A u : Rank(u)' = Rank(u)
<1>1. Matching' = Matching
  BY DEF Matching, Matches
<1>2. NoTies' <=> NoTies
  BY DEF NoTies
<1>3. ASSUME NEW u
      PROVE  Rank(u)' = Rank(u)
  <2>1. Ahead(u)' = Ahead(u)
    BY <1>1 DEF Ahead, Before
  <2> QED  BY <2>1 DEF Rank
<1> QED  BY <1>1, <1>2, <1>3

LEMMA BeginStep ==
  ASSUME IInv, NEW writer \in BOOLEAN, NEW email \in Users \cup {None},
         Begin(writer, email)
  PROVE  IInv'
<1>1. /\ walk'.pc = "count" /\ walk'.page = 1 /\ walk'.total = 0 /\ walk'.size = 0
      /\ walk'.email \in Users \cup {None}
      /\ walk' = [pc |-> "count", email |-> walk'.email, page |-> 1, total |-> 0,
                  size |-> 0]
  BY ListAssumption DEF Begin, EmailFilter, EffectivePage
<1>2. /\ start' = Matching' /\ shown' = {} /\ again' = {} /\ left' = FALSE
      /\ late' = FALSE /\ UNCHANGED <<table, pending, clock>>
  BY DEF Begin, Matching
<1>3. start' \in SUBSET Users
  BY <1>2 DEF Matching
<1>4. TypeOK'
  <2> DEFINE email1 == walk'.email
  <2>1. email1 \in Users \cup {None}
    BY <1>1
  <2> HIDE DEF email1
  <2>2. [pc |-> "count", email |-> email1, page |-> 1, total |-> 0, size |-> 0]
          \in [pc : {"idle", "count", "find", "answered"},
               email : Users \cup {None}, page : Nat \ {0}, total : Nat,
               size : 0..100]
    BY <2>1
  <2>3. walk' \in [pc : {"idle", "count", "find", "answered"},
                   email : Users \cup {None}, page : Nat \ {0}, total : Nat,
                   size : 0..100]
    BY <1>1, <2>2 DEF email1
  <2> QED  BY <1>2, <1>3, <2>3 DEF IInv, TypeOK
<1>5. Reached' = 0
  <2>1. Offset(1) = 0
    BY SizeBounds DEF Offset
  <2> QED  BY <1>1, <2>1 DEF Reached, At, Offset
<1>6. HaveRows'
  BY <1>2 DEF HaveRows, Matching, Matches
<1>7. NobodyBehind'
  <2>1. ASSUME NEW u \in start'
        PROVE  Reached' <= Rank(u)'
    <3>1. Ahead(u)' \in SUBSET Users
      BY DEF Ahead, Matching
    <3> QED  BY <1>5, <3>1, Finite DEF Rank
  <2> QED  BY <1>1, <1>2, <2>1 DEF NobodyBehind, At
<1>8. TotalCounts' /\ ShownBehind' /\ PendingAreNew'
  BY <1>1, <1>2 DEF TotalCounts, ShownBehind, At, IInv, PendingAreNew
<1> QED  BY <1>4, <1>6, <1>7, <1>8 DEF IInv

LEMMA CountStep ==
  ASSUME IInv, Count
  PROVE  IInv'
<1>1. /\ UNCHANGED <<table, pending, clock, history>>
      /\ walk' = [walk EXCEPT !.pc = "find", !.total = Cardinality(Matching)]
      /\ At("count") /\ TypeOK
  BY DEF Count, IInv
<1>2. /\ walk'.pc = "find" /\ walk'.total = Cardinality(Matching)
      /\ walk'.page = walk.page /\ walk'.email = walk.email
  BY <1>1 DEF TypeOK
<1>3. Cardinality(Matching) \in Nat
  BY Finite DEF Matching
<1>4. TypeOK'
  BY <1>1, <1>3 DEF TypeOK, history
<1>5. /\ Matching' = Matching /\ (NoTies' <=> NoTies)
      /\ \A u : Rank(u)' = Rank(u)
  BY <1>1, <1>2, RanksStay
<1>6. Reached' = Reached /\ ~At("answered")'
  BY <1>1, <1>2 DEF Reached, At
<1>7. NobodyBehind' /\ ShownBehind' /\ HaveRows' /\ PendingAreNew'
  BY <1>1, <1>5, <1>6 DEF IInv, NobodyBehind, ShownBehind, HaveRows,
                         PendingAreNew, history
<1>8. TotalCounts'
  <2> SUFFICES ASSUME NoTies, ~left, NEW u \in start
               PROVE  Rank(u) < Cardinality(Matching)
    BY <1>1, <1>2, <1>5 DEF TotalCounts, history
  <2>1. u \in Matching
    BY DEF IInv, NobodyBehind
  <2>2. Ahead(u) \in SUBSET Matching /\ u \notin Ahead(u) /\ Matching \in SUBSET Users
    BY <1>1, <2>1, NotBeforeItself DEF Ahead, Matching
  <2> QED  BY <2>1, <2>2, Smaller DEF Rank
<1> QED  BY <1>4, <1>7, <1>8 DEF IInv

LEMMA FindStep ==
  ASSUME IInv, Find
  PROVE  IInv'
<1>1. PICK skipped, page \in SUBSET Matching :
        /\ IsPage(skipped, page, Offset(walk.page))
        /\ walk' = [walk EXCEPT !.pc = "answered", !.size = Cardinality(page)]
        /\ shown' = shown \cup page
        /\ again' = again \cup (shown \cap page)
  BY DEF Find
<1>2. At("find") /\ TypeOK /\ UNCHANGED <<table, pending, clock, start, left, late>>
  BY DEF Find, IInv
<1>3. /\ walk'.pc = "answered" /\ walk'.size = Cardinality(page)
      /\ walk'.page = walk.page /\ walk'.email = walk.email
      /\ walk'.total = walk.total
  BY <1>1, <1>2 DEF TypeOK
<1>4. /\ Matching' = Matching /\ (NoTies' <=> NoTies)
      /\ \A u : Rank(u)' = Rank(u)
  BY <1>2, <1>3, RanksStay
<1>5. /\ Reached = Offset(walk.page) /\ Reached \in Nat /\ Size \in Nat
      /\ Reached' = Reached + Size
  <2>1. ~At("answered")
    BY <1>2 DEF At
  <2>2. Offset(walk.page) \in Nat /\ Size \in Nat
    BY <1>2, ReachedTyped
  <2>3. At("answered")' /\ Offset(walk.page)' = Offset(walk.page)
    BY <1>3 DEF At, Offset
  <2> QED  BY <2>1, <2>2, <2>3 DEF Reached
<1>6. page \in SUBSET Users /\ Cardinality(page) \in 0..Size
  <2>1. Matching \in SUBSET Users
    BY DEF Matching
  <2>2. /\ page \in SUBSET Matching /\ Matching \ skipped \in SUBSET Users
        /\ Cardinality(page) = AtMost(Cardinality(Matching \ skipped), Size)
    BY <1>1, <2>1 DEF IsPage
  <2>3. Cardinality(Matching \ skipped) \in Nat
    BY <2>2, Finite
  <2> QED  BY <1>5, <2>1, <2>2, <2>3 DEF AtMost
<1>7. TypeOK'
  <2>1. Cardinality(page) \in 0..100
    BY <1>6, SizeBounds
  <2>2. walk' \in [pc : {"idle", "count", "find", "answered"},
                   email : Users \cup {None}, page : Nat \ {0}, total : Nat,
                   size : 0..100]
    BY <1>1, <1>2, <2>1 DEF TypeOK
  <2> QED  BY <1>1, <1>2, <1>6, <2>2 DEF TypeOK
<1>8. HaveRows' /\ PendingAreNew'
  BY <1>1, <1>2, <1>6 DEF IInv, HaveRows, PendingAreNew, Matching, Matches
<1>9. ASSUME NoTies
      PROVE  /\ \A u \in page : Reached <= Rank(u) /\ Rank(u) < Reached + Size
             /\ \A u \in Matching \ page :
                  \/ Rank(u) < Reached
                  \/ Cardinality(page) = Size /\ Reached + Size <= Rank(u)
  BY <1>1, <1>2, <1>5, <1>9, PageRanks
<1>10. NobodyBehind'
  <2> SUFFICES ASSUME NoTies, ~left, NEW u \in start
               PROVE  /\ u \in Matching
                      /\ \/ u \in shown'
                         \/ Reached + Size <= Rank(u) /\ Cardinality(page) = Size
    BY <1>2, <1>3, <1>4, <1>5 DEF NobodyBehind
  <2>1. u \in Matching /\ (u \in shown \/ Reached <= Rank(u))
    BY DEF IInv, NobodyBehind
  <2>2. CASE u \in shown \/ u \in page
    BY <1>1, <2>1, <2>2
  <2>3. CASE u \notin page /\ Reached <= Rank(u)
    <3>1. Rank(u) \in Nat
      BY <1>2, RankTyped DEF TypeOK
    <3>2. ~(Rank(u) < Reached)
      BY <1>5, <2>3, <3>1
    <3> QED  BY <1>9, <2>1, <2>3, <3>2
  <2> QED  BY <2>1, <2>2, <2>3
<1>11. TotalCounts'
  BY <1>2, <1>3, <1>4 DEF IInv, TotalCounts
<1>12. ShownBehind'
  <2> SUFFICES ASSUME NoTies, ~late
               PROVE  again' = {} /\ \A u \in shown' : Rank(u) < Reached + Size
    BY <1>2, <1>4, <1>5 DEF ShownBehind
  <2>1. again = {} /\ \A u \in shown : Rank(u) < Reached
    BY DEF IInv, ShownBehind
  <2>2. ASSUME NEW u \in shown
        PROVE  u \notin page /\ Rank(u) < Reached + Size
    <3>1. Rank(u) \in Nat
      BY <1>2, RankTyped DEF TypeOK
    <3>2. Rank(u) < Reached
      BY <2>1
    <3> QED  BY <1>5, <1>9, <3>1, <3>2
  <2>3. again' = {}
    BY <1>1, <2>1, <2>2
  <2> QED  BY <1>1, <1>9, <2>2, <2>3
<1> QED  BY <1>7, <1>8, <1>10, <1>11, <1>12 DEF IInv

\* A step of the client between two statements.
LEMMA AskStep ==
  ASSUME IInv, UNCHANGED <<table, pending, clock, history>>,
         walk' \in [pc : {"count"}, email : {walk.email}, page : Nat \ {0},
                    total : {0}, size : {0}],
         Reached' = Reached
  PROVE  IInv'
<1>1. walk'.pc = "count" /\ walk'.email = walk.email
  OBVIOUS
<1>2. TypeOK'
  <2>1. walk.email \in Users \cup {None}
    BY DEF IInv, TypeOK
  <2>2. walk' \in [pc : {"idle", "count", "find", "answered"},
                   email : Users \cup {None}, page : Nat \ {0}, total : Nat,
                   size : 0..100]
    BY <2>1
  <2> QED  BY <2>2 DEF IInv, TypeOK, history
<1>3. /\ Matching' = Matching /\ (NoTies' <=> NoTies)
      /\ \A u : Rank(u)' = Rank(u)
  BY <1>1, RanksStay
<1>4. ~At("find")' /\ ~At("answered")'
  BY <1>1 DEF At
<1>5. HaveRows' /\ PendingAreNew' /\ TotalCounts'
  BY <1>4 DEF IInv, HaveRows, PendingAreNew, TotalCounts, history
<1>6. NobodyBehind' /\ ShownBehind'
  BY <1>3, <1>4 DEF IInv, NobodyBehind, ShownBehind, history
<1> QED  BY <1>2, <1>5, <1>6 DEF IInv

LEMMA FailStep ==
  ASSUME IInv, Fail
  PROVE  IInv'
<1>1. /\ walk' = [walk EXCEPT !.pc = "count", !.total = 0, !.size = 0]
      /\ UNCHANGED <<table, pending, clock, history>>
      /\ ~At("answered") /\ TypeOK
  BY DEF Fail, At, IInv
<1>2. walk' \in [pc : {"count"}, email : {walk.email}, page : Nat \ {0},
                 total : {0}, size : {0}]
  BY <1>1 DEF TypeOK
<1>3. walk'.pc = "count" /\ walk'.page = walk.page
  BY <1>1 DEF TypeOK
<1>4. Reached' = Reached
  BY <1>1, <1>3 DEF Reached, At, Offset
<1> QED  BY <1>1, <1>2, <1>4, AskStep

LEMMA NextPageStep ==
  ASSUME IInv, NextPage
  PROVE  IInv'
<1>1. /\ walk' = [walk EXCEPT !.pc = "count", !.page = @ + 1, !.total = 0, !.size = 0]
      /\ UNCHANGED <<table, pending, clock, history>>
      /\ At("answered") /\ TypeOK
  BY DEF NextPage, IInv
<1>2. walk' \in [pc : {"count"}, email : {walk.email}, page : Nat \ {0},
                 total : {0}, size : {0}]
  <2>1. walk.page + 1 \in Nat \ {0}
    BY <1>1 DEF TypeOK
  <2>2. walk' = [pc |-> "count", email |-> walk.email, page |-> walk.page + 1,
                 total |-> 0, size |-> 0]
    BY <1>1 DEF TypeOK
  <2> QED  BY <2>1, <2>2
<1>3. walk'.pc = "count" /\ walk'.page = walk.page + 1
  BY <1>1 DEF TypeOK
<1>4. walk.page \in Nat \ {0}
  BY <1>1 DEF TypeOK
<1>5. Offset(walk.page + 1) = Offset(walk.page) + Size /\ Offset(walk.page + 1) \in Nat
  BY <1>4, OffsetTyped
<1>6. Reached' = Offset(walk.page + 1) + 0
  BY <1>3 DEF Reached, At, Offset
<1>7. Reached' = Reached
  BY <1>1, <1>5, <1>6 DEF Reached
<1> QED  BY <1>1, <1>2, <1>7, AskStep
-----------------------------------------------------------------------------
LEMMA Initially == Init => IInv
<1> SUFFICES ASSUME Init
             PROVE  IInv
  OBVIOUS
<1>1. table \in [Users -> Row \cup {None}]
  BY DEF Init, Row
<1>2. TypeOK
  <2>1. walk \in [pc : {"idle", "count", "find", "answered"},
                  email : Users \cup {None}, page : Nat \ {0}, total : Nat,
                  size : 0..100]
    BY DEF Init
  <2>2. pending \in [Users -> Nat \cup {None}]
    BY DEF Init
  <2> QED  BY <1>1, <2>1, <2>2 DEF Init, TypeOK
<1>3. PendingAreNew
  BY DEF Init, PendingAreNew
<1> QED  BY <1>2, <1>3 DEF Init, IInv, HaveRows, NobodyBehind, TotalCounts,
                         ShownBehind, At

\* Nothing that the walk or the ranks depend on changes.
LEMMA OutsideStep ==
  ASSUME IInv, UNCHANGED <<table, walk, history>>, TypeOK', PendingAreNew'
  PROVE  IInv'
<1>1. /\ Matching' = Matching /\ (NoTies' <=> NoTies)
      /\ \A u : Rank(u)' = Rank(u)
  BY RanksStay
<1>2. Reached' = Reached
  BY DEF Reached, At, Offset
<1> QED  BY <1>1, <1>2 DEF IInv, HaveRows, NobodyBehind, TotalCounts,
                         ShownBehind, At, history

LEMMA Inductive == IInv /\ [Next]_vars => IInv'
<1> SUFFICES ASSUME IInv, [Next]_vars
             PROVE  IInv'
  OBVIOUS
<1>1. ASSUME NEW u \in Users, TakeTime(u)
      PROVE  IInv'
  <2>1. TypeOK' /\ PendingAreNew'
    BY <1>1 DEF TakeTime, IInv, TypeOK, PendingAreNew, history
  <2> QED  BY <1>1, <2>1, OutsideStep DEF TakeTime
<1>2. ASSUME NEW u \in Users, Abandon(u)
      PROVE  IInv'
  <2>1. TypeOK' /\ PendingAreNew'
    BY <1>2 DEF Abandon, IInv, TypeOK, PendingAreNew, history
  <2> QED  BY <1>2, <2>1, OutsideStep DEF Abandon
<1>3. ASSUME NEW u \in Users, Insert(u) \/ Rename(u)
      PROVE  IInv'
  BY <1>3, InsertStep, RenameStep
<1>4. CASE Tick
  <2>1. TypeOK' /\ PendingAreNew'
    BY <1>4 DEF Tick, IInv, TypeOK, PendingAreNew, history
  <2> QED  BY <1>4, <2>1, OutsideStep DEF Tick
<1>5. ASSUME NEW writer \in BOOLEAN, NEW email \in Users \cup {None},
             Begin(writer, email)
      PROVE  IInv'
  BY <1>5, BeginStep
<1>6. CASE Count \/ Find \/ Fail \/ NextPage
  BY <1>6, CountStep, FindStep, FailStep, NextPageStep
<1>7. CASE UNCHANGED vars
  <2>1. TypeOK' /\ PendingAreNew'
    BY <1>7 DEF vars, IInv, TypeOK, PendingAreNew, history
  <2> QED  BY <1>7, <2>1, OutsideStep DEF vars
<1> QED  BY <1>1, <1>2, <1>3, <1>4, <1>5, <1>6, <1>7 DEF Next, Client, Account

-----------------------------------------------------------------------------
(* The theorems *)

\* The state is always well typed: no page before the first, no page of more
\* than a hundred users.
THEOREM TypeCorrect == Spec => []TypeOK
<1>1. IInv => TypeOK
  BY DEF IInv
<1> QED  BY Initially, Inductive, <1>1, PTL DEF Spec

\* A client that reads on to a short page, or to the total if no row came in
\* front of another, has seen everybody, whatever is created meanwhile: ranks
\* only grow, so COUNT and SELECT in two statements lose nobody.
THEOREM WalksMissNobody == Spec => []NobodyMissed
<1>1. IInv => NobodyMissed
  <2> SUFFICES ASSUME IInv, At("answered"), IsLast, NoTies, ~left,
                      NEW u \in start, u \notin shown
               PROVE  FALSE
    BY DEF NobodyMissed
  <2>1. Reached <= Rank(u) /\ walk.size = Size
    BY DEF IInv, NobodyBehind
  <2>2. /\ Offset(walk.page) \in Nat /\ Size \in Nat /\ Rank(u) \in Nat
        /\ walk.total \in Nat
    BY ReachedTyped, RankTyped DEF IInv, TypeOK
  <2>3. Reached = Offset(walk.page) + Size
    BY DEF Reached
  <2>4. Offset(walk.page) + Size >= walk.total /\ ~late
    BY <2>1, <2>2 DEF IsLast
  <2>5. Rank(u) < walk.total
    BY <2>4 DEF IInv, TotalCounts
  <2> QED  BY <2>1, <2>2, <2>3, <2>4, <2>5
<1> QED  BY Initially, Inductive, <1>1, PTL DEF Spec

\* Creations that are inserted in the order of their created_at put nobody on
\* two pages of a walk.
THEOREM RepeatsAreLate == Spec => []RepeatsNeedLateRows
<1>1. IInv => RepeatsNeedLateRows
  BY DEF IInv, ShownBehind, RepeatsNeedLateRows
<1> QED  BY Initially, Inductive, <1>1, PTL DEF Spec
=============================================================================
