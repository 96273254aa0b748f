----------------------- MODULE RecommendationsProofs -----------------------
(* Theorems about the recommendations of Recommendations. *)
EXTENDS Recommendations, FiniteSetTheorems, SequenceTheorems, TLAPS

-----------------------------------------------------------------------------
(* Well-ordering, from the finite sets 0..x being well-founded under strict *)
(* inclusion.  It stands for an induction over a list or its pages.         *)

LEMMA LeastNatural ==
  ASSUME NEW S \in SUBSET Nat, S # {}
  PROVE  \E x \in S : \A y \in S : x <= y
<1> DEFINE T == {0..x : x \in S}
<1>1. T \subseteq FiniteSubsetsOf(Nat) /\ T # {}
  <2>1. ASSUME NEW x \in S PROVE IsFiniteSet(0..x)
    BY FS_Interval
  <2>2. ASSUME NEW x \in S PROVE 0..x \in SUBSET Nat
    OBVIOUS
  <2> QED BY <2>1, <2>2 DEF FiniteSubsetsOf
<1>2. PICK t \in T : \A u \in T : <<u, t>> \notin StrictSubsetOrdering(Nat)
  <2> HIDE DEF T
  <2> QED BY <1>1, FS_StrictSubsetOrderingWellFounded, WFMin
<1>3. PICK x \in S : t = 0..x
  OBVIOUS
<1>4. ASSUME NEW y \in S, y < x PROVE FALSE
  <2>1. 0..y \in T OBVIOUS
  <2>2. 0..y \subseteq 0..x /\ 0..y # 0..x BY <1>4, x \in 0..x
  <2>3. 0..y \in SUBSET Nat /\ 0..x \in SUBSET Nat OBVIOUS
  <2> QED BY <1>2, <1>3, <2>1, <2>2, <2>3 DEF StrictSubsetOrdering
<1> QED BY <1>4

LEMMA EveryPrefix ==
  ASSUME NEW n \in Nat, NEW T, 0 \in T,
         \A k \in 1..n : k - 1 \in T => k \in T
  PROVE  0..n \subseteq T
<1> DEFINE Bad == {k \in 0..n : k \notin T}
<1>1. SUFFICES ASSUME Bad # {} PROVE FALSE
  OBVIOUS
<1>2. PICK x \in Bad : \A y \in Bad : x <= y
  <2> Bad \in SUBSET Nat OBVIOUS
  <2> HIDE DEF Bad
  <2> QED BY LeastNatural, <1>1
<1>3. x \in 1..n /\ x \notin T /\ x - 1 \in 0..n
  OBVIOUS
<1>4. x - 1 \in T
  BY <1>2, <1>3
<1> QED BY <1>3, <1>4

-----------------------------------------------------------------------------
(* The queries *)

LEMMA LimitType == Limit \in Int /\ ContentCount \in Int
<1>1. Limit \in Int
  BY LimitAssumption DEF Limit, EffectiveLimit
<1>2. Weight \in Int
  BY LimitAssumption
<1>3. Limit * Weight \in Int
  BY <1>1, <1>2
<1> QED BY <1>1, <1>3 DEF ContentCount

LEMMA CutProperties ==
  ASSUME NEW S, NEW list \in Seq(S), NEW n \in Int
  PROVE  /\ Cut(list, n) \in Seq(S)
         /\ Len(Cut(list, n)) <= Len(list)
         /\ n >= 0 => Len(Cut(list, n)) <= n
         /\ n <= 0 => Cut(list, n) = <<>>
         /\ Cut(list, n) = <<>> => n <= 0 \/ list = <<>>
         /\ \A k \in 1..Len(Cut(list, n)) : Cut(list, n)[k] = list[k]
<1> DEFINE end == IF n < Len(list) THEN n ELSE Len(list)
<1>1. Len(list) \in Nat /\ end \in Int /\ end <= n /\ end <= Len(list)
  OBVIOUS
<1>2. \A k \in 1..end : list[k] \in S
  BY <1>1, ElementOfSeq
<1>3. Cut(list, n) = SubSeq(list, 1, end)
  BY DEF Cut, Least
<1> HIDE DEF end
<1>4. /\ Cut(list, n) \in Seq(S)
      /\ Len(Cut(list, n)) = IF 1 <= end THEN end ELSE 0
      /\ \A k \in 1..end : Cut(list, n)[k] = list[k]
  BY <1>1, <1>2, <1>3, SubSeqProperties
<1>5. Cut(list, n) = <<>> <=> Len(Cut(list, n)) = 0
  BY <1>4, EmptySeq
<1>6. list = <<>> <=> Len(list) = 0
  BY EmptySeq
<1> QED BY <1>1, <1>4, <1>5, <1>6 DEF end

LEMMA CutRange ==
  ASSUME NEW S, NEW list \in Seq(S), NEW n \in Int
  PROVE  /\ Range(Cut(list, n)) \subseteq Range(list)
         /\ IsInjective(list) => IsInjective(Cut(list, n))
<1> USE DEF Range, IsInjective
<1>1. DOMAIN list = 1..Len(list) /\ Len(list) \in Nat
  BY LenProperties
<1>2. DOMAIN Cut(list, n) = 1..Len(Cut(list, n)) /\ Len(Cut(list, n)) \in Nat
  BY CutProperties, LenProperties
<1>3. \A k \in DOMAIN Cut(list, n) :
        k \in DOMAIN list /\ Cut(list, n)[k] = list[k]
  BY <1>1, <1>2, CutProperties
<1> QED BY <1>3

\* The graph's part of TypeOK.
GraphOK == inGraph \subseteq Movies /\ watched \subseteq inGraph

LEMMA RowsFinite ==
  ASSUME GraphOK, NEW algo \in Queries, NEW score
  PROVE  /\ IsFiniteSet(Rows(algo, score))
         /\ \A row \in Rows(algo, score) : row[1] \in Candidates(algo, score)
         /\ \A row \in Rows(algo, score) : row = <<row[1], row[2]>>
<1>1. Candidates(algo, score) \in SUBSET Movies
  BY DEF GraphOK, Candidates
<1>2. IsFiniteSet(Candidates(algo, score))
  BY <1>1, GraphAssumption, FS_Subset
<1>3. CASE algo # "SERENDIPITY"
  <2>1. Rows(algo, score) = Candidates(algo, score) \X {None}
    BY <1>3 DEF Rows
  <2>2. IsFiniteSet({None})
    BY FS_Singleton
  <2>3. IsFiniteSet(Rows(algo, score))
    BY <2>1, <2>2, <1>2, FS_Product
  <2> QED BY <2>1, <2>3
<1>4. CASE algo = "SERENDIPITY"
  <2> DEFINE Known == {GenresOf[m] : m \in inGraph}
             All == Candidates(algo, score) \X UNION Known
  <2>1. IsFiniteSet(inGraph)
    BY GraphAssumption, FS_Subset DEF GraphOK
  <2>2. IsFiniteSet(Known)
    <3>1. [m \in inGraph |-> GenresOf[m]] \in Surjection(inGraph, Known)
      BY DEF Surjection
    <3> QED BY <2>1, <3>1, FS_Surjection
  <2>3. \A genres \in Known : IsFiniteSet(genres)
    BY GraphAssumption DEF GraphOK
  <2>4. IsFiniteSet(UNION Known)
    <3> HIDE DEF Known
    <3> QED BY <2>2, <2>3, FS_UNION
  <2>5. IsFiniteSet(All)
    <3> HIDE DEF Known
    <3> QED BY <2>4, <1>2, FS_Product
  <2>6. Rows(algo, score) \in SUBSET All
    BY <1>4 DEF Rows
  <2>7. IsFiniteSet(Rows(algo, score))
    <3> HIDE DEF All
    <3> QED BY <2>5, <2>6, FS_Subset
  <2> QED BY <2>6, <2>7
<1> QED BY <1>3, <1>4

\* A query's rows in an order it may return them.
Ordered(algo, score) ==
  {s \in SetToSeqs(Rows(algo, score)) : Descending(score, s)}
Titles(s) == [k \in DOMAIN s |-> s[k][1]]

LEMMA OrderedType ==
  ASSUME GraphOK, NEW algo \in Queries, NEW score,
         NEW s \in Ordered(algo, score)
  PROVE  /\ Cardinality(Rows(algo, score)) \in Nat
         /\ s \in Injection(1..Cardinality(Rows(algo, score)), Rows(algo, score))
         /\ DOMAIN s = 1..Cardinality(Rows(algo, score))
         /\ Titles(s) \in Seq(Candidates(algo, score))
         /\ Len(Titles(s)) = Cardinality(Rows(algo, score))
<1>1. Cardinality(Rows(algo, score)) \in Nat
  BY RowsFinite, FS_CardinalityType
<1>2. /\ s \in [1..Cardinality(Rows(algo, score)) -> Rows(algo, score)]
      /\ \A i, j \in 1..Cardinality(Rows(algo, score)) : i # j => s[i] # s[j]
  BY DEF Ordered, SetToSeqs
<1>3. s \in Injection(1..Cardinality(Rows(algo, score)), Rows(algo, score))
  BY <1>2 DEF Injection, IsInjective
<1>4. \A k \in 1..Cardinality(Rows(algo, score)) : s[k][1] \in Candidates(algo, score)
  BY <1>2, RowsFinite
<1>5. Titles(s) \in [1..Cardinality(Rows(algo, score)) -> Candidates(algo, score)]
  BY <1>2, <1>4 DEF Titles
<1>6. /\ Titles(s) \in Seq(Candidates(algo, score))
      /\ Len(Titles(s)) = Cardinality(Rows(algo, score))
  BY <1>1, <1>5
<1> QED BY <1>1, <1>2, <1>3, <1>6

LEMMA LikesType ==
  ASSUME NEW N \in Neighbourhoods
  PROVE  Likes(N) \in [Movies -> Nat]
<1>1. N \subseteq Others
  BY DEF Neighbourhoods, Similar
<1>2. ASSUME NEW m \in Movies
      PROVE  Cardinality({u \in N : m \in LikedBy[u]}) \in Nat
  <2>1. {u \in N : m \in LikedBy[u]} \subseteq Others
    BY <1>1
  <2>2. IsFiniteSet({u \in N : m \in LikedBy[u]})
    BY <2>1, OthersAssumption, FS_Subset
  <2> QED BY <2>2, FS_CardinalityType
<1> QED BY <1>2 DEF Likes

\* Whatever users are asked, a query scores the movies in natural numbers.
LEMMA ScoringType ==
  ASSUME NEW algo \in Queries, NEW score \in Scorings(algo)
  PROVE  score \in [Movies -> Nat]
<1>1. CASE algo = "COLLABORATIVE"
  BY <1>1, LikesType DEF Scorings
<1>2. CASE algo # "COLLABORATIVE"
  BY <1>2, GraphAssumption DEF Scorings, Queries, Scored
<1> QED BY <1>1, <1>2

LEMMA QueryOrdered ==
  ASSUME NEW algo, NEW list \in Query(algo)
  PROVE  /\ Limit >= 0
         /\ \E score \in Scorings(algo) : \E s \in Ordered(algo, score) :
              list = Cut(Titles(s), Limit)
<1>1. PICK score \in Scorings(algo) : list \in Answers(algo, score)
  BY DEF Query
<1>2. Limit >= 0 /\ \E s \in Ordered(algo, score) : list = Cut(Titles(s), Limit)
  BY <1>1 DEF Answers, Ordered, Titles
<1> QED BY <1>2

\* Every movie of an answer is in the graph and new to the user.
LEMMA QueryProperties ==
  ASSUME GraphOK, NEW algo \in Queries, NEW list \in Query(algo)
  PROVE  /\ list \in Seq(Movies)
         /\ Range(list) \subseteq inGraph \ watched
         /\ Len(list) <= Limit
         /\ list = <<>> => \/ Limit = 0
                          \/ \E score \in Scorings(algo) : Rows(algo, score) = {}
<1>1. Limit >= 0 /\ Limit \in Int
  BY QueryOrdered, LimitType
<1>0. PICK score \in Scorings(algo) :
             \E s \in Ordered(algo, score) : list = Cut(Titles(s), Limit)
  BY QueryOrdered
<1>2. PICK s \in Ordered(algo, score) : list = Cut(Titles(s), Limit)
  BY <1>0
<1>3. Candidates(algo, score) \subseteq inGraph \ watched /\ inGraph \subseteq Movies
  BY DEF Candidates, GraphOK
<1>4. Titles(s) \in Seq(Candidates(algo, score)) /\ list \in Seq(Candidates(algo, score))
  BY <1>1, <1>2, OrderedType, CutProperties
<1>5. list \in Seq(Movies)
  BY <1>3, <1>4, SeqMonotonic
<1>6. Range(list) \subseteq inGraph \ watched
  BY <1>3, <1>4, RangeOfSeq
<1>7. Len(list) <= Limit
  BY <1>1, <1>2, <1>4, CutProperties
<1>8. ASSUME list = <<>>, Limit # 0 PROVE Rows(algo, score) = {}
  <2>1. Titles(s) = <<>>
    <3>1. Cut(Titles(s), Limit) = <<>> => Limit <= 0 \/ Titles(s) = <<>>
      BY ONLY <1>1, <1>4, CutProperties
    <3> QED BY <1>1, <1>2, <1>8, <3>1
  <2>2. Len(Titles(s)) = 0
    BY <2>1
  <2>3. Cardinality(Rows(algo, score)) = 0
    BY <2>2, OrderedType
  <2> QED BY <2>3, RowsFinite, FS_EmptySet
<1> QED BY <1>5, <1>6, <1>7, <1>8

LEMMA OccurrencesType ==
  ASSUME NEW S, NEW list \in Seq(S), NEW m
  PROVE  Occurrences(m, list) \in Nat
<1>1. IsFiniteSet(1..Len(list))
  BY LenProperties, FS_Interval
<1>2. {k \in DOMAIN list : list[k] = m} \subseteq 1..Len(list)
  BY LenProperties
<1> QED BY <1>1, <1>2, FS_Subset, FS_CardinalityType DEF Occurrences

LEMMA OccurrencesOnce ==
  ASSUME NEW S, NEW list \in Seq(S), IsInjective(list), NEW m
  PROVE  Occurrences(m, list) \in Nat /\ Occurrences(m, list) <= 1
<1> DEFINE At == {k \in DOMAIN list : list[k] = m}
<1>1. CASE At = {}
  <2>1. Cardinality(At) = 0
    BY <1>1, FS_EmptySet
  <2> QED BY <2>1 DEF Occurrences
<1>2. CASE At # {}
  <2>1. PICK k \in At : TRUE
    BY <1>2
  <2>2. At = {k}
    BY <2>1 DEF IsInjective
  <2>3. Cardinality(At) = 1
    BY <2>2, FS_Singleton
  <2> QED BY <2>3 DEF Occurrences
<1> QED BY <1>1, <1>2

\* A query other than SERENDIPITY answers a movie once.
LEMMA QueryInjective ==
  ASSUME GraphOK, NEW algo \in Queries \ {"SERENDIPITY"},
         NEW list \in Query(algo)
  PROVE  IsInjective(list)
<1>1. Limit \in Int
  BY LimitType
<1>0. PICK score \in Scorings(algo) :
             \E s \in Ordered(algo, score) : list = Cut(Titles(s), Limit)
  BY QueryOrdered
<1>2. PICK s \in Ordered(algo, score) : list = Cut(Titles(s), Limit)
  BY <1>0
<1>3. /\ s \in Injection(1..Cardinality(Rows(algo, score)), Rows(algo, score))
      /\ Titles(s) \in Seq(Candidates(algo, score))
  BY OrderedType
<1>4. \A row \in Rows(algo, score) : row = <<row[1], None>>
  BY DEF Rows
<1>5. IsInjective(Titles(s))
  BY <1>3, <1>4 DEF Titles, IsInjective, Injection
<1> QED BY <1>1, <1>2, <1>3, <1>5, CutRange

\* SERENDIPITY answers a movie once for each of its genres that is new to the
\* user at most.
LEMMA SerendipityOccurrences ==
  ASSUME GraphOK, NEW list \in Query("SERENDIPITY"), NEW m \in Movies
  PROVE  Occurrences(m, list) <= Cardinality(NewGenres(m))
<1> DEFINE At == {k \in DOMAIN list : list[k] = m}
<1>1. Limit \in Int /\ "SERENDIPITY" \in Queries
  BY LimitType DEF Queries, Scored
<1>0. PICK score \in Scorings("SERENDIPITY") :
             \E s \in Ordered("SERENDIPITY", score) : list = Cut(Titles(s), Limit)
  BY QueryOrdered
<1>2. PICK s \in Ordered("SERENDIPITY", score) : list = Cut(Titles(s), Limit)
  BY <1>0
<1> DEFINE N == Cardinality(Rows("SERENDIPITY", score))
<1>3. /\ N \in Nat /\ s \in Injection(1..N, Rows("SERENDIPITY", score))
      /\ DOMAIN s = 1..N /\ Titles(s) \in Seq(Candidates("SERENDIPITY", score))
      /\ Len(Titles(s)) = N
  BY <1>1, OrderedType
<1>4. \A row \in Rows("SERENDIPITY", score) :
        row = <<row[1], row[2]>> /\ row[2] \in NewGenres(row[1])
  BY DEF Rows
<1>5. /\ list \in Seq(Candidates("SERENDIPITY", score)) /\ Len(list) <= N
      /\ \A k \in 1..Len(list) : list[k] = Titles(s)[k]
  BY <1>1, <1>2, <1>3, CutProperties
<1>6. \A k \in DOMAIN list : k \in 1..N /\ list[k] = s[k][1]
  BY <1>3, <1>5 DEF Titles
<1>7. [k \in At |-> s[k][2]] \in Injection(At, NewGenres(m))
  <2>1. \A k \in At : k \in 1..N /\ s[k] \in Rows("SERENDIPITY", score) /\ s[k][1] = m
    BY <1>3, <1>6 DEF Injection
  <2>2. \A k \in At : s[k] = <<m, s[k][2]>> /\ s[k][2] \in NewGenres(m)
    BY <1>4, <2>1
  <2>3. \A j, k \in At : s[j] = s[k] => j = k
    BY <1>3, <2>1 DEF Injection, IsInjective
  <2> HIDE DEF At
  <2>4. \A j, k \in At : s[j][2] = s[k][2] => j = k
    BY <2>2, <2>3
  <2> QED BY <2>2, <2>4 DEF Injection, IsInjective
<1>8. IsFiniteSet(NewGenres(m))
  BY GraphAssumption, FS_Subset DEF NewGenres
<1>9. Cardinality(At) <= Cardinality(NewGenres(m))
  <2> HIDE DEF At
  <2> QED BY <1>7, <1>8, FS_Injection
<1> QED BY <1>9 DEF Occurrences

-----------------------------------------------------------------------------
(* A query that the graph determines has one answer *)

\* Place for place, two orders of the same rows show the same scores.  If the
\* k-th of s scored more than the k-th of t, the first k rows of s would all be
\* among the first k - 1 of t.
LEMMA ScoresByPlace ==
  ASSUME GraphOK, NEW algo \in Queries, NEW score \in Scorings(algo),
         NEW s \in Ordered(algo, score), NEW t \in Ordered(algo, score),
         NEW k \in 1..Cardinality(Rows(algo, score))
  PROVE  score[s[k][1]] <= score[t[k][1]]
<1> DEFINE N == Cardinality(Rows(algo, score))
           R == Rows(algo, score)
           value(row) == score[row[1]]
<1>1. N \in Nat /\ IsFiniteSet(R)
  BY RowsFinite, FS_CardinalityType
<1>2. /\ s \in Injection(1..N, R) /\ t \in Injection(1..N, R)
      /\ DOMAIN s = 1..N /\ DOMAIN t = 1..N
  BY OrderedType
<1>3. \A row \in R : value(row) \in Nat
  BY RowsFinite, ScoringType DEF Candidates, GraphOK
<1>4. /\ \A i, j \in 1..N : i < j => value(s[i]) >= value(s[j])
      /\ \A i, j \in 1..N : i < j => value(t[i]) >= value(t[j])
  BY <1>2 DEF Ordered, Descending
<1>5. \A row \in R : \E j \in 1..N : t[j] = row
  <2>1. Cardinality(1..N) = N
    BY <1>1, FS_Interval
  <2>2. t \in Surjection(1..N, R)
    <3>1. N = Cardinality(R)
      OBVIOUS
    <3> HIDE DEF R, N
    <3>2. Cardinality(1..N) = Cardinality(R) <=> t \in Surjection(1..N, R)
      BY <1>1, <1>2, FS_Injection
    <3> QED BY <2>1, <3>1, <3>2
  <2> QED BY <2>2 DEF Surjection
<1>6. \A i \in 1..N : s[i] \in R /\ t[i] \in R
  BY <1>2 DEF Injection
<1> HIDE DEF N, R
<1>7. k \in 1..N
  BY DEF N
<1>8. SUFFICES ASSUME value(s[k]) > value(t[k]) PROVE FALSE
  BY <1>3, <1>6, <1>7
<1> DEFINE f == [i \in 1..k |-> CHOOSE j \in 1..N : t[j] = s[i]]
<1>9. \A i \in 1..k : i \in 1..N
  BY <1>1, <1>7
<1>10. \A i \in 1..k : f[i] \in 1..N /\ t[f[i]] = s[i]
  BY <1>5, <1>6, <1>9
<1>11. \A i \in 1..k : value(s[i]) >= value(s[k])
  BY <1>1, <1>3, <1>4, <1>6, <1>7, <1>9
<1>12. \A i \in 1..k : f[i] \in 1..(k - 1)
  <2> SUFFICES ASSUME NEW i \in 1..k, f[i] >= k PROVE FALSE
    BY <1>1, <1>7, <1>10
  <2>1. f[i] \in 1..N /\ value(t[f[i]]) = value(s[i])
    BY <1>10
  <2>2. value(t[k]) >= value(t[f[i]])
    <3> HIDE DEF f
    <3> QED BY <1>1, <1>3, <1>4, <1>6, <1>7, <2>1
  <2>3. value(s[i]) \in Nat /\ value(s[k]) \in Nat /\ value(t[k]) \in Nat
    BY <1>3, <1>6, <1>7, <1>9
  <2> HIDE DEF f, value
  <2> QED BY <1>8, <1>11, <2>1, <2>2, <2>3
<1>13. f \in [1..k -> 1..(k - 1)]
  BY <1>12
<1>14. /\ IsFiniteSet(1..k) /\ IsFiniteSet(1..(k - 1))
       /\ Cardinality(1..(k - 1)) < Cardinality(1..k)
  <2>1. k \in Int /\ k - 1 \in Int /\ k >= 1
    BY <1>1, <1>7
  <2>2. /\ IsFiniteSet(1..k) /\ IsFiniteSet(1..(k - 1))
        /\ Cardinality(1..k) = IF 1 > k THEN 0 ELSE k - 1 + 1
        /\ Cardinality(1..(k - 1)) = IF 1 > k - 1 THEN 0 ELSE k - 1 - 1 + 1
    BY <2>1, FS_Interval
  <2> QED BY <2>1, <2>2
<1>15. PICK x \in 1..k, y \in 1..k : x # y /\ f[x] = f[y]
  <2> HIDE DEF f
  <2> QED BY <1>13, <1>14, FS_PigeonHole
<1>16. s[x] = s[y]
  BY <1>10, <1>15
<1> QED BY <1>2, <1>9, <1>15, <1>16 DEF Injection, IsInjective

LEMMA QueryUnique ==
  ASSUME GraphOK, NEW algo \in Queries, Determined(algo),
         NEW one \in Query(algo), NEW other \in Query(algo)
  PROVE  one = other
<1>0. PICK score \in Scorings(algo) :
             \E s \in Ordered(algo, score) : one = Cut(Titles(s), Limit)
  BY QueryOrdered
<1>1. PICK s \in Ordered(algo, score) : one = Cut(Titles(s), Limit)
  BY <1>0
<1>2. PICK t \in Ordered(algo, score) : other = Cut(Titles(t), Limit)
  BY QueryOrdered DEF Determined
<1> DEFINE N == Cardinality(Rows(algo, score))
<1>3. /\ s \in Injection(1..N, Rows(algo, score)) /\ t \in Injection(1..N, Rows(algo, score))
      /\ DOMAIN s = 1..N /\ DOMAIN t = 1..N
  BY OrderedType
<1>4. \A k \in 1..N : s[k][1] = t[k][1]
  <2> TAKE k \in 1..N
  <2>1. s[k][1] \in Candidates(algo, score) /\ t[k][1] \in Candidates(algo, score)
    BY <1>3, RowsFinite DEF Injection
  <2>2. s[k][1] \in Movies /\ t[k][1] \in Movies
    BY <2>1 DEF Candidates, GraphOK
  <2>3. /\ score[s[k][1]] <= score[t[k][1]]
        /\ score[t[k][1]] <= score[s[k][1]]
    BY ScoresByPlace
  <2>4. score[s[k][1]] \in Nat /\ score[t[k][1]] \in Nat
    BY <2>2, ScoringType
  <2>5. score[s[k][1]] = score[t[k][1]]
    BY <2>3, <2>4
  <2> QED BY <2>1, <2>5 DEF Determined
<1>5. Titles(s) = Titles(t)
  BY <1>3, <1>4 DEF Titles
<1> QED BY <1>1, <1>2, <1>5

-----------------------------------------------------------------------------
(* FindHybrid *)

\* The list after k rounds of Merge's loop over second.
Round(f, k, first, second) ==
  IF k = 0 THEN first
  ELSE IF second[k] \in Range(f[k - 1]) \/ Len(f[k - 1]) >= Limit
       THEN f[k - 1] ELSE Append(f[k - 1], second[k])

\* The loop is well defined.
LEMMA MergeLoop ==
  ASSUME NEW first, NEW second, Len(second) \in Nat
  PROVE  \E f : f = [k \in 0..Len(second) |-> Round(f, k, first, second)]
<1> DEFINE T == {n \in 0..Len(second) :
                   \E f : f = [k \in 0..n |-> Round(f, k, first, second)]}
<1>1. 0 \in T
  <2> DEFINE g == [k \in 0..0 |-> first]
  <2>1. g = [k \in 0..0 |-> Round(g, k, first, second)]
    BY DEF Round
  <2> HIDE DEF g
  <2> QED BY <2>1
<1>2. ASSUME NEW n \in 1..Len(second), n - 1 \in T PROVE n \in T
  <2>1. PICK f : f = [k \in 0..(n - 1) |-> Round(f, k, first, second)]
    BY <1>2
  <2> DEFINE g == [k \in 0..n |->
                     IF k < n THEN f[k] ELSE Round(f, n, first, second)]
  <2>2. \A k \in 0..n : g[k] = Round(g, k, first, second)
    <3>1. \A k \in 0..(n - 1) : g[k] = f[k]
      OBVIOUS
    <3>2. \A k \in 0..n : k # 0 => g[k - 1] = f[k - 1]
      OBVIOUS
    <3>3. \A k \in 0..n : Round(g, k, first, second) = Round(f, k, first, second)
      <4> HIDE DEF g
      <4> QED BY <3>2 DEF Round
    <3>4. \A k \in 0..n : g[k] = Round(f, k, first, second)
      <4>1. \A k \in 0..(n - 1) : f[k] = Round(f, k, first, second)
        BY <2>1
      <4>2. g[n] = Round(f, n, first, second)
        OBVIOUS
      <4> HIDE DEF g
      <4> QED BY <3>1, <4>1, <4>2
    <3> QED BY <3>3, <3>4
  <2>3. g = [k \in 0..n |-> Round(g, k, first, second)]
    <3>1. g = [k \in 0..n |-> g[k]]
      OBVIOUS
    <3> HIDE DEF g
    <3> QED BY <2>2, <3>1
  <2>4. n \in 0..Len(second)
    OBVIOUS
  <2> HIDE DEF g
  <2> QED BY <2>3, <2>4
<1>3. Len(second) \in T
  <2> HIDE DEF T
  <2>1. 0..Len(second) \subseteq T
    BY <1>1, <1>2, EveryPrefix
  <2> QED BY <2>1
<1> QED BY <1>3

LEMMA MergeRound ==
  ASSUME NEW content, NEW collab,
         NEW second, second = Cut(collab, Limit - ContentCount),
         Len(second) \in Nat
  PROVE  \E f : /\ f = [k \in 0..Len(second) |->
                          Round(f, k, Cut(content, ContentCount), second)]
               /\ Merge(content, collab) = f[Len(second)]
<1> DEFINE first == Cut(content, ContentCount)
           F == CHOOSE f : f = [k \in 0..Len(second) |->
                                  Round(f, k, first, second)]
<1>1. F = [k \in 0..Len(second) |-> Round(F, k, first, second)]
  BY MergeLoop
<1>2. Merge(content, collab) = F[Len(second)]
  BY DEF Merge, Round
<1> QED BY <1>1, <1>2

LEMMA AppendInjective1 ==
  ASSUME NEW S, NEW list \in Seq(S), NEW e \in S,
         IsInjective(list), e \notin Range(list)
  PROVE  IsInjective(Append(list, e))
<1>1. /\ Len(list) \in Nat /\ DOMAIN list = 1..Len(list)
      /\ DOMAIN Append(list, e) = 1..(Len(list) + 1)
      /\ \A k \in 1..Len(list) : Append(list, e)[k] = list[k]
      /\ Append(list, e)[Len(list) + 1] = e
  BY AppendProperties, LenProperties
<1>2. \A k \in 1..Len(list) : list[k] # e
  BY <1>1 DEF Range
<1> QED BY <1>1, <1>2 DEF IsInjective

\* A hybrid holds what its two halves hold, each movie once, to the limit.
LEMMA MergeProperties ==
  ASSUME NEW S, NEW content \in Seq(S), NEW collab \in Seq(S)
  PROVE  /\ Merge(content, collab) \in Seq(S)
         /\ IsInjective(content) => IsInjective(Merge(content, collab))
         /\ Len(content) <= Limit => Len(Merge(content, collab)) <= Limit
<1> DEFINE first == Cut(content, ContentCount)
           second == Cut(collab, Limit - ContentCount)
           Good(list) == /\ list \in Seq(S)
                         /\ IsInjective(content) => IsInjective(list)
                         /\ Len(content) <= Limit => Len(list) <= Limit
<1>1. Limit \in Int /\ ContentCount \in Int /\ Limit - ContentCount \in Int
  BY LimitType
<1>2. Good(first)
  <2>1. first \in Seq(S) /\ Len(first) <= Len(content)
    BY <1>1, CutProperties
  <2>2. IsInjective(content) => IsInjective(first)
    BY <1>1, CutRange
  <2>3. Len(content) <= Limit => Len(first) <= Limit
    BY ONLY <1>1, <2>1, content \in Seq(S)
  <2> QED BY <2>1, <2>2, <2>3
<1>3. second \in Seq(S) /\ Len(second) \in Nat
  BY <1>1, CutProperties, LenProperties
<1>4. PICK f : /\ f = [k \in 0..Len(second) |-> Round(f, k, first, second)]
               /\ Merge(content, collab) = f[Len(second)]
  BY <1>3, MergeRound
<1> HIDE DEF first, second
<1> DEFINE T == {k \in 0..Len(second) : Good(f[k])}
<1>5. f[0] = first /\ 0 \in T
  BY <1>2, <1>3, <1>4 DEF Round
<1>6. ASSUME NEW k \in 1..Len(second), k - 1 \in T PROVE k \in T
  <2>1. f[k] = Round(f, k, first, second) /\ second[k] \in S
    <3>1. k \in 0..Len(second)
      BY <1>3
    <3>2. second[k] \in S
      BY <1>3, ElementOfSeq
    <3> QED BY <1>4, <3>1, <3>2
  <2>2. Good(f[k - 1]) /\ Len(f[k - 1]) \in Nat
    BY <1>6
  <2>3. CASE second[k] \in Range(f[k - 1]) \/ Len(f[k - 1]) >= Limit
    BY <2>1, <2>2, <2>3 DEF Round
  <2>4. CASE second[k] \notin Range(f[k - 1]) /\ ~(Len(f[k - 1]) >= Limit)
    <3>1. f[k] = Append(f[k - 1], second[k])
      BY <2>1, <2>4 DEF Round
    <3>2. Len(f[k - 1]) + 1 <= Limit
      BY <1>1, <2>2, <2>4
    <3>3. /\ f[k] \in Seq(S) /\ Len(f[k]) = Len(f[k - 1]) + 1
      BY <2>1, <2>2, <3>1, AppendProperties
    <3>4. IsInjective(content) => IsInjective(f[k])
      BY <2>1, <2>2, <2>4, <3>1, AppendInjective1
    <3> QED BY <3>2, <3>3, <3>4
  <2> QED BY <2>3, <2>4
<1>7. Len(second) \in T
  <2> HIDE DEF T
  <2>1. 0..Len(second) \subseteq T
    BY <1>3, <1>5, <1>6, EveryPrefix
  <2> QED BY <1>3, <2>1
<1> QED BY <1>4, <1>7

-----------------------------------------------------------------------------
(* Pages *)

LEMMA PageLimitType == PageLimit \in Nat /\ PageLimit > 0
<1>1. PageLimit \in 1..50
  BY LimitAssumption
<1> QED BY ONLY <1>1

LEMMA PageProperties ==
  ASSUME NEW list \in Seq(Movies), NEW asked \in Nat
  PROVE  LET page == Page(list, asked)
         IN /\ page \in Response
            /\ page.offset <= page.end /\ page.end <= page.total
            /\ page.total = Len(list)
            /\ asked <= Len(list) => page.offset = asked
            /\ page.data = SubSeq(list, page.offset + 1, page.end)
            /\ Len(page.data) = page.end - page.offset
            /\ Len(page.data) <= PageLimit
            /\ page.next # None =>
                 /\ page.next = page.end /\ page.end < Len(list)
                 /\ page.end = page.offset + PageLimit
            /\ page.next = None => page.end = Len(list)
            /\ page.prev # None =>
                 /\ page.offset > 0
                 /\ page.prev = IF page.offset > PageLimit
                                THEN page.offset - PageLimit ELSE 0
<1> DEFINE total == Len(list)
           offset == Offset(asked, total)
           end == Least(offset + PageLimit, total)
           data == SubSeq(list, offset + 1, end)
<1>1. PageLimit \in Nat /\ PageLimit > 0 /\ None \notin Nat
  BY PageLimitType, OverrideAssumption
<1>2. total \in Nat
  OBVIOUS
<1> HIDE DEF total
<1>3. /\ offset \in Nat /\ offset <= total
      /\ asked <= total => offset = asked
  BY <1>2 DEF Offset, Least
<1> HIDE DEF offset
<1>4. /\ end \in Nat /\ offset <= end /\ end <= total
      /\ end <= offset + PageLimit
      /\ end < total => end = offset + PageLimit
  BY <1>1, <1>2, <1>3 DEF Least
<1> HIDE DEF end
<1>5. \A i \in (offset + 1)..end : list[i] \in Movies
  BY <1>2, <1>3, <1>4, ElementOfSeq DEF total
<1>6. data \in Seq(Movies) /\ Len(data) = end - offset
  BY <1>3, <1>4, <1>5, SubSeqProperties
<1>7. /\ NextOffset(end, total) \in Nat \cup {None}
      /\ NextOffset(end, total) # None =>
           NextOffset(end, total) = end /\ end < total
      /\ NextOffset(end, total) = None => end = total
  BY <1>1, <1>2, <1>4 DEF NextOffset
<1>8. /\ PrevOffset(offset) \in Nat \cup {None}
      /\ PrevOffset(offset) # None =>
           /\ offset > 0
           /\ PrevOffset(offset) =
                IF offset > PageLimit THEN offset - PageLimit ELSE 0
  BY <1>1, <1>3 DEF PrevOffset
<1>9. Page(list, asked) = [offset |-> offset, end |-> end, total |-> total,
                           data |-> data, next |-> NextOffset(end, total),
                           prev |-> PrevOffset(offset)]
  BY DEF Page, total, offset, end
<1> HIDE DEF data
<1>10. Page(list, asked) \in Response
  BY <1>2, <1>3, <1>4, <1>6, <1>7, <1>8, <1>9 DEF Response
<1>11. data = SubSeq(list, offset + 1, end) /\ total = Len(list)
  BY DEF data, total
<1> QED BY <1>1, <1>2, <1>3, <1>4, <1>6, <1>7, <1>8, <1>9, <1>10, <1>11

\* Pages that follow one another through a list.
Begins(pages, k) == IF k = 1 THEN 0 ELSE pages[k - 1].end
Chain(pages, list) ==
  /\ \A k \in DOMAIN pages : pages[k] = Page(list, Begins(pages, k))
  /\ \A k \in DOMAIN pages : k < Len(pages) => pages[k].next # None

LEMMA ChainProperties ==
  ASSUME NEW list \in Seq(Movies), NEW pages \in Seq(Response),
         Chain(pages, list), NEW k \in 1..Len(pages)
  PROVE  /\ Begins(pages, k) \in Nat
         /\ pages[k] = Page(list, Begins(pages, k))
         /\ pages[k].offset = Begins(pages, k)
         /\ pages[k].end \in Nat
         /\ pages[k].offset <= pages[k].end /\ pages[k].end <= Len(list)
         /\ pages[k].data = SubSeq(list, Begins(pages, k) + 1, pages[k].end)
<1>1. DOMAIN pages = 1..Len(pages) /\ Len(pages) \in Nat /\ Len(list) \in Nat
  BY LenProperties
<1>2. \A j \in 1..Len(pages) : pages[j].end \in Nat
  <2>1. \A j \in 1..Len(pages) : pages[j] \in Response
    BY ElementOfSeq
  <2> QED BY <2>1 DEF Response
<1>3. \A j \in 1..Len(pages) : Begins(pages, j) \in Nat
  BY <1>1, <1>2 DEF Begins
<1>4. \A j \in 1..Len(pages) : pages[j] = Page(list, Begins(pages, j))
  BY <1>1 DEF Chain
<1>5. \A j \in 1..Len(pages) : pages[j].end <= Len(list)
  BY <1>3, <1>4, PageProperties
<1>6. Begins(pages, k) <= Len(list)
  BY <1>1, <1>5 DEF Begins
<1>7. pages[k].offset = Begins(pages, k)
  BY <1>3, <1>4, <1>6, PageProperties
<1>8. /\ pages[k].offset <= pages[k].end
      /\ pages[k].data = SubSeq(list, pages[k].offset + 1, pages[k].end)
  BY <1>3, <1>4, PageProperties
<1> QED BY <1>2, <1>3, <1>4, <1>5, <1>7, <1>8

\* Pages that follow one another show the list up to the end of the last.
LEMMA FlattenChain ==
  ASSUME NEW list \in Seq(Movies), NEW pages \in Seq(Response),
         Chain(pages, list), pages # <<>>
  PROVE  FlattenSeq([k \in DOMAIN pages |-> pages[k].data])
           = SubSeq(list, 1, Last(pages).end)
<1> DEFINE n == Len(pages)
           seqs == [k \in DOMAIN pages |-> pages[k].data]
           Is(f) == f = [k \in 1..n |-> IF k = 1 THEN seqs[k]
                                        ELSE f[k - 1] \o seqs[k]]
           g == [k \in 1..n |-> SubSeq(list, 1, pages[k].end)]
           F == CHOOSE f : f = [k \in 1..n |-> IF k = 1 THEN seqs[k]
                                               ELSE f[k - 1] \o seqs[k]]
<1>1. n \in Nat /\ n >= 1 /\ DOMAIN pages = 1..n /\ Len(seqs) = n
  BY LenProperties, EmptySeq
<1>2. \A k \in 1..n : g[k] = IF k = 1 THEN seqs[k] ELSE g[k - 1] \o seqs[k]
  <2> TAKE k \in 1..n
  <2>1. seqs[k] = SubSeq(list, Begins(pages, k) + 1, pages[k].end)
    BY <1>1, ChainProperties
  <2>2. CASE k = 1
    <3>1. Begins(pages, k) + 1 = 1
      BY <2>2 DEF Begins
    <3>2. seqs[k] = SubSeq(list, 1, pages[k].end)
      BY <2>1, <3>1
    <3> HIDE DEF seqs
    <3> QED BY <2>2, <3>2
  <2>3. CASE k # 1
    <3>1. k - 1 \in 1..n
      BY <1>1, <2>3
    <3>2. /\ pages[k - 1].end \in Nat /\ pages[k - 1].end <= Len(list)
          /\ pages[k].end \in Nat /\ pages[k].end <= Len(list)
          /\ pages[k - 1].end <= pages[k].end
      BY <2>3, <3>1, ChainProperties DEF Begins
    <3>3. SubSeq(list, 1, pages[k - 1].end)
            \o SubSeq(list, pages[k - 1].end + 1, pages[k].end)
            = SubSeq(list, 1, pages[k].end)
      <4>1. /\ 1 \in 1..(Len(list) + 1)
            /\ pages[k - 1].end \in (1 - 1)..Len(list)
            /\ pages[k].end \in pages[k - 1].end..Len(list)
        BY <3>2, LenProperties
      <4> QED BY <4>1, ConcatAdjacentSubSeq
    <3>4. seqs[k] = SubSeq(list, pages[k - 1].end + 1, pages[k].end)
      BY <2>1, <2>3 DEF Begins
    <3> HIDE DEF seqs
    <3> QED BY <2>3, <3>1, <3>3, <3>4
  <2> QED BY <2>2, <2>3
<1> HIDE DEF seqs
<1>3. Is(g)
  <2>1. g = [k \in 1..n |-> g[k]]
    OBVIOUS
  <2> HIDE DEF g
  <2> QED BY <1>2, <2>1
<1>4. F = [k \in 1..n |-> IF k = 1 THEN seqs[k] ELSE F[k - 1] \o seqs[k]]
  <2> HIDE DEF g
  <2> QED BY <1>3
<1>5. FlattenSeq(seqs) = F[n]
  BY <1>1 DEF FlattenSeq
<1> HIDE DEF F
<1> DEFINE T == {k \in 0..n : k = 0 \/ F[k] = g[k]}
<1>6. 0 \in T
  BY <1>1
<1>7. ASSUME NEW k \in 1..n, k - 1 \in T PROVE k \in T
  <2>1. F[k] = IF k = 1 THEN seqs[k] ELSE F[k - 1] \o seqs[k]
    BY <1>4
  <2> HIDE DEF g
  <2> QED BY <1>1, <1>2, <1>7, <2>1
<1>8. F[n] = g[n]
  <2> HIDE DEF T, g
  <2>1. 0..n \subseteq T
    BY <1>1, <1>6, <1>7, EveryPrefix
  <2>2. n \in T
    BY <1>1, <2>1
  <2> QED BY <1>1, <2>2 DEF T
<1>9. g[n] = SubSeq(list, 1, Last(pages).end)
  <2>1. n \in 1..n /\ Last(pages) = pages[n]
    BY <1>1 DEF Last
  <2> QED BY <2>1
<1> QED BY <1>5, <1>8, <1>9 DEF seqs

-----------------------------------------------------------------------------
(* Types and slices *)

\* The algorithm a request has been dispatched with.
Dispatched ==
  /\ req.pc = "query" => req.algo \in Queries
  /\ req.pc \in {"content", "collab"} => req.algo = "HYBRID"

\* SlicesInBounds of a sequence of pages.
Sliced(pages) ==
  \A k \in DOMAIN pages :
    LET page == pages[k]
    IN /\ page.offset <= page.end /\ page.end <= page.total
       /\ Len(page.data) = page.end - page.offset
       /\ Len(page.data) <= PageLimit
       /\ page.next # None => page.end > page.offset

\* The pages a request will join its answer to are in bounds too.
TInv == TypeOK /\ Dispatched /\ Sliced(Held) /\ Sliced(req.kept)

LEMMA SelectType ==
  ASSUME count \in Nat
  PROVE  Select(count) \in {"POPULAR", "CONTENT_BASED", "COLLABORATIVE"}
BY LimitAssumption DEF Select

LEMMA NoRequestType ==
  NoRequest \in Requests /\ NoRequest.pc = "idle" /\ NoRequest.kept = <<>>
BY EmptySeq DEF NoRequest, Requests

LEMMA PageSliced ==
  ASSUME NEW list \in Seq(Movies), NEW asked \in Nat,
         NEW kept \in Seq(Response), Sliced(kept)
  PROVE  /\ Append(kept, Page(list, asked)) \in Seq(Response)
         /\ Sliced(Append(kept, Page(list, asked)))
<1> DEFINE page == Page(list, asked)
<1>1. /\ page \in Response
      /\ page.offset <= page.end /\ page.end <= page.total
      /\ Len(page.data) = page.end - page.offset
      /\ Len(page.data) <= PageLimit
      /\ page.next # None => page.end = page.offset + PageLimit
  BY PageProperties
<1>2. page.next # None => page.end > page.offset
  <2>1. page.offset \in Nat
    BY <1>1 DEF Response
  <2>2. PageLimit \in Nat /\ PageLimit > 0
    BY PageLimitType
  <2> HIDE DEF page
  <2> QED BY <1>1, <2>1, <2>2
<1> HIDE DEF page
<1>3. /\ Append(kept, page) \in Seq(Response)
      /\ DOMAIN Append(kept, page) = 1..(Len(kept) + 1)
      /\ DOMAIN kept = 1..Len(kept) /\ Len(kept) \in Nat
      /\ \A k \in 1..Len(kept) : Append(kept, page)[k] = kept[k]
      /\ Append(kept, page)[Len(kept) + 1] = page
  BY <1>1, AppendProperties, LenProperties
<1>4. \A k \in 1..(Len(kept) + 1) : k \in 1..Len(kept) \/ k = Len(kept) + 1
  BY <1>3
<1>5. Sliced(Append(kept, page))
  BY <1>1, <1>2, <1>3, <1>4 DEF Sliced
<1> QED BY <1>3, <1>5 DEF page

LEMMA NoWalkType ==
  /\ NoWalk \in [override : Override \cup {None}, pages : Seq(Response),
                 list : Seq(Movies)]
  /\ NoWalk.pages = <<>>
<1>1. <<>> \in Seq(Response) /\ <<>> \in Seq(Movies)
  BY EmptySeq
<1> QED BY <1>1 DEF NoWalk

\* What Resolve leaves, whatever list it is given.
LEMMA ResolveType ==
  ASSUME TInv, NEW list \in Seq(Movies), Resolve(list)
  PROVE  /\ req' \in Requests /\ req'.kept = req.kept
         /\ req'.pc \in {"query", "respond"}
         /\ req'.pc = "query" => req'.algo = "POPULAR"
BY DEF TInv, TypeOK, Requests, Resolve, Dispatch, Queries, Scored

LEMMA TInvInit == Init => TInv
<1> SUFFICES ASSUME Init PROVE TInv
  OBVIOUS
<1>1. req \in Requests /\ req.pc = "idle" /\ req.kept = <<>>
  BY NoRequestType DEF Init
<1>2. walk = NoWalk
  BY DEF Init
<1>3. TypeOK
  BY <1>1, <1>2, NoWalkType DEF Init, TypeOK
<1> QED BY <1>1, <1>2, <1>3, NoWalkType DEF TInv, Dispatched, Sliced, Held

LEMMA TInvStep == TInv /\ [Next]_vars => TInv'
<1> SUFFICES ASSUME TInv, [Next]_vars PROVE TInv'
  OBVIOUS
<1> USE DEF Held
<1>1. ASSUME NEW override \in Override, FirstPage(override) PROVE TInv'
  <2>1. req' \in Requests /\ req'.pc = "user" /\ req'.kept = <<>>
    BY <1>1, EmptySeq DEF FirstPage, Request, NoRequest, Requests, TInv, TypeOK
  <2>2. walk' = NoWalk
    BY <1>1 DEF FirstPage
  <2>3. TypeOK'
    BY <1>1, <2>1, <2>2, NoWalkType DEF FirstPage, TInv, TypeOK
  <2> QED BY <2>1, <2>2, <2>3, NoWalkType DEF TInv, Dispatched, Sliced
<1>2. CASE NextPage
  <2>1. walk.pages \in Seq(Response) /\ walk.pages # <<>>
    BY <1>2 DEF NextPage, TInv, TypeOK
  <2>2. Last(walk.pages) \in Response
    BY <2>1, EmptySeq, ElementOfSeq DEF Last
  <2>3. Last(walk.pages).next \in Nat
    BY <1>2, <2>2 DEF NextPage, Response
  <2>4. /\ req' \in Requests /\ req'.pc = "user"
        /\ req'.kept = walk.pages
    BY <1>2, <2>1, <2>3, EmptySeq
       DEF NextPage, Request, NoRequest, Requests, TInv, TypeOK
  <2>5. TypeOK'
    BY <1>2, <2>4 DEF NextPage, TInv, TypeOK
  <2> QED BY <1>2, <2>4, <2>5 DEF NextPage, TInv, Dispatched, Sliced
<1>3. CASE PrevPage
  <2> DEFINE kept == SubSeq(walk.pages, 1, Len(walk.pages) - 2)
  <2>1. /\ walk.pages \in Seq(Response) /\ Len(walk.pages) > 1
        /\ Len(walk.pages) \in Nat /\ DOMAIN walk.pages = 1..Len(walk.pages)
    BY <1>3, LenProperties DEF PrevPage, TInv, TypeOK
  <2>2. Last(walk.pages) \in Response
    BY <2>1, ElementOfSeq DEF Last
  <2>3. Last(walk.pages).prev \in Nat
    BY <1>3, <2>2 DEF PrevPage, Response
  <2>4. /\ kept \in Seq(Response) /\ Len(kept) = Len(walk.pages) - 2
        /\ \A k \in 1..Len(kept) : kept[k] = walk.pages[k]
    <3>1. \A k \in 1..(Len(walk.pages) - 2) : walk.pages[k] \in Response
      BY <2>1, ElementOfSeq
    <3>2. 1 \in Int /\ Len(walk.pages) - 2 \in Int
      BY <2>1
    <3>3. /\ kept \in Seq(Response)
          /\ Len(kept) = IF 1 <= Len(walk.pages) - 2
                         THEN Len(walk.pages) - 2 - 1 + 1 ELSE 0
          /\ \A k \in 1..(Len(walk.pages) - 2 - 1 + 1) :
               kept[k] = walk.pages[1 + k - 1]
      BY ONLY <3>1, <3>2, SubSeqProperties
    <3> QED BY <2>1, <3>3
  <2> HIDE DEF kept
  <2>5. req' \in Requests /\ req'.pc = "user" /\ req'.kept = kept
    BY <1>3, <2>3, <2>4, EmptySeq
       DEF PrevPage, Request, NoRequest, Requests, TInv, TypeOK, kept
  <2>6. TypeOK'
    BY <1>3, <2>5 DEF PrevPage, TInv, TypeOK
  <2>7. Sliced(kept)
    <3>1. DOMAIN kept = 1..Len(kept)
      BY <2>4
    <3>2. \A k \in DOMAIN kept :
            k \in DOMAIN walk.pages /\ kept[k] = walk.pages[k]
      BY <2>1, <2>4, <3>1
    <3> QED BY <3>2 DEF TInv, Sliced
  <2> QED BY <1>3, <2>5, <2>6, <2>7 DEF PrevPage, TInv, Dispatched, Sliced
<1>4. CASE FindUser
  <2> DEFINE algo == IF req.override = None THEN Select(count) ELSE req.override
  <2>1. algo \in Queries \cup {"HYBRID"}
    BY SelectType, OverrideAssumption
       DEF TInv, TypeOK, Requests, Queries, Scored
  <2>2. req' = [req EXCEPT !.algo = algo,
                           !.pc = IF algo = "HYBRID" THEN "content" ELSE "query"]
    BY <1>4 DEF FindUser, Dispatch
  <2> HIDE DEF algo
  <2>3. /\ req' \in Requests /\ req'.kept = req.kept /\ req'.algo = algo
        /\ req'.pc = IF algo = "HYBRID" THEN "content" ELSE "query"
    BY <2>1, <2>2 DEF TInv, TypeOK, Requests
  <2>4. TypeOK'
    BY <1>4, <2>3 DEF FindUser, TInv, TypeOK
  <2> QED BY <1>4, <2>1, <2>3, <2>4 DEF FindUser, TInv, Dispatched, Sliced
<1>5. CASE Find
  <2>1. req.algo \in Queries /\ GraphOK
    BY <1>5 DEF Find, TInv, TypeOK, Dispatched, GraphOK
  <2>2. PICK list \in Query(req.algo) : Resolve(list)
    BY <1>5 DEF Find
  <2>3. list \in Seq(Movies)
    BY <2>1, QueryProperties
  <2>4. /\ req' \in Requests /\ req'.kept = req.kept
        /\ req'.pc \in {"query", "respond"}
        /\ req'.pc = "query" => req'.algo = "POPULAR"
    BY <2>2, <2>3, ResolveType
  <2>5. TypeOK'
    BY <1>5, <2>4 DEF Find, TInv, TypeOK
  <2> QED BY <1>5, <2>4, <2>5 DEF Find, TInv, Dispatched, Sliced, Queries, Scored
<1>6. CASE FindContent
  <2>1. GraphOK /\ "CONTENT_BASED" \in Queries
    BY DEF TInv, TypeOK, GraphOK, Queries, Scored
  <2>2. PICK list \in Query("CONTENT_BASED") :
               req' = [req EXCEPT !.content = list, !.pc = "collab"]
    BY <1>6 DEF FindContent
  <2>3. list \in Seq(Movies)
    BY <2>1, QueryProperties
  <2>4. /\ req' \in Requests /\ req'.kept = req.kept /\ req'.pc = "collab"
        /\ req'.algo = req.algo
    BY <2>2, <2>3 DEF TInv, TypeOK, Requests
  <2>5. TypeOK'
    BY <1>6, <2>4 DEF FindContent, TInv, TypeOK
  <2> QED BY <1>6, <2>4, <2>5 DEF FindContent, TInv, Dispatched, Sliced
<1>7. CASE FindCollab
  <2>1. GraphOK /\ "COLLABORATIVE" \in Queries /\ req.content \in Seq(Movies)
    BY DEF TInv, TypeOK, Requests, GraphOK, Queries, Scored
  <2>2. PICK list \in Query("COLLABORATIVE") : Resolve(Merge(req.content, list))
    BY <1>7 DEF FindCollab
  <2>3. Merge(req.content, list) \in Seq(Movies)
    BY <2>1, QueryProperties, MergeProperties
  <2>4. /\ req' \in Requests /\ req'.kept = req.kept
        /\ req'.pc \in {"query", "respond"}
        /\ req'.pc = "query" => req'.algo = "POPULAR"
    BY <2>2, <2>3, ResolveType
  <2>5. TypeOK'
    BY <1>7, <2>4 DEF FindCollab, TInv, TypeOK
  <2> QED BY <1>7, <2>4, <2>5 DEF FindCollab, TInv, Dispatched, Sliced, Queries, Scored
<1>8. CASE Fail
  <2>1. TypeOK'
    BY <1>8, NoRequestType DEF Fail, TInv, TypeOK
  <2> QED BY <1>8, <2>1, NoRequestType DEF Fail, TInv, Dispatched, Sliced
<1>9. CASE Respond
  <2> DEFINE pages == Append(req.kept, Page(req.list, req.offset))
             list == IF req.kept = <<>> THEN req.list ELSE walk.list
  <2>1. /\ req.kept \in Seq(Response) /\ Sliced(req.kept)
        /\ req.list \in Seq(Movies) /\ req.offset \in Nat
        /\ req.override \in Override \cup {None} /\ list \in Seq(Movies)
    BY DEF TInv, TypeOK, Requests
  <2>2. pages \in Seq(Response) /\ Sliced(pages)
    BY <2>1, PageSliced
  <2>3. walk' = [override |-> req.override, pages |-> pages, list |-> list]
    BY <1>9 DEF Respond
  <2> HIDE DEF pages, list
  <2>4. TypeOK'
    BY <1>9, <2>1, <2>2, <2>3, NoRequestType DEF Respond, TInv, TypeOK
  <2>5. Sliced(walk.pages)'
    BY <2>2, <2>3 DEF Sliced
  <2> QED BY <1>9, <2>4, <2>5, NoRequestType DEF Respond, TInv, Dispatched, Sliced
<1>10. ASSUME NEW m \in Movies, NEW like \in BOOLEAN, Watch(m, like)
       PROVE  TInv'
  <2>1. TypeOK'
    BY <1>10 DEF Watch, TInv, TypeOK
  <2> QED BY <1>10, <2>1 DEF Watch, TInv, Dispatched, Sliced
<1>11. ASSUME NEW m \in Movies, Import(m) PROVE TInv'
  <2>1. TypeOK'
    BY <1>11 DEF Import, TInv, TypeOK
  <2> QED BY <1>11, <2>1 DEF Import, TInv, Dispatched, Sliced
<1>12. CASE UNCHANGED vars
  BY <1>12 DEF vars, TInv, TypeOK, Dispatched, Sliced
<1> QED BY <1>1, <1>2, <1>3, <1>4, <1>5, <1>6, <1>7, <1>8, <1>9, <1>10, <1>11,
           <1>12 DEF Next

LEMMA Typed == Spec => []TInv
BY TInvInit, TInvStep, PTL DEF Spec

\* The types of the request under way and of the pages held.
THEOREM RecommendationsTypeCorrect == Spec => []TypeOK
<1>1. TInv => TypeOK
  BY DEF TInv
<1> QED BY <1>1, Typed, PTL

\* SlicesInBounds, for every limit and whatever a cursor was kept from: the
\* handler's slice never leaves its list and no next page is empty.
THEOREM SlicesStayInBounds == Spec => []SlicesInBounds
<1>1. TInv => SlicesInBounds
  BY DEF TInv, Sliced, SlicesInBounds
<1> QED BY <1>1, Typed, PTL

-----------------------------------------------------------------------------
(* What is recommended *)

\* What a request remembers of its beginning only grows.
Remembered ==
  req.watchedBefore \subseteq watched /\ req.graphBefore \subseteq inGraph

\* The half of a hybrid that waits for the other.
HalfIsNew ==
  req.pc = "collab" =>
    /\ Range(req.content) \subseteq inGraph \ req.watchedBefore
    /\ IsInjective(req.content)
    /\ Len(req.content) <= Limit

RInv == TInv /\ Remembered /\ HalfIsNew /\ RecommendedAreNew

\* What RecommendedAreNew says of a list made by an algorithm.
NewList(list, algo) ==
  /\ Range(list) \subseteq inGraph \ req.watchedBefore
  /\ \A m \in Range(list) : Occurrences(m, list) <=
       IF algo = "SERENDIPITY" THEN Cardinality(NewBefore(m)) ELSE 1
  /\ Len(list) <= Limit
NothingLeft ==
  Limit = 0 \/ \A m \in req.graphBefore \ watched : Score["POPULAR"][m] = 0

\* What is new to the user only becomes less.
LEMMA NewGenresShrink ==
  ASSUME req.watchedBefore \subseteq watched, NEW m \in Movies
  PROVE  /\ Cardinality(NewGenres(m)) \in Nat /\ Cardinality(NewBefore(m)) \in Nat
         /\ Cardinality(NewGenres(m)) <= Cardinality(NewBefore(m))
<1>1. NewGenres(m) \subseteq NewBefore(m) /\ NewBefore(m) \subseteq GenresOf[m]
  BY DEF NewGenres, KnownGenres, NewBefore
<1>2. IsFiniteSet(NewBefore(m))
  BY <1>1, GraphAssumption, FS_Subset
<1> QED BY <1>1, <1>2, FS_Subset, FS_CardinalityType

LEMMA QueryIsNew ==
  ASSUME RInv, NEW algo \in Queries, NEW list \in Query(algo)
  PROVE  /\ NewList(list, algo)
         /\ algo = "POPULAR" /\ list = <<>> => NothingLeft
<1>1. /\ GraphOK /\ req.watchedBefore \subseteq watched
      /\ req.graphBefore \subseteq inGraph
  BY DEF RInv, TInv, TypeOK, GraphOK, Remembered
<1>2. /\ list \in Seq(Movies) /\ Range(list) \subseteq inGraph \ watched
      /\ Len(list) <= Limit
      /\ list = <<>> => \/ Limit = 0
                       \/ \E score \in Scorings(algo) : Rows(algo, score) = {}
  BY <1>1, QueryProperties
<1>3. ASSUME NEW m \in Range(list)
      PROVE  Occurrences(m, list) <=
               IF algo = "SERENDIPITY" THEN Cardinality(NewBefore(m)) ELSE 1
  <2>1. m \in Movies
    BY <1>1, <1>2 DEF GraphOK
  <2>2. CASE algo = "SERENDIPITY"
    <3>1. Occurrences(m, list) <= Cardinality(NewGenres(m))
      BY <1>1, <2>1, <2>2, SerendipityOccurrences
    <3>2. Cardinality(NewGenres(m)) <= Cardinality(NewBefore(m))
      BY <1>1, <2>1, NewGenresShrink
    <3>3. Occurrences(m, list) \in Nat
      BY <1>2, OccurrencesType
    <3> QED BY <2>2, <3>1, <3>2, <3>3, <1>1, <2>1, NewGenresShrink
  <2>3. CASE algo # "SERENDIPITY"
    <3>1. IsInjective(list)
      BY <1>1, <2>3, QueryInjective
    <3> QED BY <1>2, <2>3, <3>1, OccurrencesOnce
  <2> QED BY <2>2, <2>3
<1>4. ASSUME algo = "POPULAR", list = <<>>, Limit # 0,
             NEW m \in req.graphBefore \ watched
      PROVE  Score["POPULAR"][m] = 0
  <2> DEFINE score == Score["POPULAR"]
  <2>1. Scorings(algo) = {score}
    BY <1>4 DEF Scorings
  <2>2. Candidates(algo, score) \X {None} = {}
    BY <1>2, <1>4, <2>1 DEF Rows
  <2>3. m \notin Candidates(algo, score)
    <3>1. m \in Candidates(algo, score)
            => <<m, None>> \in Candidates(algo, score) \X {None}
      OBVIOUS
    <3> QED BY <2>2, <3>1
  <2>4. m \in inGraph \ watched /\ m \in Movies
    BY <1>1, <1>4 DEF GraphOK
  <2>5. ~(score[m] > 0)
    BY <1>4, <2>3, <2>4 DEF Candidates, HasSeed
  <2>6. score[m] \in Nat
    BY <2>4, GraphAssumption DEF Scored
  <2> QED BY <2>5, <2>6
<1>5. Range(list) \subseteq inGraph \ req.watchedBefore
  BY <1>1, <1>2
<1> QED BY <1>2, <1>3, <1>4, <1>5 DEF NewList, NothingLeft

LEMMA MergeIsNew ==
  ASSUME RInv, req.pc = "collab", NEW list \in Query("COLLABORATIVE")
  PROVE  NewList(Merge(req.content, list), "HYBRID")
<1> DEFINE New == inGraph \ req.watchedBefore
           merged == Merge(req.content, list)
<1>1. /\ GraphOK /\ req.watchedBefore \subseteq watched
      /\ "COLLABORATIVE" \in Queries /\ req.content \in Seq(Movies)
  BY DEF RInv, TInv, TypeOK, Requests, GraphOK, Remembered, Queries, Scored
<1>2. list \in Seq(Movies) /\ Range(list) \subseteq inGraph \ watched
  BY <1>1, QueryProperties
<1>3. /\ Range(req.content) \subseteq New /\ IsInjective(req.content)
      /\ Len(req.content) <= Limit
  BY DEF RInv, HalfIsNew
<1>4. Range(list) \subseteq New
  BY <1>1, <1>2
<1> HIDE DEF New
<1>5. list \in Seq(New) /\ req.content \in Seq(New)
  <2>1. list \in Seq(Range(list)) /\ req.content \in Seq(Range(req.content))
    BY <1>1, <1>2, SeqOfRange
  <2> QED BY <1>3, <1>4, <2>1, SeqMonotonic
<1>6. merged \in Seq(New) /\ IsInjective(merged) /\ Len(merged) <= Limit
  BY <1>3, <1>5, MergeProperties
<1>7. Range(merged) \subseteq New
  BY <1>6, RangeOfSeq
<1>8. \A m \in Range(merged) : Occurrences(m, merged) <= 1
  BY <1>6, OccurrencesOnce
<1> QED BY <1>6, <1>7, <1>8 DEF NewList, New

\* A list that is new is resolved to one that is, or to nothing yet.
LEMMA ResolveKeepsRInv ==
  ASSUME RInv, TInv', NEW list \in Seq(Movies), Resolve(list),
         NewList(list, req.algo),
         req.algo = "POPULAR" /\ list = <<>> => NothingLeft,
         UNCHANGED <<inGraph, watched>>
  PROVE  RInv'
<1>1. CASE list = <<>> /\ req.algo # "POPULAR"
  <2>1. req' = [req EXCEPT !.algo = "POPULAR", !.pc = "query"]
    BY <1>1 DEF Resolve, Dispatch
  <2>2. /\ req'.pc = "query" /\ req'.watchedBefore = req.watchedBefore
        /\ req'.graphBefore = req.graphBefore
    BY <2>1 DEF RInv, TInv, TypeOK, Requests
  <2> QED BY <2>2 DEF RInv, Remembered, HalfIsNew, RecommendedAreNew
<1>2. CASE ~(list = <<>> /\ req.algo # "POPULAR")
  <2>1. req' = [req EXCEPT !.list = list, !.pc = "respond"]
    BY <1>2 DEF Resolve
  <2>2. /\ req'.pc = "respond" /\ req'.watchedBefore = req.watchedBefore
        /\ req'.graphBefore = req.graphBefore /\ req'.algo = req.algo
        /\ req'.list = list
    BY <2>1 DEF RInv, TInv, TypeOK, Requests
  <2>3. RecommendedAreNew'
    BY <1>2, <2>2 DEF RecommendedAreNew, NewList, NothingLeft, NewBefore
  <2> QED BY <2>2, <2>3 DEF RInv, Remembered, HalfIsNew
<1> QED BY <1>1, <1>2

LEMMA RInvInit == Init => RInv
<1> SUFFICES ASSUME Init PROVE RInv
  OBVIOUS
<1>1. TInv
  BY TInvInit
<1>2. req = NoRequest
  BY DEF Init
<1> QED BY <1>1, <1>2
        DEF RInv, Remembered, HalfIsNew, RecommendedAreNew, NoRequest

LEMMA RInvStep == RInv /\ [Next]_vars => RInv'
<1> SUFFICES ASSUME RInv, [Next]_vars PROVE RInv'
  OBVIOUS
<1>0. TInv'
  BY TInvStep DEF RInv
<1> USE DEF RInv
<1>1. ASSUME NEW override \in Override, FirstPage(override) PROVE RInv'
  BY <1>0, <1>1 DEF FirstPage, Request, NoRequest, Remembered, HalfIsNew,
                    RecommendedAreNew
<1>2. CASE NextPage
  BY <1>0, <1>2 DEF NextPage, Request, NoRequest, Remembered, HalfIsNew,
                    RecommendedAreNew
<1>3. CASE PrevPage
  BY <1>0, <1>3 DEF PrevPage, Request, NoRequest, Remembered, HalfIsNew,
                    RecommendedAreNew
<1>4. CASE FindUser
  BY <1>0, <1>4 DEF FindUser, Dispatch, TInv, TypeOK, Requests, Remembered,
                    HalfIsNew, RecommendedAreNew
<1>5. CASE Find
  <2>1. req.algo \in Queries /\ GraphOK
    BY <1>5 DEF Find, TInv, TypeOK, Dispatched, GraphOK
  <2>2. PICK list \in Query(req.algo) : Resolve(list)
    BY <1>5 DEF Find
  <2>3. list \in Seq(Movies)
    BY <2>1, QueryProperties
  <2>4. /\ NewList(list, req.algo)
        /\ req.algo = "POPULAR" /\ list = <<>> => NothingLeft
    BY <2>1, QueryIsNew
  <2>5. UNCHANGED <<inGraph, watched>>
    BY <1>5 DEF Find
  <2> QED BY <1>0, <2>2, <2>3, <2>4, <2>5, ResolveKeepsRInv
<1>6. CASE FindContent
  <2>1. "CONTENT_BASED" \in Queries \ {"SERENDIPITY"} /\ GraphOK
    BY DEF TInv, TypeOK, GraphOK, Queries, Scored
  <2>2. PICK list \in Query("CONTENT_BASED") :
               req' = [req EXCEPT !.content = list, !.pc = "collab"]
    BY <1>6 DEF FindContent
  <2>3. /\ IsInjective(list) /\ Len(list) <= Limit
        /\ Range(list) \subseteq inGraph \ req.watchedBefore
    BY <2>1, QueryInjective, QueryIsNew DEF NewList
  <2>4. /\ req'.pc = "collab" /\ req'.content = list
        /\ req'.watchedBefore = req.watchedBefore
        /\ req'.graphBefore = req.graphBefore
    BY <2>2 DEF TInv, TypeOK, Requests
  <2> QED BY <1>0, <1>6, <2>3, <2>4
          DEF FindContent, Remembered, HalfIsNew, RecommendedAreNew
<1>7. CASE FindCollab
  <2>1. /\ GraphOK /\ "COLLABORATIVE" \in Queries /\ req.pc = "collab"
        /\ req.content \in Seq(Movies) /\ req.algo = "HYBRID"
    BY <1>7 DEF FindCollab, TInv, TypeOK, Requests, Dispatched, GraphOK, Queries, Scored
  <2>2. PICK list \in Query("COLLABORATIVE") : Resolve(Merge(req.content, list))
    BY <1>7 DEF FindCollab
  <2>3. Merge(req.content, list) \in Seq(Movies)
    BY <2>1, QueryProperties, MergeProperties
  <2>4. NewList(Merge(req.content, list), req.algo)
    BY <2>1, MergeIsNew
  <2>5. UNCHANGED <<inGraph, watched>>
    BY <1>7 DEF FindCollab
  <2> QED BY <1>0, <2>1, <2>2, <2>3, <2>4, <2>5, ResolveKeepsRInv
<1>8. CASE Fail
  BY <1>0, <1>8 DEF Fail, NoRequest, Remembered, HalfIsNew, RecommendedAreNew
<1>9. CASE Respond
  BY <1>0, <1>9 DEF Respond, NoRequest, Remembered, HalfIsNew, RecommendedAreNew
<1>10. ASSUME NEW m \in Movies, NEW like \in BOOLEAN, Watch(m, like)
       PROVE  RInv'
  BY <1>0, <1>10 DEF Watch, Remembered, HalfIsNew, RecommendedAreNew, NewBefore
<1>11. ASSUME NEW m \in Movies, Import(m) PROVE RInv'
  BY <1>0, <1>11 DEF Import, Remembered, HalfIsNew, RecommendedAreNew, NewBefore
<1>12. CASE UNCHANGED vars
  BY <1>0, <1>12 DEF vars, Remembered, HalfIsNew, RecommendedAreNew, NewBefore
<1> QED BY <1>1, <1>2, <1>3, <1>4, <1>5, <1>6, <1>7, <1>8, <1>9, <1>10, <1>11,
           <1>12 DEF Next

LEMMA Recommended == Spec => []RInv
BY RInvInit, RInvStep, PTL DEF Spec

\* RecommendedAreNew, for every limit, weight and graph: whatever is watched or
\* imported between the queries of a request, its answer holds no movie that was
\* watched when it began, at most the limit, and none twice (SERENDIPITY: once
\* for each genre new to the user when it began); it is empty only for a limit of
\* 0 or when nothing the fallback's query matches is left.
THEOREM OnlyNewIsRecommended == Spec => []RecommendedAreNew
<1>1. RInv => RecommendedAreNew
  BY DEF RInv
<1> QED BY <1>1, Recommended, PTL

-----------------------------------------------------------------------------
(* Walks *)

LEMMA ChainAppend ==
  ASSUME NEW list \in Seq(Movies), NEW kept \in Seq(Response),
         Chain(kept, list), NEW offset \in Nat,
         IF kept = <<>> THEN offset = 0
         ELSE offset = Last(kept).end /\ Last(kept).next # None
  PROVE  Chain(Append(kept, Page(list, offset)), list)
<1> DEFINE page == Page(list, offset)
           pages == Append(kept, page)
           n == Len(kept)
<1>1. page \in Response
  BY PageProperties
<1>2. /\ Len(pages) = n + 1 /\ n \in Nat
      /\ DOMAIN pages = 1..(n + 1) /\ DOMAIN kept = 1..n
      /\ \A k \in 1..n : pages[k] = kept[k]
      /\ pages[n + 1] = page
  <2> HIDE DEF page
  <2> QED BY <1>1, AppendProperties, LenProperties
<1>3. kept = <<>> <=> n = 0
  BY EmptySeq
<1>4. Begins(pages, n + 1) = offset
  <2>1. CASE n = 0
    BY <1>3, <2>1 DEF Begins
  <2>2. CASE n # 0
    <3>1. n \in 1..n /\ Last(kept) = kept[n] /\ n + 1 # 1 /\ n + 1 - 1 = n
      BY <1>2, <2>2 DEF Last
    <3>2. offset = kept[n].end
      BY <1>3, <2>2, <3>1
    <3> HIDE DEF pages, n
    <3> QED BY <1>2, <3>1, <3>2 DEF Begins
  <2> QED BY <2>1, <2>2
<1> HIDE DEF pages
<1>5. \A k \in 1..n : Begins(pages, k) = Begins(kept, k)
  BY <1>2 DEF Begins
<1>6. \A k \in 1..n : pages[k] = Page(list, Begins(pages, k))
  BY <1>2, <1>5 DEF Chain
<1>7. \A k \in 1..n : pages[k].next # None
  <2> TAKE k \in 1..n
  <2>1. CASE k < n
    BY <1>2, <2>1 DEF Chain
  <2>2. CASE k = n
    <3>1. Last(kept).next # None
      BY <1>2, <1>3, <2>2
    <3> QED BY <1>2, <2>2, <3>1 DEF Last
  <2> HIDE DEF n
  <2>3. k < n \/ k = n
    BY <1>2
  <2> QED BY <2>1, <2>2, <2>3
<1>8. \A k \in 1..(n + 1) : k \in 1..n \/ k = n + 1
  BY <1>2
<1>9. \A k \in 1..(n + 1) : pages[k] = Page(list, Begins(pages, k))
  BY <1>2, <1>4, <1>6, <1>8
<1>10. \A k \in 1..(n + 1) : k < n + 1 => pages[k].next # None
  BY <1>2, <1>7, <1>8
<1>11. Chain(pages, list)
  <2> HIDE DEF n
  <2> QED BY <1>2, <1>9, <1>10 DEF Chain
<1> QED BY <1>11 DEF pages

\* A page that has a next one is full.
LEMMA ChainFull ==
  ASSUME NEW list \in Seq(Movies), NEW pages \in Seq(Response),
         Chain(pages, list), NEW k \in 1..Len(pages), k < Len(pages)
  PROVE  pages[k].end = Begins(pages, k) + PageLimit
<1>1. k \in DOMAIN pages
  BY LenProperties
<1>2. pages[k].next # None
  BY <1>1 DEF Chain
<1>3. /\ Begins(pages, k) \in Nat /\ pages[k] = Page(list, Begins(pages, k))
      /\ pages[k].offset = Begins(pages, k)
  BY ChainProperties
<1> QED BY <1>2, <1>3, PageProperties

\* prevCursor leads to where the page before the last began.
LEMMA ChainBack ==
  ASSUME NEW list \in Seq(Movies), NEW pages \in Seq(Response),
         Chain(pages, list), Len(pages) > 1, Last(pages).prev # None,
         NEW kept, kept = SubSeq(pages, 1, Len(pages) - 2)
  PROVE  /\ kept \in Seq(Response)
         /\ Chain(kept, list)
         /\ IF kept = <<>> THEN Last(pages).prev = 0
            ELSE Last(pages).prev = Last(kept).end /\ Last(kept).next # None
<1> DEFINE n == Len(pages)
<1>1. n \in Nat /\ n > 1 /\ DOMAIN pages = 1..n /\ Last(pages) = pages[n]
  BY LenProperties DEF Last
<1>2. /\ kept \in Seq(Response) /\ Len(kept) = n - 2
      /\ \A k \in 1..(n - 2) : kept[k] = pages[k]
  <2>1. \A k \in 1..(n - 2) : pages[k] \in Response
    BY <1>1, ElementOfSeq
  <2>2. 1 \in Int /\ n - 2 \in Int
    BY <1>1
  <2>3. /\ kept \in Seq(Response)
        /\ Len(kept) = IF 1 <= n - 2 THEN n - 2 - 1 + 1 ELSE 0
        /\ \A k \in 1..(n - 2 - 1 + 1) : kept[k] = pages[1 + k - 1]
    <3>1. kept = SubSeq(pages, 1, n - 2)
      OBVIOUS
    <3> HIDE DEF n
    <3> QED BY ONLY <2>1, <2>2, <3>1, SubSeqProperties
  <2> QED BY <1>1, <2>3
<1>3. DOMAIN kept = 1..(n - 2)
  BY <1>2, LenProperties
<1>4. \A k \in 1..(n - 2) : k \in DOMAIN pages /\ k < n - 1
  BY <1>1
<1>5. Chain(kept, list)
  <2>1. \A k \in 1..(n - 2) : Begins(kept, k) = Begins(pages, k)
    BY <1>1, <1>2 DEF Begins
  <2> HIDE DEF n
  <2>2. \A k \in DOMAIN kept : kept[k] = Page(list, Begins(kept, k))
    BY <1>2, <1>3, <1>4, <2>1 DEF Chain
  <2>3. \A k \in DOMAIN kept : k < Len(kept) => kept[k].next # None
    BY <1>1, <1>2, <1>3, <1>4 DEF Chain, n
  <2> QED BY <2>2, <2>3 DEF Chain
<1>6. PageLimit \in Nat /\ PageLimit > 0
  BY PageLimitType
<1>7. n - 1 \in 1..n /\ n \in 1..n /\ n - 1 < n
  BY <1>1
<1>8. /\ Begins(pages, n) \in Nat /\ pages[n].offset = Begins(pages, n)
      /\ Begins(pages, n) = pages[n - 1].end
      /\ pages[n - 1].end = Begins(pages, n - 1) + PageLimit
      /\ Begins(pages, n - 1) \in Nat
  <2>1. /\ Begins(pages, n) \in Nat /\ pages[n].offset = Begins(pages, n)
        /\ Begins(pages, n - 1) \in Nat
    BY <1>7, ChainProperties
  <2>2. pages[n - 1].end = Begins(pages, n - 1) + PageLimit
    BY <1>7, ChainFull
  <2>3. Begins(pages, n) = pages[n - 1].end
    BY <1>1 DEF Begins
  <2> QED BY <2>1, <2>2, <2>3
<1>9. pages[n].prev = IF pages[n].offset > PageLimit
                     THEN pages[n].offset - PageLimit ELSE 0
  <2>1. pages[n] = Page(list, Begins(pages, n))
    BY <1>7, ChainProperties
  <2> QED BY <1>1, <1>8, <2>1, PageProperties
<1>10. pages[n].prev = Begins(pages, n - 1)
  <2> HIDE DEF n
  <2> QED BY <1>6, <1>8, <1>9
<1>11. CASE n = 2
  <2>1. kept = <<>>
    BY <1>2, <1>11, EmptySeq
  <2>2. Begins(pages, n - 1) = 0
    BY <1>11 DEF Begins
  <2> QED BY <1>1, <1>2, <1>5, <1>10, <2>1, <2>2
<1>12. CASE n > 2
  <2>1. n - 2 \in 1..(n - 2) /\ n - 2 < n /\ n - 2 \in DOMAIN pages
    BY <1>1, <1>12
  <2>2. kept # <<>> /\ Last(kept) = pages[n - 2]
    <3>1. Len(kept) # 0
      BY <1>2, <1>12
    <3> QED BY <1>2, <2>1, <3>1, EmptySeq DEF Last
  <2>3. Begins(pages, n - 1) = pages[n - 2].end
    BY <1>1, <1>12 DEF Begins
  <2>4. pages[n - 2].next # None
    BY <2>1 DEF Chain
  <2> QED BY <1>1, <1>2, <1>5, <1>10, <2>2, <2>3, <2>4
<1> QED BY <1>1, <1>11, <1>12

\* The algorithm a request of the walk queries first, the lists that may find,
\* and those the request may answer.
Asked(override) == IF override = None THEN Select(count) ELSE override
Hybrids == {Merge(content, list) : content \in Query("CONTENT_BASED"),
                                   list \in Query("COLLABORATIVE")}
Firsts(override) ==
  IF Asked(override) = "HYBRID" THEN Hybrids ELSE Query(Asked(override))
Lists(override) ==
  {list \in Firsts(override) : list # <<>> \/ Asked(override) = "POPULAR"}
  \cup {list \in Query("POPULAR") :
          Asked(override) # "POPULAR" /\ <<>> \in Firsts(override)}

\* The pages held follow one another through a list the walk may be given.
Walked ==
  /\ Chain(Held, walk.list)
  /\ Held # <<>> => walk.list \in Lists(walk.override)

\* How far a request is with computing such a list.
Underway ==
  /\ req.pc = "query" =>
       \/ req.algo = Asked(req.override)
       \/ /\ req.algo = "POPULAR" /\ Asked(req.override) # "POPULAR"
          /\ <<>> \in Firsts(req.override)
  /\ req.pc \in {"content", "collab"} => Asked(req.override) = "HYBRID"
  /\ req.pc = "collab" => req.content \in Query("CONTENT_BASED")
  /\ req.pc = "respond" => req.list \in Lists(req.override)

\* Its answer will follow the pages it is to join.
Joining ==
  req.pc # "idle" =>
    IF req.kept = <<>> THEN req.offset = 0
    ELSE /\ Chain(req.kept, walk.list)
         /\ req.offset = Last(req.kept).end /\ Last(req.kept).next # None

\* A request for another page is one of the walk.
OneWalk ==
  (req.pc # "idle" /\ req.kept # <<>>) =>
    Held # <<>> /\ req.override = walk.override

\* The graph determines the answer of every query of a walk.
Exact(override) == \A algo \in QueriesOf(override) : Determined(algo)

WInv ==
  /\ OneWalk
  /\ ~changed =>
       /\ Underway
       /\ Exact(walk.override) => Walked
       /\ Exact(req.override) => Joining

\* While the graph does not change, neither do the answers.
LEMMA SameLists ==
  ASSUME UNCHANGED <<inGraph, watched, liked, count>>
  PROVE  /\ \A algo : Query(algo)' = Query(algo)
         /\ \A override : /\ Exact(override)' = Exact(override)
                          /\ Asked(override)' = Asked(override)
                          /\ Firsts(override)' = Firsts(override)
                          /\ Lists(override)' = Lists(override)
<1>1. /\ \A algo : Query(algo)' = Query(algo)
      /\ \A override : Exact(override)' = Exact(override)
  <2>1. Neighbourhoods' = Neighbourhoods
    BY DEF Neighbourhoods, Similar, Overlap
  <2>2. \A algo : Scorings(algo)' = Scorings(algo)
    BY <2>1 DEF Scorings
  <2>3. \A algo, score : /\ Candidates(algo, score)' = Candidates(algo, score)
                         /\ Rows(algo, score)' = Rows(algo, score)
    BY DEF Rows, Candidates, HasSeed, KnownGenres, NewGenres
  <2>4. \A algo, score : Answers(algo, score)' = Answers(algo, score)
    BY <2>3 DEF Answers
  <2>5. \A algo : Query(algo)' = Query(algo)
    BY <2>2, <2>4 DEF Query
  <2>6. \A algo : Determined(algo)' = Determined(algo)
    BY <2>2, <2>3 DEF Determined
  <2>7. \A override : Exact(override)' = Exact(override)
    BY <2>6 DEF Exact, QueriesOf
  <2> QED BY <2>5, <2>7
<1>2. \A override : Asked(override)' = Asked(override)
  BY DEF Asked
<1>3. Hybrids' = Hybrids
  BY <1>1 DEF Hybrids
<1>4. \A override : Firsts(override)' = Firsts(override)
  BY <1>1, <1>2, <1>3 DEF Firsts
<1> QED BY <1>1, <1>2, <1>4 DEF Lists

LEMMA AskedType ==
  ASSUME TypeOK, NEW override \in Override \cup {None}
  PROVE  Asked(override) \in Queries \cup {"HYBRID"}
BY SelectType, OverrideAssumption DEF Asked, TypeOK, Queries, Scored

LEMMA ListsUnique ==
  ASSUME TypeOK, NEW override \in Override \cup {None}, Exact(override),
         NEW one \in Lists(override), NEW other \in Lists(override)
  PROVE  one = other
<1>1. GraphOK /\ {"POPULAR", "CONTENT_BASED", "COLLABORATIVE"} \subseteq Queries
  BY DEF TypeOK, GraphOK, Queries, Scored
<1>2. ASSUME Asked(override) = "HYBRID" PROVE \A x, y \in Hybrids : x = y
  <2>1. Determined("CONTENT_BASED") /\ Determined("COLLABORATIVE")
    BY <1>2 DEF Exact, QueriesOf, Asked
  <2> QED BY <1>1, <2>1, QueryUnique DEF Hybrids
<1>3. \A x, y \in Firsts(override) : x = y
  <2>1. CASE Asked(override) = "HYBRID"
    BY <1>2, <2>1 DEF Firsts
  <2>2. CASE Asked(override) # "HYBRID"
    <3>1. Determined(Asked(override)) /\ Asked(override) \in Queries
      BY <2>2, AskedType DEF Exact, QueriesOf, Asked
    <3> QED BY <1>1, <2>2, <3>1, QueryUnique DEF Firsts
  <2> QED BY <2>1, <2>2
<1>4. \A x, y \in Query("POPULAR") : x = y
  <2>1. Determined("POPULAR")
    BY DEF Exact, QueriesOf
  <2> QED BY <1>1, <2>1, QueryUnique
<1> QED BY <1>3, <1>4 DEF Lists

LEMMA ResolveUnderway ==
  ASSUME TInv, NEW list \in Seq(Movies), Resolve(list),
         \/ req.algo = Asked(req.override) /\ list \in Firsts(req.override)
         \/ /\ req.algo = "POPULAR" /\ Asked(req.override) # "POPULAR"
            /\ <<>> \in Firsts(req.override) /\ list \in Query("POPULAR"),
         UNCHANGED <<inGraph, watched, liked, count>>
  PROVE  /\ Underway'
         /\ req'.kept = req.kept /\ req'.offset = req.offset
         /\ req'.override = req.override
<1>1. CASE list = <<>> /\ req.algo # "POPULAR"
  <2>1. req' = [req EXCEPT !.algo = "POPULAR", !.pc = "query"]
    BY <1>1 DEF Resolve, Dispatch
  <2>2. /\ req'.pc = "query" /\ req'.algo = "POPULAR"
        /\ req'.kept = req.kept /\ req'.offset = req.offset
        /\ req'.override = req.override
    BY <2>1 DEF TInv, TypeOK, Requests
  <2> QED BY <1>1, <2>2, SameLists DEF Underway
<1>2. CASE ~(list = <<>> /\ req.algo # "POPULAR")
  <2>1. req' = [req EXCEPT !.list = list, !.pc = "respond"]
    BY <1>2 DEF Resolve
  <2>2. /\ req'.pc = "respond" /\ req'.list = list
        /\ req'.kept = req.kept /\ req'.offset = req.offset
        /\ req'.override = req.override
    BY <2>1 DEF TInv, TypeOK, Requests
  <2>3. list \in Lists(req.override)
    BY <1>2 DEF Lists
  <2> QED BY <2>2, <2>3, SameLists DEF Underway
<1> QED BY <1>1, <1>2

LEMMA WInvInit == Init => WInv
BY NoRequestType, NoWalkType
   DEF Init, NoRequest, WInv, OneWalk, Walked, Underway, Joining, Held, Chain

LEMMA OneWalkStep == TInv /\ OneWalk /\ [Next]_vars => OneWalk'
<1> SUFFICES ASSUME TInv, OneWalk, [Next]_vars PROVE OneWalk'
  OBVIOUS
<1> USE DEF OneWalk, Held
<1>1. ASSUME NEW override \in Override, FirstPage(override) PROVE OneWalk'
  BY <1>1 DEF FirstPage, Request, NoRequest
<1>2. CASE NextPage
  BY <1>2 DEF NextPage, Request, NoRequest
<1>3. CASE PrevPage
  <2>1. walk' = walk /\ walk.pages # <<>> /\ req'.override = walk.override
    BY <1>3, EmptySeq DEF PrevPage, Request, NoRequest
  <2> QED BY <2>1
<1>4. CASE FindUser \/ Find \/ FindContent \/ FindCollab
  <2>1. /\ walk' = walk /\ req.pc # "idle"
        /\ req'.kept = req.kept /\ req'.override = req.override
    BY <1>4 DEF FindUser, Find, FindContent, FindCollab, Resolve, Dispatch,
                TInv, TypeOK, Requests
  <2> QED BY <2>1
<1>5. CASE Fail \/ Respond
  BY <1>5, NoRequestType DEF Fail, Respond
<1>6. CASE \E m \in Movies, like \in BOOLEAN : Watch(m, like)
  BY <1>6 DEF Watch
<1>7. CASE \E m \in Movies : Import(m)
  BY <1>7 DEF Import
<1>8. CASE UNCHANGED vars
  BY <1>8 DEF vars
<1> QED BY <1>1, <1>2, <1>3, <1>4, <1>5, <1>6, <1>7, <1>8 DEF Next

\* A step that neither begins nor answers a request keeps what its answer will
\* be joined to.
LEMMA SameWalk ==
  ASSUME WInv, ~changed, UNCHANGED <<inGraph, watched, liked, count, walk>>,
         \/ req'.pc = "idle"
         \/ /\ req.pc # "idle" /\ req'.override = req.override
            /\ req'.kept = req.kept /\ req'.offset = req.offset
  PROVE  /\ Exact(walk.override)' => Walked'
         /\ Exact(req.override)' => Joining'
<1>1. ASSUME Exact(walk.override)' PROVE Walked'
  <2>1. Exact(walk.override) /\ Walked
    BY <1>1, SameLists DEF WInv
  <2> QED BY <2>1, SameLists DEF Walked, Held
<1>2. ASSUME Exact(req.override)', req'.pc # "idle" PROVE Joining'
  <2>1. Exact(req.override)
    BY <1>2, SameLists
  <2>2. Joining
    BY <2>1 DEF WInv
  <2> QED BY <1>2, <2>2 DEF Joining
<1> QED BY <1>1, <1>2 DEF Joining

LEMMA WInvStep == TInv /\ TInv' /\ WInv /\ [Next]_vars => WInv'
<1> SUFFICES ASSUME TInv, TInv', WInv, [Next]_vars, ~changed'
             PROVE  /\ Underway'
                    /\ Exact(walk.override)' => Walked'
                    /\ Exact(req.override)' => Joining'
  BY OneWalkStep DEF WInv
<1> DEFINE Goal == /\ Underway'
                   /\ Exact(walk.override)' => Walked'
                   /\ Exact(req.override)' => Joining'
<1> USE DEF Held
<1>1. ASSUME NEW override \in Override, FirstPage(override)
      PROVE  Goal
  <2>1. req'.pc = "user" /\ req'.kept = <<>> /\ req'.offset = 0 /\ walk' = NoWalk
    BY <1>1 DEF FirstPage, Request, NoRequest
  <2> QED BY <2>1, NoWalkType DEF Walked, Underway, Joining, Chain
<1>2. CASE NextPage
  <2>1. /\ ~changed /\ walk' = walk /\ UNCHANGED <<inGraph, watched, liked, count>>
        /\ walk.pages # <<>> /\ Last(walk.pages).next # None
        /\ req' = Request(walk.override, Last(walk.pages).next, walk.pages)
    BY <1>2 DEF NextPage
  <2>2. /\ req'.pc = "user" /\ req'.kept = walk.pages
        /\ req'.override = walk.override /\ req'.offset = Last(walk.pages).next
    BY <2>1 DEF Request, NoRequest
  <2>3. Underway'
    BY <2>2 DEF Underway
  <2>4. ASSUME Exact(walk.override)' PROVE Walked' /\ Joining'
    <3>1. Exact(walk.override)
      BY <2>1, <2>4, SameLists
    <3>2. /\ Walked /\ walk.pages \in Seq(Response) /\ walk.list \in Seq(Movies)
          /\ Chain(walk.pages, walk.list)
      BY <2>1, <3>1 DEF WInv, Walked, TInv, TypeOK
    <3>3. Last(walk.pages).next = Last(walk.pages).end
      <4>1. Len(walk.pages) \in 1..Len(walk.pages)
        BY <2>1, <3>2, EmptySeq, LenProperties
      <4> QED BY <2>1, <3>2, <4>1, ChainProperties, PageProperties DEF Last
    <3>4. Walked'
      BY <2>1, <3>2, SameLists DEF Walked
    <3> QED BY <2>1, <2>2, <3>2, <3>3, <3>4 DEF Joining
  <2> QED BY <2>1, <2>2, <2>3, <2>4
<1>3. CASE PrevPage
  <2> DEFINE kept == SubSeq(walk.pages, 1, Len(walk.pages) - 2)
  <2>1. /\ ~changed /\ walk' = walk /\ UNCHANGED <<inGraph, watched, liked, count>>
        /\ Len(walk.pages) > 1 /\ Last(walk.pages).prev # None
        /\ req' = Request(walk.override, Last(walk.pages).prev, kept)
    BY <1>3 DEF PrevPage
  <2>2. /\ req'.pc = "user" /\ req'.kept = kept
        /\ req'.override = walk.override /\ req'.offset = Last(walk.pages).prev
    BY <2>1 DEF Request, NoRequest
  <2>3. Underway'
    BY <2>2 DEF Underway
  <2>4. ASSUME Exact(walk.override)' PROVE Walked' /\ Joining'
    <3>1. Exact(walk.override)
      BY <2>1, <2>4, SameLists
    <3>2. /\ Walked /\ walk.pages \in Seq(Response) /\ walk.list \in Seq(Movies)
          /\ Chain(walk.pages, walk.list) /\ walk.pages # <<>>
      BY <2>1, <3>1, EmptySeq DEF WInv, Walked, TInv, TypeOK
    <3>3. /\ Chain(kept, walk.list)
          /\ IF kept = <<>> THEN Last(walk.pages).prev = 0
             ELSE Last(walk.pages).prev = Last(kept).end /\ Last(kept).next # None
      BY <2>1, <3>2, ChainBack
    <3> HIDE DEF kept
    <3>4. Walked'
      BY <2>1, <3>2, SameLists DEF Walked
    <3> QED BY <2>1, <2>2, <3>2, <3>3, <3>4 DEF Joining
  <2> QED BY <2>1, <2>2, <2>3, <2>4
<1>4. CASE FindUser
  <2> DEFINE algo == Asked(req.override)
  <2>1. /\ ~changed /\ walk' = walk /\ UNCHANGED <<inGraph, watched, liked, count>>
        /\ req.pc = "user"
        /\ req' = [req EXCEPT !.algo = algo,
                              !.pc = IF algo = "HYBRID" THEN "content" ELSE "query"]
    BY <1>4 DEF FindUser, Dispatch, Asked
  <2> HIDE DEF algo
  <2>2. /\ req'.pc = IF algo = "HYBRID" THEN "content" ELSE "query"
        /\ req'.algo = algo /\ req'.override = req.override
        /\ req'.kept = req.kept /\ req'.offset = req.offset
    BY <2>1 DEF TInv, TypeOK, Requests
  <2>3. Underway'
    BY <2>1, <2>2, SameLists DEF Underway, algo
  <2> QED BY <2>1, <2>2, <2>3, SameWalk
<1>5. CASE Find
  <2>1. /\ ~changed /\ walk' = walk /\ UNCHANGED <<inGraph, watched, liked, count>>
        /\ req.pc = "query"
    BY <1>5 DEF Find
  <2>2. req.algo \in Queries /\ GraphOK
    BY <2>1 DEF TInv, TypeOK, Dispatched, GraphOK
  <2>3. PICK list \in Query(req.algo) : Resolve(list)
    BY <1>5 DEF Find
  <2>4. list \in Seq(Movies)
    BY <2>2, QueryProperties
  <2>5. \/ req.algo = Asked(req.override) /\ list \in Firsts(req.override)
        \/ /\ req.algo = "POPULAR" /\ Asked(req.override) # "POPULAR"
           /\ <<>> \in Firsts(req.override) /\ list \in Query("POPULAR")
    BY <2>1, <2>2, <2>3 DEF WInv, Underway, Firsts, Queries, Scored
  <2>6. /\ Underway' /\ req'.kept = req.kept /\ req'.offset = req.offset
        /\ req'.override = req.override
    BY <2>1, <2>3, <2>4, <2>5, ResolveUnderway
  <2> QED BY <2>1, <2>6, SameWalk
<1>6. CASE FindContent
  <2>1. /\ ~changed /\ walk' = walk /\ UNCHANGED <<inGraph, watched, liked, count>>
        /\ req.pc = "content"
    BY <1>6 DEF FindContent
  <2>2. PICK list \in Query("CONTENT_BASED") :
               req' = [req EXCEPT !.content = list, !.pc = "collab"]
    BY <1>6 DEF FindContent
  <2>3. /\ req'.pc = "collab" /\ req'.content = list
        /\ req'.kept = req.kept /\ req'.offset = req.offset
        /\ req'.override = req.override
    BY <2>2 DEF TInv, TypeOK, Requests
  <2>4. Underway'
    BY <2>1, <2>3, SameLists DEF WInv, Underway
  <2> QED BY <2>1, <2>3, <2>4, SameWalk
<1>7. CASE FindCollab
  <2>1. /\ ~changed /\ walk' = walk /\ UNCHANGED <<inGraph, watched, liked, count>>
        /\ req.pc = "collab"
    BY <1>7 DEF FindCollab
  <2>2. /\ GraphOK /\ "COLLABORATIVE" \in Queries /\ req.content \in Seq(Movies)
        /\ req.algo = "HYBRID" /\ Asked(req.override) = "HYBRID"
        /\ req.content \in Query("CONTENT_BASED")
    BY <2>1 DEF TInv, TypeOK, Requests, Dispatched, GraphOK, Queries, Scored, WInv,
                Underway
  <2>3. PICK list \in Query("COLLABORATIVE") : Resolve(Merge(req.content, list))
    BY <1>7 DEF FindCollab
  <2>4. Merge(req.content, list) \in Seq(Movies)
    BY <2>2, QueryProperties, MergeProperties
  <2>5. Merge(req.content, list) \in Firsts(req.override)
    BY <2>2, <2>3 DEF Firsts, Hybrids
  <2>6. /\ Underway' /\ req'.kept = req.kept /\ req'.offset = req.offset
        /\ req'.override = req.override
    BY <2>1, <2>2, <2>3, <2>4, <2>5, ResolveUnderway
  <2> QED BY <2>1, <2>6, SameWalk
<1>8. CASE Fail
  <2>1. /\ ~changed /\ walk' = walk /\ UNCHANGED <<inGraph, watched, liked, count>>
        /\ req'.pc = "idle"
    BY <1>8, NoRequestType DEF Fail
  <2> QED BY <2>1, SameWalk DEF Underway
<1>9. CASE Respond
  <2> DEFINE pages == Append(req.kept, Page(req.list, req.offset))
             list == IF req.kept = <<>> THEN req.list ELSE walk.list
  <2>1. /\ ~changed /\ UNCHANGED <<inGraph, watched, liked, count>>
        /\ req.pc = "respond" /\ req'.pc = "idle"
        /\ walk' = [override |-> req.override, pages |-> pages, list |-> list]
    BY <1>9, NoRequestType DEF Respond
  <2>2. /\ req.kept \in Seq(Response) /\ req.list \in Seq(Movies)
        /\ req.offset \in Nat /\ req.override \in Override \cup {None}
    BY DEF TInv, TypeOK, Requests
  <2> HIDE DEF pages, list
  <2>3. walk'.override = req.override /\ walk'.pages = pages /\ walk'.list = list
    BY <2>1
  <2>4. ASSUME Exact(walk.override)' PROVE Walked'
    <3>1. Exact(req.override)
      BY <2>1, <2>3, <2>4, SameLists
    <3>2. Joining /\ req.list \in Lists(req.override)
      BY <2>1, <3>1 DEF WInv, Underway
    <3>3. req.kept # <<>> => walk.list \in Lists(req.override)
      BY <2>1, <3>1 DEF WInv, OneWalk, Walked
    <3>4. list = req.list
      BY <2>2, <3>1, <3>2, <3>3, ListsUnique DEF TInv, list
    <3>5. Chain(req.kept, req.list)
      <4>1. CASE req.kept = <<>>
        BY <4>1 DEF Chain
      <4>2. CASE req.kept # <<>>
        BY <2>1, <3>2, <3>4, <4>2 DEF Joining, list
      <4> QED BY <4>1, <4>2
    <3>6. IF req.kept = <<>> THEN req.offset = 0
          ELSE req.offset = Last(req.kept).end /\ Last(req.kept).next # None
      BY <2>1, <3>2 DEF Joining
    <3>7. Chain(pages, req.list)
      BY <2>2, <3>5, <3>6, ChainAppend DEF pages
    <3> QED BY <2>1, <2>3, <3>2, <3>4, <3>7, SameLists DEF Walked
  <2> QED BY <2>1, <2>4 DEF Underway, Joining
<1>10. ASSUME NEW m \in Movies, NEW like \in BOOLEAN, Watch(m, like)
       PROVE  FALSE
  BY <1>10 DEF Watch
<1>11. ASSUME NEW m \in Movies, Import(m) PROVE FALSE
  BY <1>11 DEF Import
<1>12. CASE UNCHANGED vars
  <2>1. /\ ~changed /\ walk' = walk /\ req' = req
        /\ UNCHANGED <<inGraph, watched, liked, count>>
    BY <1>12 DEF vars
  <2>2. Underway'
    BY <2>1, SameLists DEF WInv, Underway
  <2> QED BY <2>1, <2>2, SameWalk, SameLists DEF WInv, Walked, Joining
<1> QED BY <1>1, <1>2, <1>3, <1>4, <1>5, <1>6, <1>7, <1>8, <1>9, <1>10, <1>11,
           <1>12 DEF Next

\* WalkIsExact, for every graph, page size and override: while the graph does not
\* change and determines the queries' answers (no two scores tie, and users of
\* equal overlap make no difference), computing the list again for every page
\* loses and repeats no place of it, forward and back.
THEOREM WalksAreExact == Spec => []WalkIsExact
<1>1. Spec => []WInv
  <2>1. TInv /\ TInv' /\ WInv /\ [Next]_vars => WInv'
    BY WInvStep
  <2> QED BY WInvInit, <2>1, Typed, PTL DEF Spec
<1>2. TInv /\ WInv => WalkIsExact
  <2> SUFFICES ASSUME TInv, WInv, ~changed, Exact(walk.override), Held # <<>>
               PROVE  PagesAreTheList
    BY DEF WalkIsExact, PagesAreTheList, Exact
  <2>1. /\ Held \in Seq(Response) /\ walk.list \in Seq(Movies)
        /\ Chain(Held, walk.list)
    BY DEF TInv, TypeOK, WInv, Walked, Held
  <2>2. FlattenSeq([k \in DOMAIN Held |-> Held[k].data])
          = SubSeq(walk.list, 1, Last(Held).end)
    BY <2>1, FlattenChain
  <2>3. Last(Held).next = None => Last(Held).end = Len(walk.list)
    <3>1. Len(Held) \in 1..Len(Held)
      BY <2>1, EmptySeq, LenProperties
    <3> QED BY <2>1, <3>1, ChainProperties, PageProperties DEF Last
  <2> QED BY <2>2, <2>3 DEF PagesAreTheList
<1> QED BY <1>1, <1>2, Typed, PTL

=============================================================================
