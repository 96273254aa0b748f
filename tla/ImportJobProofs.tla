-------------------------- MODULE ImportJobProofs --------------------------
(***************************************************************************)
(* Theorems about ImportJob, for every request and every catalogue.  The   *)
(* inductive invariant says that what was tried is what is due among the   *)
(* results behind the job's cursor <<term, page, result>>: a search that   *)
(* fails changes what is due, but never behind the cursor.                 *)
(***************************************************************************)
EXTENDS ImportJob, TLAPS

Active == pc \in {"search", "publish"}

\* The result is behind the cursor.
Passed(t, p, r) ==
  \/ t < term
  \/ t = term /\ p < page
  \/ t = term /\ p = page /\ pc = "publish" /\ r < result

CursorOK ==
  /\ Active => term \in Terms
  /\ pc = "search" => result = 1
  /\ pc = "publish" => result \in 1..Len(Results(term, page))
  /\ pc = "finished" => term = Len(SearchTerms) + 1

FailedBehind ==
  \A t \in Terms, p \in Pages :
    <<t, p>> \in failed => t < term \/ (t = term /\ p < page)

TriedIsDue ==
  pc # "dead" =>
    \A t \in Terms, p \in Pages, r \in Nat \ {0} :
      <<t, p, r>> \in sent \cup unsent <=> r \in Visible(t, p) /\ Passed(t, p, r)

IInv == /\ TypeOK /\ CursorOK /\ FailedBehind /\ TriedIsDue
        /\ sent \cap unsent = {}
        /\ Active => Asked(term, page)

-----------------------------------------------------------------------------
(* The request and the catalogue *)

LEMMA PagesFact == MaxPages \in Nat \ {0} /\ Pages = 1..MaxPages
  BY JobAssumption DEF MaxPages, Pages

LEMMA ResultsFact ==
  ASSUME NEW t \in Terms, NEW p \in Pages
  PROVE  /\ Results(t, p) \in Seq(ImdbIds)
         /\ Len(Results(t, p)) \in Nat
         /\ Results(t, p) = <<>> <=> Len(Results(t, p)) = 0
<1>1. SearchTerms[t] \in DOMAIN Catalogue
  BY JobAssumption DEF Terms
<1>2. Catalogue[SearchTerms[t]] \in Seq(Seq(ImdbIds))
  BY <1>1, JobAssumption
<1>3. p \in Nat \ {0}
  BY PagesFact
<1>4. Results(t, p) \in Seq(ImdbIds)
  <2>1. CASE p <= Len(Catalogue[SearchTerms[t]])
    BY <1>2, <1>3, <2>1 DEF Results
  <2>2. CASE ~(p <= Len(Catalogue[SearchTerms[t]]))
    BY <2>2 DEF Results
  <2> QED
    BY <2>1, <2>2
<1> QED
  BY <1>4

\* What is due, element by element.
LEMMA DueFact ==
  /\ Due \subseteq Terms \X Pages \X (Nat \ {0})
  /\ \A t \in Terms, p \in Pages, r \in Nat \ {0} :
       <<t, p, r>> \in Due <=> r \in Visible(t, p)
<1>1. \A t \in Terms, p \in Pages : Visible(t, p) \subseteq Nat \ {0}
  BY ResultsFact DEF Visible
<1>2. ASSUME NEW m \in Due
      PROVE  \E t \in Terms, p \in Pages : m \in {t} \X {p} \X Visible(t, p)
  BY DEF Due
<1>3. Due \subseteq Terms \X Pages \X (Nat \ {0})
  BY <1>1, <1>2
<1>4. ASSUME NEW t \in Terms, NEW p \in Pages, NEW r \in Nat \ {0},
             <<t, p, r>> \in Due
      PROVE  r \in Visible(t, p)
  BY <1>2, <1>4
<1>5. ASSUME NEW t \in Terms, NEW p \in Pages, NEW r \in Nat \ {0},
             r \in Visible(t, p)
      PROVE  <<t, p, r>> \in Due
  <2> DEFINE A == {t} \X {p} \X Visible(t, p)
             S == {{u} \X {q} \X Visible(u, q) : u \in Terms, q \in Pages}
  <2>1. <<t, p, r>> \in A
    BY <1>5
  <2>2. A \in S
    OBVIOUS
  <2>3. Due = UNION S
    BY DEF Due
  <2> HIDE DEF A, S
  <2> QED
    BY <2>1, <2>2, <2>3
<1> QED
  BY <1>3, <1>4, <1>5

-----------------------------------------------------------------------------
LEMMA InitIInv == Init => IInv
<1> SUFFICES ASSUME Init PROVE IInv
  OBVIOUS
<1> USE PagesFact
<1>1. 1 \in Terms /\ Len(SearchTerms) \in Nat
  BY JobAssumption DEF Terms
<1>2. TypeOK
  BY <1>1 DEF Init, TypeOK
<1>3. Asked(term, page)
  BY DEF Init, Asked
<1>4. TriedIsDue
  BY <1>1 DEF Init, TriedIsDue, Passed, Terms
<1> QED
  BY <1>1, <1>2, <1>3, <1>4 DEF Init, IInv, CursorOK, FailedBehind, Active

\* Where the cursor goes after a page.
LEMMA NextPageFact ==
  ASSUME TypeOK, term \in Terms, NextPage
  PROVE  \/ /\ page = MaxPages /\ NextTerm
         \/ /\ page # MaxPages /\ page + 1 \in Pages
            /\ page' = page + 1 /\ result' = 1 /\ pc' = "search"
            /\ term' = term
  BY PagesFact DEF NextPage, TypeOK

LEMMA NextTermFact ==
  ASSUME term \in Terms, NextTerm
  PROVE  /\ term' = term + 1 /\ page' = 1 /\ result' = 1 /\ 1 \in Pages
         /\ pc' \in {"search", "finished"}
         /\ term' \in 1..Len(SearchTerms) + 1
         /\ pc' = "search" => term' \in Terms
         /\ pc' = "finished" => term' = Len(SearchTerms) + 1
<1>1. Len(SearchTerms) \in Nat
  BY JobAssumption
<1> QED
  BY <1>1, PagesFact DEF NextTerm, Terms

LEMMA NextTypeOK == IInv /\ [Next]_vars => TypeOK' /\ CursorOK'
<1> SUFFICES ASSUME IInv, [Next]_vars PROVE TypeOK' /\ CursorOK'
  OBVIOUS
<1> USE DEF IInv, TypeOK, CursorOK, Active
<1>1. CASE SearchEmpty
  <2>1. term \in Terms /\ NextTerm
    BY <1>1 DEF SearchEmpty
  <2> QED
    BY <1>1, <2>1, NextTermFact DEF SearchEmpty
<1>2. CASE SearchFound
  <2>1. Len(Results(term, page)) \in Nat \ {0}
    BY <1>2, ResultsFact DEF SearchFound
  <2>2. Len(Results(term, page))' = Len(Results(term, page))
    BY <1>2 DEF SearchFound, Results
  <2>3. Results(term', page') = Results(term, page)
    BY <1>2 DEF SearchFound
  <2> QED
    BY <1>2, <2>1, <2>3 DEF SearchFound
<1>3. CASE SearchFails
  <2>1. term \in Terms /\ NextPage
    BY <1>3 DEF SearchFails
  <2> QED
    BY <1>3, <2>1, NextTermFact, NextPageFact DEF SearchFails
<1>4. CASE Publish
  <2>1. term \in Terms /\ result \in 1..Len(Results(term, page))
    BY <1>4 DEF Publish
  <2>2. sent' \cup unsent' \subseteq Terms \X Pages \X (Nat \ {0})
    <3>1. <<term, page, result>> \in Terms \X Pages \X (Nat \ {0})
      BY <2>1
    <3>2. sent' \cup unsent' = sent \cup unsent \cup {<<term, page, result>>}
      BY <1>4 DEF Publish
    <3> QED
      BY <3>1, <3>2
  <2>3. CASE result = Len(Results(term, page))
    BY <1>4, <2>1, <2>2, <2>3, NextTermFact, NextPageFact DEF Publish
  <2>4. CASE result # Len(Results(term, page))
    <3>1. Len(Results(term, page)) \in Nat
      BY <2>1, ResultsFact
    <3>2. Results(term', page') = Results(term, page)
      BY <1>4, <2>4 DEF Publish
    <3> QED
      BY <1>4, <2>1, <2>2, <2>4, <3>1, <3>2 DEF Publish
  <2> QED
    BY <2>3, <2>4
<1>5. CASE Die
  BY <1>5 DEF Die
<1>6. CASE UNCHANGED vars
  BY <1>6 DEF vars
<1> QED
  BY <1>1, <1>2, <1>3, <1>4, <1>5, <1>6 DEF Next, Work, Stopped

\* What is visible behind the cursor does not change when the search at the
\* cursor fails.
LEMMA VisibleBehind ==
  ASSUME IInv, term \in Terms,
         failed' = failed \/ failed' = failed \cup {<<term, page>>},
         NEW t \in Terms, NEW p \in Pages,
         t < term \/ (t = term /\ p < page)
  PROVE  Visible(t, p)' = Visible(t, p)
<1>1. <<t, p>> # <<term, page>>
  BY PagesFact DEF IInv, TypeOK, Terms
<1>2. \A q \in 1..(p - 1) : <<t, q>> # <<term, page>>
  BY PagesFact DEF IInv, TypeOK, Terms
<1>3. Asked(t, p)' <=> Asked(t, p)
  BY <1>2 DEF Asked, Results
<1> QED
  BY <1>1, <1>3 DEF Visible, Results

\* A page seen empty ends its term: nothing of the later pages is due.
LEMMA EmptyEnds ==
  ASSUME IInv, pc = "search", Results(term, page) = <<>>,
         NEW p \in Pages, p >= page
  PROVE  Visible(term, p) = {}
<1>1. term \in Terms /\ page \in Pages
  BY DEF IInv, CursorOK, Active, TypeOK
<1>2. <<term, page>> \notin failed
  BY <1>1, PagesFact DEF IInv, FailedBehind, Terms
<1>3. CASE p = page
  BY <1>1, <1>3, ResultsFact DEF Visible
<1>4. CASE p > page
  BY <1>1, <1>2, <1>4, PagesFact DEF Visible, Asked
<1> QED
  BY <1>1, <1>3, <1>4, PagesFact

LEMMA NextFailedBehind == IInv /\ [Next]_vars => FailedBehind'
<1> SUFFICES ASSUME IInv, [Next]_vars, NEW t \in Terms, NEW p \in Pages,
                    <<t, p>> \in failed'
             PROVE  t < term' \/ (t = term' /\ p < page')
  BY DEF FailedBehind, Terms, Pages, MaxPages
<1>1. t \in Nat /\ p \in Nat /\ page \in Nat /\ term \in Nat
  BY PagesFact DEF IInv, TypeOK, Terms
<1>2. <<t, p>> \in failed => t < term \/ (t = term /\ p < page)
  BY DEF IInv, FailedBehind
<1>3. term \in Terms \/ pc \notin {"search", "publish"}
  BY DEF IInv, CursorOK, Active
<1>4. CASE SearchEmpty
  BY <1>1, <1>2, <1>3, <1>4, NextTermFact DEF SearchEmpty
<1>5. CASE SearchFound \/ Die \/ UNCHANGED vars
  BY <1>2, <1>5 DEF SearchFound, Die, vars
<1>6. CASE SearchFails
  <2>1. <<t, p>> \in failed \/ (t = term /\ p = page)
    BY <1>6 DEF SearchFails
  <2>2. TypeOK /\ term \in Terms /\ NextPage
    BY <1>3, <1>6 DEF SearchFails, IInv
  <2> QED
    BY <1>1, <1>2, <2>1, <2>2, NextTermFact, NextPageFact
<1>7. CASE Publish
  <2>1. TypeOK /\ term \in Terms /\ <<t, p>> \in failed
    BY <1>3, <1>7 DEF Publish, IInv
  <2>2. CASE result = Len(Results(term, page))
    BY <1>1, <1>2, <1>7, <2>1, <2>2, NextTermFact, NextPageFact DEF Publish
  <2>3. CASE result # Len(Results(term, page))
    BY <1>2, <1>7, <2>1, <2>3 DEF Publish
  <2> QED
    BY <2>2, <2>3
<1> QED
  BY <1>4, <1>5, <1>6, <1>7 DEF Next, Work, Stopped

\* The heart of the proof: every step moves the cursor over exactly what it
\* tried, or over what is not due.
LEMMA NextTriedIsDue == IInv /\ [Next]_vars => TriedIsDue'
<1> SUFFICES ASSUME IInv, [Next]_vars, pc' # "dead",
                    NEW t \in Terms, NEW p \in Pages, NEW r \in Nat \ {0}
             PROVE  <<t, p, r>> \in sent' \cup unsent'
                      <=> r \in Visible(t, p)' /\ Passed(t, p, r)'
  BY DEF TriedIsDue, Terms, Pages, MaxPages
<1>1. /\ t \in Nat /\ p \in Nat /\ page \in Nat /\ term \in Nat
      /\ page \in Pages /\ result \in Nat
  BY PagesFact DEF IInv, TypeOK, Terms
<1>2. term \in Terms \/ pc \notin {"search", "publish"}
  BY DEF IInv, CursorOK, Active
<1>3. pc # "dead" => (<<t, p, r>> \in sent \cup unsent
                        <=> r \in Visible(t, p) /\ Passed(t, p, r))
  BY DEF IInv, TriedIsDue
<1>4. CASE SearchEmpty
  <2>1. /\ pc = "search" /\ term \in Terms /\ NextTerm
        /\ Results(term, page) = <<>>
        /\ sent' = sent /\ unsent' = unsent /\ failed' = failed
    BY <1>2, <1>4 DEF SearchEmpty
  <2>2. Visible(t, p)' = Visible(t, p)
    BY <2>1 DEF Visible, Asked, Results
  <2>3. CASE t = term /\ p >= page
    BY <1>1, <1>3, <2>1, <2>2, <2>3, EmptyEnds DEF Passed
  <2>4. CASE ~(t = term /\ p >= page)
    <3>1. Passed(t, p, r)' <=> Passed(t, p, r)
      BY <1>1, <2>1, <2>4, NextTermFact, PagesFact DEF Passed
    <3> QED
      BY <1>3, <2>1, <2>2, <3>1
  <2> QED
    BY <2>3, <2>4
<1>5. CASE SearchFound
  <2>1. Visible(t, p)' = Visible(t, p)
    BY <1>5 DEF SearchFound, Visible, Asked, Results
  <2>2. Passed(t, p, r)' <=> Passed(t, p, r)
    BY <1>5 DEF SearchFound, Passed, IInv, CursorOK
  <2> QED
    BY <1>3, <1>5, <2>1, <2>2 DEF SearchFound
<1>6. CASE SearchFails
  <2>1. /\ pc = "search" /\ term \in Terms /\ NextPage /\ TypeOK
        /\ sent' = sent /\ unsent' = unsent
        /\ failed' = failed \cup {<<term, page>>}
    BY <1>2, <1>6 DEF SearchFails, IInv
  <2>2. CASE t = term /\ p = page
    <3>1. Visible(t, p)' = {}
      BY <2>1, <2>2 DEF Visible, Results
    <3>2. ~Passed(t, p, r)
      BY <1>1, <2>1, <2>2 DEF Passed
    <3> QED
      BY <1>3, <2>1, <3>1, <3>2
  <2>3. CASE t < term \/ (t = term /\ p < page)
    <3>1. Visible(t, p)' = Visible(t, p)
      BY <2>1, <2>3, VisibleBehind
    <3>2. Passed(t, p, r) /\ Passed(t, p, r)'
      BY <1>1, <2>1, <2>3, NextTermFact, NextPageFact DEF Passed
    <3> QED
      BY <1>3, <2>1, <3>1, <3>2
  <2>4. CASE t > term \/ (t = term /\ p > page)
    <3>1. ~Passed(t, p, r) /\ ~Passed(t, p, r)'
      BY <1>1, <2>1, <2>4, NextTermFact, NextPageFact, PagesFact DEF Passed
    <3> QED
      BY <1>3, <2>1, <3>1
  <2> QED
    BY <1>1, <2>2, <2>3, <2>4
<1>7. CASE Publish
  <2>1. /\ pc = "publish" /\ term \in Terms /\ TypeOK
        /\ result \in 1..Len(Results(term, page))
        /\ Len(Results(term, page)) \in Nat
        /\ sent' \cup unsent' = sent \cup unsent \cup {<<term, page, result>>}
        /\ failed' = failed
    BY <1>1, <1>2, <1>7, ResultsFact DEF Publish, IInv, CursorOK
  <2>2. Visible(t, p)' = Visible(t, p)
    BY <2>1 DEF Visible, Asked, Results
  <2>3. Visible(term, page) = 1..Len(Results(term, page))
    <3>1. <<term, page>> \notin failed /\ Asked(term, page)
      BY <1>1, <2>1 DEF IInv, FailedBehind, Active
    <3> QED
      BY <3>1 DEF Visible
  <2>4. r \in Visible(t, p) =>
          (Passed(t, p, r)'
             <=> Passed(t, p, r) \/ (t = term /\ p = page /\ r = result))
    <3>1. CASE result = Len(Results(term, page))
      <4>1. NextPage
        BY <1>7, <3>1 DEF Publish
      <4>2. CASE t = term /\ p = page
        BY <1>1, <2>1, <2>3, <3>1, <4>1, <4>2, NextTermFact, NextPageFact
           DEF Passed
      <4>3. CASE ~(t = term /\ p = page)
        BY <1>1, <2>1, <4>1, <4>3, NextTermFact, NextPageFact, PagesFact
           DEF Passed
      <4> QED
        BY <4>2, <4>3
    <3>2. CASE result # Len(Results(term, page))
      <4>1. result' = result + 1 /\ pc' = pc /\ term' = term /\ page' = page
        BY <1>7, <3>2 DEF Publish
      <4> QED
        BY <1>1, <2>1, <4>1 DEF Passed
    <3> QED
      BY <3>1, <3>2
  <2>5. t = term /\ p = page /\ r = result => r \in Visible(t, p)
    BY <2>1, <2>3
  <2>6. <<t, p, r>> \in sent' \cup unsent' <=>
          \/ <<t, p, r>> \in sent \cup unsent
          \/ t = term /\ p = page /\ r = result
    BY <2>1
  <2> QED
    BY <1>3, <2>1, <2>2, <2>4, <2>5, <2>6
<1>8. CASE Die
  BY <1>8 DEF Die
<1>9. CASE UNCHANGED vars
  <2>1. Visible(t, p)' = Visible(t, p) /\ Passed(t, p, r)' = Passed(t, p, r)
    BY <1>9 DEF vars, Visible, Asked, Results, Passed
  <2> QED
    BY <1>3, <1>9, <2>1 DEF vars
<1> QED
  BY <1>4, <1>5, <1>6, <1>7, <1>8, <1>9 DEF Next, Work, Stopped

\* The cursor stands on a page that the earlier pages of its term lead to.
LEMMA NextAsked == IInv /\ [Next]_vars => (Active => Asked(term, page))'
<1> SUFFICES ASSUME IInv, [Next]_vars, pc' \in {"search", "publish"}
             PROVE  Asked(term, page)'
  BY DEF Active
<1>1. TypeOK /\ page \in Nat
  BY PagesFact DEF IInv, TypeOK
<1>2. pc \in {"search", "publish"} => term \in Terms /\ Asked(term, page)
  BY DEF IInv, CursorOK, Active
<1>3. ASSUME page' = 1 PROVE Asked(term, page)'
  BY <1>3 DEF Asked
<1>4. CASE SearchEmpty
  BY <1>2, <1>3, <1>4, NextTermFact DEF SearchEmpty
<1>5. CASE SearchFound
  BY <1>2, <1>5 DEF SearchFound, Asked, Results
<1>6. CASE SearchFails
  <2>1. CASE page' = 1
    BY <1>3, <2>1
  <2>2. CASE page' # 1
    <3>1. /\ page' = page + 1 /\ term' = term
          /\ failed' = failed \cup {<<term, page>>}
          /\ Asked(term, page)
      BY <1>1, <1>2, <1>6, <2>2, NextPageFact, NextTermFact DEF SearchFails
    <3> QED
      BY <1>1, <3>1 DEF Asked, Results
  <2> QED
    BY <2>1, <2>2
<1>7. CASE Publish
  <2>1. /\ pc = "publish" /\ term \in Terms /\ page \in Pages
        /\ result \in 1..Len(Results(term, page))
        /\ failed' = failed
    BY <1>1, <1>2, <1>7 DEF Publish, IInv, CursorOK, TypeOK
  <2>2. Results(term, page) # <<>>
    BY <2>1, ResultsFact
  <2>3. CASE page' = 1
    BY <1>3, <2>3
  <2>4. CASE page' # 1
    <3>1. term' = term /\ (page' = page \/ page' = page + 1)
      <4>1. CASE result = Len(Results(term, page))
        BY <1>1, <1>7, <2>1, <2>4, <4>1, NextPageFact, NextTermFact DEF Publish
      <4>2. CASE result # Len(Results(term, page))
        BY <1>7, <4>2 DEF Publish
      <4> QED
        BY <4>1, <4>2
    <3> QED
      BY <1>1, <1>2, <2>1, <2>2, <3>1 DEF Asked, Results
  <2> QED
    BY <2>3, <2>4
<1>8. CASE Die
  BY <1>8 DEF Die
<1>9. CASE UNCHANGED vars
  BY <1>2, <1>9 DEF vars, Asked, Results
<1> QED
  BY <1>4, <1>5, <1>6, <1>7, <1>8, <1>9 DEF Next, Work, Stopped

\* Nothing is tried twice: the cursor stands on a result not tried before.
LEMMA NextDisjoint == IInv /\ [Next]_vars => sent' \cap unsent' = {}
<1> SUFFICES ASSUME IInv, [Next]_vars PROVE sent' \cap unsent' = {}
  OBVIOUS
<1>1. sent \cap unsent = {}
  BY DEF IInv
<1>2. CASE Publish
  <2>1. /\ pc = "publish" /\ term \in Terms /\ page \in Pages
        /\ result \in Nat \ {0}
    <3>1. term \in Terms /\ page \in Pages /\ result \in Nat
      BY <1>2 DEF Publish, IInv, CursorOK, TypeOK, Active
    <3> QED
      BY <1>2, <3>1, ResultsFact DEF Publish, IInv, CursorOK
  <2>2. ~Passed(term, page, result)
    BY <2>1, PagesFact DEF Passed, Terms
  <2>3. <<term, page, result>> \notin sent \cup unsent
    BY <2>1, <2>2 DEF IInv, TriedIsDue
  <2> QED
    BY <1>1, <1>2, <2>3 DEF Publish
<1>3. CASE ~Publish
  BY <1>1, <1>3 DEF Next, Work, Stopped, SearchEmpty, SearchFound, SearchFails,
                    Die, vars
<1> QED
  BY <1>2, <1>3

LEMMA NextIInv == IInv /\ [Next]_vars => IInv'
  BY NextTypeOK, NextFailedBehind, NextTriedIsDue, NextAsked, NextDisjoint
     DEF IInv

LEMMA Inductive == Spec => []IInv
  BY InitIInv, NextIInv, PTL DEF Spec

-----------------------------------------------------------------------------
(* Theorems *)

\* The cursor stays within the request's terms and pages, whatever maxPages
\* the client sends and whatever fails.
THEOREM TypeCorrect == Spec => []TypeOK
<1>1. IInv => TypeOK
  BY DEF IInv
<1> QED
  BY <1>1, Inductive, PTL

LEMMA IInvTriesAll == IInv => FinishedJobTriedAll
<1>1. ASSUME IInv, pc = "finished"
      PROVE  sent \cup unsent = Due /\ sent \cap unsent = {}
  <2>1. \A t \in Terms, p \in Pages, r \in Nat \ {0} : Passed(t, p, r)
    BY <1>1 DEF Passed, IInv, CursorOK, Terms
  <2>2. \A t \in Terms, p \in Pages, r \in Nat \ {0} :
          <<t, p, r>> \in sent \cup unsent <=> <<t, p, r>> \in Due
    BY <1>1, <2>1, DueFact DEF IInv, TriedIsDue
  <2>3. /\ sent \cup unsent \subseteq Terms \X Pages \X (Nat \ {0})
        /\ Due \subseteq Terms \X Pages \X (Nat \ {0})
    BY <1>1, DueFact DEF IInv, TypeOK
  <2>4. sent \cup unsent = Due
    BY <2>2, <2>3
  <2> QED
    BY <1>1, <2>4 DEF IInv
<1> QED
  BY <1>1 DEF FinishedJobTriedAll

\* A finished job has tried exactly what was due, each result once: no error on
\* a page or a message makes it skip another one, or visit one it should not.
THEOREM TriesAll == Spec => []FinishedJobTriedAll
  BY IInvTriesAll, Inductive, PTL
=============================================================================
