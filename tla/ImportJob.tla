----------------------------- MODULE ImportJob -----------------------------
(***************************************************************************)
(* The producer of the import queue: the goroutine that POST /movies-import*)
(* starts after it answered 202.  For each search term it asks OMDB for    *)
(* the pages 1..maxPages, until one is empty, and publishes a message for  *)
(* each result.  A call that fails is logged and passed over: the client   *)
(* is gone, and the detached context is never cancelled.                   *)
(***************************************************************************)
EXTENDS Integers, Sequences, FiniteSets

CONSTANTS
  SearchTerms,  \* the request's search terms, in order
  RequestPages, \* the request's maxPages, any integer
  ImdbIds,
  Catalogue     \* OMDB (external): term -> its pages, in order

ASSUME JobAssumption ==
  /\ SearchTerms \in Seq(DOMAIN Catalogue)
  /\ SearchTerms # <<>>              \* else the handler answers 400
  /\ RequestPages \in Int
  /\ \A t \in DOMAIN Catalogue : Catalogue[t] \in Seq(Seq(ImdbIds))

VARIABLES
  pc,        \* "search", "publish", "finished" or "dead"
  term,      \* index in SearchTerms
  page,
  result,    \* index of the next result of the page to publish
  sent,      \* results a message was sent for: <<term, page, result>>
  unsent,    \* results whose message failed
  failed     \* history: searches that failed, <<term, page>>

vars == <<pc, term, page, result, sent, unsent, failed>>

\* TriggerImport: an absent, zero or negative maxPages is one page.
MaxPages == IF RequestPages <= 0 THEN 1 ELSE RequestPages

\* Search: a page past the last one is empty ("Movie not found!").
Results(t, p) ==
  LET pages == Catalogue[SearchTerms[t]]
  IN IF p <= Len(pages) THEN pages[p] ELSE <<>>

NextTerm ==
  /\ term' = term + 1 /\ page' = 1 /\ result' = 1
  /\ pc' = IF term = Len(SearchTerms) THEN "finished" ELSE "search"

\* Mutants of NextPage: one page too many, or the pages begin again.
NextPageTooMany ==
  IF page > MaxPages
  THEN NextTerm
  ELSE page' = page + 1 /\ result' = 1 /\ pc' = "search" /\ UNCHANGED term
NextPageAgain ==
  /\ page' = (page % MaxPages) + 1 /\ result' = 1 /\ pc' = "search"
  /\ UNCHANGED term

NextPage ==
  IF page = MaxPages
  THEN NextTerm
  ELSE page' = page + 1 /\ result' = 1 /\ pc' = "search" /\ UNCHANGED term

SearchEmpty ==
  /\ pc = "search" /\ Results(term, page) = <<>>
  /\ NextTerm
  /\ UNCHANGED <<sent, unsent, failed>>

SearchFound ==
  /\ pc = "search" /\ Results(term, page) # <<>>
  /\ pc' = "publish"
  /\ UNCHANGED <<term, page, result, sent, unsent, failed>>

\* Mutant of SearchFails: an error ends the term.
FailureEndsTerm ==
  /\ pc = "search"
  /\ NextTerm
  /\ failed' = failed \cup {<<term, page>>}
  /\ UNCHANGED <<sent, unsent>>

SearchFails ==
  /\ pc = "search"
  /\ NextPage
  /\ failed' = failed \cup {<<term, page>>}
  /\ UNCHANGED <<sent, unsent>>

\* Publish one result.  A send that fails may have reached the queue or not;
\* it counts as unsent either way.
Publish ==
  /\ pc = "publish"
  /\ \/ sent' = sent \cup {<<term, page, result>>} /\ UNCHANGED unsent
     \/ unsent' = unsent \cup {<<term, page, result>>} /\ UNCHANGED sent
  /\ IF result = Len(Results(term, page))
     THEN NextPage
     ELSE result' = result + 1 /\ UNCHANGED <<pc, term, page>>
  /\ UNCHANGED failed

\* The process ends; nobody waits for the goroutine or resumes it.
Die ==
  /\ pc \in {"search", "publish"}
  /\ pc' = "dead"
  /\ UNCHANGED <<term, page, result, sent, unsent, failed>>

Stopped == pc \in {"finished", "dead"} /\ UNCHANGED vars

Init ==
  /\ pc = "search" /\ term = 1 /\ page = 1 /\ result = 1
  /\ sent = {} /\ unsent = {} /\ failed = {}

Work == SearchEmpty \/ SearchFound \/ SearchFails \/ Publish
Next == Work \/ Die \/ Stopped

\* OMDB's and SQS's clients bound every call, so the goroutine keeps moving.
Spec == Init /\ [][Next]_vars /\ WF_vars(Work)

-----------------------------------------------------------------------------
(* Properties *)

Terms == 1..Len(SearchTerms)
Pages == 1..MaxPages

TypeOK ==
  /\ pc \in {"search", "publish", "finished", "dead"}
  /\ term \in 1..Len(SearchTerms) + 1
  /\ page \in Pages
  /\ result \in Nat
  /\ sent \cup unsent \subseteq Terms \X Pages \X (Nat \ {0})
  /\ failed \subseteq Terms \X Pages

\* What the job should have asked to be published, given the searches that
\* failed: a failed page hides its own results and does not end its term; the
\* first page seen empty does.
Asked(t, p) ==
  \A q \in 1..(p - 1) : Results(t, q) # <<>> \/ <<t, q>> \in failed
Visible(t, p) ==
  {r \in 1..Len(Results(t, p)) : <<t, p>> \notin failed /\ Asked(t, p)}
Due == UNION {{t} \X {p} \X Visible(t, p) : t \in Terms, p \in Pages}

\* A job that ran to its end tried to publish every result of every page it
\* was asked for and could see, once: no page or term is skipped by an error
\* on another, none is visited after the end of its term.
FinishedJobTriedAll ==
  pc = "finished" => sent \cup unsent = Due /\ sent \cap unsent = {}

\* The goroutine ends: finished, or with its process.
JobEnds == <>(pc \in {"finished", "dead"})

\* openapi.yaml: the pages of each term are fetched and each movie is enqueued
\* in SQS for processing.
EachMovieIsEnqueued == pc = "finished" => Due \subseteq sent
=============================================================================
