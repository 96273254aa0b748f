---------------------------- MODULE ImportSystem ----------------------------
(***************************************************************************)
(* An import from end to end: the job of ImportJob, which runs as a        *)
(* goroutine of one of the replicas, publishes to the queue that all the   *)
(* replicas of ImportConsumer drain.  A message of the queue is a result   *)
(* of the job: <<term, page, index in the page>>.                          *)
(***************************************************************************)
EXTENDS Integers, Sequences, FiniteSets

CONSTANTS
  SearchTerms, RequestPages, Catalogue,                    \* of ImportJob
  Replicas, WorkerCount, MaxBatch, ImdbIds, Malformed,     \* of ImportConsumer
  Unknown, MovieIds, None, MaxStops,
  Home                    \* the replica that answered POST /movies-import

ASSUME RequestAssumption ==
  /\ SearchTerms \in Seq(DOMAIN Catalogue)
  /\ SearchTerms # <<>>
  /\ RequestPages \in Int
  /\ \A t \in DOMAIN Catalogue : Catalogue[t] \in Seq(Seq(ImdbIds))
ASSUME ReplicaAssumption ==
  /\ Home \in Replicas
  /\ WorkerCount \in Nat /\ MaxBatch \in Nat /\ MaxStops \in Nat

VARIABLES
  pc, term, page, result, sent, unsent, failed,         \* of ImportJob
  queue, movie, proc, disp, batch, chan, worker, stops  \* of ImportConsumer

job == <<pc, term, page, result, sent, unsent, failed>>
consumers == <<queue, movie, proc, disp, batch, chan, worker, stops>>
vars == <<job, consumers>>

J == INSTANCE ImportJob

Messages ==
  UNION {{t} \X {p} \X (1..Len(J!Results(t, p))) :
           t \in 1..Len(SearchTerms), p \in 1..J!MaxPages}

\* What a message asks for: Publish writes the imdbId of the search result.
Asks == [m \in Messages |-> J!Results(m[1], m[2])[m[3]]]

C == INSTANCE ImportConsumer WITH Msgs <- Messages, Body <- Asks

ASSUME DistinctAssumption ==
  /\ None \notin MovieIds /\ None \notin Messages /\ Malformed \notin ImdbIds
  /\ Unknown \subseteq ImdbIds

\* The job looks up a page; its process may be up or stopping.
Search ==
  /\ C!Running(Home)
  /\ J!SearchEmpty \/ J!SearchFound \/ J!SearchFails
  /\ UNCHANGED consumers

\* Mutant of Send: a send that failed counts as one that succeeded.
SendUnchecked ==
  /\ C!Running(Home) /\ J!Publish
  /\ C!Publish(<<term, page, result>>) \/ UNCHANGED consumers

\* A send that the job believes failed may have reached the queue.
Send ==
  /\ C!Running(Home) /\ J!Publish
  /\ LET m == <<term, page, result>>
     IN \/ C!Publish(m)
        \/ m \in unsent' /\ UNCHANGED consumers

\* The process ends and the job, if it still runs, with it.
EndHome ==
  /\ C!FinishStop(Home) \/ C!Crash(Home)
  /\ J!Die \/ (pc \in {"finished", "dead"} /\ UNCHANGED job)

Deliver ==
  /\ \E m \in Messages : C!VisibilityTimeout(m) \/ C!Expire(m)
  /\ UNCHANGED job

Dispatch(r) ==
  /\ \/ C!Receive(r) \/ C!ReceiveNothing(r) \/ C!HandOver(r)
     \/ C!CloseChannel(r) \/ C!AbandonBatch(r) \/ C!Stop(r) \/ C!Start(r)
     \/ r # Home /\ (C!FinishStop(r) \/ C!Crash(r))
  /\ UNCHANGED job

Process(w) == C!WorkerNext(w) /\ UNCHANGED job

Init == J!Init /\ C!Init

Next ==
  \/ Search \/ Send \/ EndHome \/ Deliver
  \/ \E r \in Replicas : Dispatch(r)
  \/ \E w \in C!Workers : Process(w)

Spec == Init /\ [][Next]_vars

\* The goroutines keep moving while their process runs and the services answer
\* in the end (see ImportConsumer).  Nothing is assumed of the processes: a
\* replica may hang in its shutdown or stay down for ever.
Fairness ==
  /\ WF_vars(Search \/ Send)
  /\ C!WorkerFairness /\ C!DispatcherFairness /\ C!ServiceFairness

LiveSpec == Spec /\ Fairness

-----------------------------------------------------------------------------
(* Properties *)

\* Nothing is lost without a trace: when the job has finished, every result it
\* was asked for and could see is in the graph, still in the queue, expired
\* there, or was reported as not sent, whatever failed on the way.
NothingLost ==
  pc = "finished" =>
    \A m \in J!Due :
      \/ movie[Asks[m]] # None
      \/ queue[m] \in {"visible", "hidden", "expired"}
      \/ m \in unsent

\* The import comes to rest.  While there is always again a replica up, the job
\* ends (finished, or with its process) and every movie that it sent and OMDB
\* knows is in the graph, unless its message expired first: with a replica
\* lost, or hung in its shutdown with the message in its channel, and answers
\* lost and calls failing any number of times.
Settled ==
  /\ pc \in {"finished", "dead"}
  /\ \A m \in sent : Asks[m] \notin Unknown =>
       movie[Asks[m]] # None \/ queue[m] = "expired"
ImportComesToRest == []<>(\E r \in Replicas : proc[r] = "up") => <>[]Settled

\* After the dispatcher closed the channel every worker of the process comes
\* to its end, though nothing makes the shutdown itself end.
ClosedChannelEndsWorkers == C!ClosedChannelEndsWorkers
=============================================================================
