--------------------------- MODULE ImportConsumer ---------------------------
(***************************************************************************)
(* The consumers of the movie-import queue.  Each replica of the API runs  *)
(* one dispatcher (Consumer.Start), which long-polls SQS and hands each    *)
(* message over a buffered channel to one of its workers.  A worker looks  *)
(* the movie up, fetches it from OMDB, upserts it in Neo4j and deletes the *)
(* message.  The queue is at-least-once: a message received and not        *)
(* deleted in time is delivered again, also while a slow worker or the     *)
(* channel still holds it.                                                 *)
(*                                                                         *)
(* An action is one call to SQS, OMDB or Neo4j, or one channel operation.  *)
(***************************************************************************)
EXTENDS Integers, Sequences, FiniteSets

CONSTANTS
  Replicas,     \* processes running the API
  WorkerCount,  \* SQS_WORKER_COUNT: workers, and the channel's capacity
  MaxBatch,     \* MaxNumberOfMessages of a receive
  Msgs,         \* the messages that may be sent
  ImdbIds,
  Body,         \* the imdbId of each message, or Malformed
  Malformed,    \* a body that is not the expected JSON
  Unknown,      \* imdbIds for which OMDB has no movie
  MovieIds,     \* uuids
  None,
  MaxStops      \* bound on the shutdowns and crashes of a behaviour

ASSUME CountAssumption ==
  WorkerCount \in Nat /\ MaxBatch \in Nat /\ MaxStops \in Nat
ASSUME BodyAssumption == Body \in [Msgs -> ImdbIds \cup {Malformed}]
ASSUME DistinctAssumption ==
  /\ None \notin MovieIds /\ None \notin Msgs /\ Malformed \notin ImdbIds
  /\ Unknown \subseteq ImdbIds

VARIABLES
  queue,   \* SQS: state of each message
  movie,   \* Neo4j: imdbId -> id of its Movie node, or None
  proc,    \* state of each replica's process
  disp,    \* where its dispatcher stands
  batch,   \* messages received and not yet handed over
  chan,    \* msgCh
  worker,  \* <<replica, number>> -> its program counter and its message
  stops    \* shutdowns and crashes so far

vars == <<queue, movie, proc, disp, batch, chan, worker, stops>>

Workers == Replicas \X (1..WorkerCount)

Idle == [pc |-> "idle", msg |-> None]

\* Messages SQS keeps: not unsent, deleted, or expired by its retention.
Kept(m) == queue[m] \in {"visible", "hidden"}

Step(w, pc) == worker' = [worker EXCEPT ![w].pc = pc]

\* Mutant of Drop: a worker that gives a message up leaves its loop.
DropExits(w) == worker' = [worker EXCEPT ![w] = [pc |-> "exited", msg |-> None]]

\* The next turn of the loop.
Drop(w) == worker' = [worker EXCEPT ![w] = Idle]

-----------------------------------------------------------------------------
(* The queue (external) and its producer *)

Publish(m) ==
  /\ queue[m] = "unsent"
  /\ queue' = [queue EXCEPT ![m] = "visible"]
  /\ UNCHANGED <<movie, proc, disp, batch, chan, worker, stops>>

\* The visibility timeout runs from the receive, whoever holds the message.
VisibilityTimeout(m) ==
  /\ queue[m] = "hidden"
  /\ queue' = [queue EXCEPT ![m] = "visible"]
  /\ UNCHANGED <<movie, proc, disp, batch, chan, worker, stops>>

\* The queue has no dead-letter queue: what fails is retried until the
\* retention period ends.
Expire(m) ==
  /\ Kept(m)
  /\ queue' = [queue EXCEPT ![m] = "expired"]
  /\ UNCHANGED <<movie, proc, disp, batch, chan, worker, stops>>

-----------------------------------------------------------------------------
(* The dispatcher, Consumer.Start *)

Running(r) == proc[r] \in {"up", "stopping"}
Stopping(r) == proc[r] = "stopping"

\* ReceiveMessage answers with some visible messages.  The context may be
\* cancelled while the call is under way.
Receive(r) ==
  /\ Running(r) /\ disp[r] = "receive"
  /\ \E got \in SUBSET {m \in Msgs : queue[m] = "visible"} :
       /\ got # {} /\ Cardinality(got) <= MaxBatch
       /\ queue' = [m \in Msgs |-> IF m \in got THEN "hidden" ELSE queue[m]]
       /\ batch' = [batch EXCEPT ![r] = got]
  /\ disp' = [disp EXCEPT ![r] = "handOver"]
  /\ UNCHANGED <<movie, proc, chan, worker, stops>>

\* The answer is empty, or it is lost after SQS hid the messages: either way
\* the dispatcher polls again.
ReceiveNothing(r) ==
  /\ Running(r) /\ disp[r] = "receive"
  /\ \E lost \in SUBSET {m \in Msgs : queue[m] = "visible"} :
       /\ Cardinality(lost) <= MaxBatch
       /\ queue' = [m \in Msgs |-> IF m \in lost THEN "hidden" ELSE queue[m]]
  /\ UNCHANGED <<movie, proc, disp, batch, chan, worker, stops>>

\* msgCh <- msg, when the channel has room.
HandOver(r) ==
  /\ Running(r) /\ disp[r] = "handOver"
  /\ Len(chan[r]) < WorkerCount
  /\ \E m \in batch[r] :
       /\ chan' = [chan EXCEPT ![r] = Append(@, m)]
       /\ batch' = [batch EXCEPT ![r] = @ \ {m}]
       /\ disp' = [disp EXCEPT ![r] =
                     IF batch[r] = {m} THEN "receive" ELSE "handOver"]
  /\ UNCHANGED <<queue, movie, proc, worker, stops>>

\* Mutant of CloseChannel: a done context ends a hand-over in the same way.
CloseEarly(r) ==
  /\ Stopping(r) /\ disp[r] \in {"receive", "handOver"}
  /\ disp' = [disp EXCEPT ![r] = "closed"]
  /\ UNCHANGED <<queue, movie, proc, batch, chan, worker, stops>>

\* The outer select finds the context done: close(msgCh).
CloseChannel(r) ==
  /\ Stopping(r) /\ disp[r] = "receive"
  /\ disp' = [disp EXCEPT ![r] = "closed"]
  /\ UNCHANGED <<queue, movie, proc, batch, chan, worker, stops>>

\* The inner select does, which it may also when the channel has room: the
\* dispatcher returns without closing the channel.
AbandonBatch(r) ==
  /\ Stopping(r) /\ disp[r] = "handOver"
  /\ disp' = [disp EXCEPT ![r] = "returned"]
  /\ batch' = [batch EXCEPT ![r] = {}]
  /\ UNCHANGED <<queue, movie, proc, chan, worker, stops>>

-----------------------------------------------------------------------------
(* A worker.  A call begun before the context was cancelled may still      *)
(* succeed, and one begun after it fails, so while stopping both happen.   *)

\* A body that does not parse is dropped: not deleted, so delivered again.
Take(w) ==
  LET r == w[1]
  IN /\ Running(r) /\ worker[w].pc = "idle" /\ chan[r] # <<>>
     /\ chan' = [chan EXCEPT ![r] = Tail(@)]
     /\ worker' = [worker EXCEPT ![w] =
          IF Body[Head(chan[r])] = Malformed THEN Idle
          ELSE [pc |-> "lookup", msg |-> Head(chan[r])]]
     /\ UNCHANGED <<queue, movie, proc, disp, batch, stops>>

\* Mutant of Exit: the loop does not notice that the channel is closed.
ExitMissed(w) ==
  /\ worker[w].pc = "idle" /\ disp[w[1]] = "closed"
  /\ Step(w, "idle")
  /\ UNCHANGED <<queue, movie, proc, disp, batch, chan, stops>>

\* The range loop ends when the channel is closed and drained.
Exit(w) ==
  LET r == w[1]
  IN /\ Running(r) /\ worker[w].pc = "idle"
     /\ chan[r] = <<>> /\ disp[r] = "closed"
     /\ Step(w, "exited")
     /\ UNCHANGED <<queue, movie, proc, disp, batch, chan, stops>>

\* Mutant of Lookup: a lookup that fails counts as a movie found.
LookupSkips(w) ==
  /\ worker[w].pc = "lookup"
  /\ Step(w, "delete")
  /\ UNCHANGED <<queue, movie, proc, disp, batch, chan, stops>>

\* FindByImdbID: skip a movie that is there; fetch it when it is not, or when
\* the lookup failed.
Lookup(w) ==
  /\ worker[w].pc = "lookup"
  /\ \/ movie[Body[worker[w].msg]] # None /\ Step(w, "delete")
     \/ Step(w, "fetch")
  /\ UNCHANGED <<queue, movie, proc, disp, batch, chan, stops>>

\* FetchByImdbID; OMDB answers with the imdbId it was asked for.
FetchOk(w) ==
  /\ worker[w].pc = "fetch"
  /\ Body[worker[w].msg] \notin Unknown
  /\ Step(w, "upsert")
  /\ UNCHANGED <<queue, movie, proc, disp, batch, chan, stops>>

\* Mutant of ProcessFails: the message is deleted all the same.
FailureDeletes(w) ==
  /\ worker[w].pc \in {"fetch", "upsert"}
  /\ Step(w, "delete")
  /\ UNCHANGED <<queue, movie, proc, disp, batch, chan, stops>>

\* Any call of Process returns an error: the message is not deleted.
ProcessFails(w) ==
  /\ worker[w].pc \in {"fetch", "upsert"}
  /\ Drop(w)
  /\ UNCHANGED <<queue, movie, proc, disp, batch, chan, stops>>

\* Mutants of Merge: the id is set whether the node is new or not, or it is
\* the imdbId.
MergeSetsId(w) ==
  \E id \in MovieIds :
    /\ \A j \in ImdbIds : movie[j] # id
    /\ movie' = [movie EXCEPT ![Body[worker[w].msg]] = id]
MergeImdbId(w) ==
  LET i == Body[worker[w].msg] IN movie' = [movie EXCEPT ![i] = i]

\* MERGE on imdbId under its uniqueness constraint: a uuid is drawn for every
\* upsert and set only when the node is created.
Merge(w) ==
  LET i == Body[worker[w].msg]
  IN \E id \in MovieIds :
       /\ \A j \in ImdbIds : movie[j] # id
       /\ movie' = IF movie[i] = None THEN [movie EXCEPT ![i] = id] ELSE movie

\* The commit happens; its answer may be lost, and the worker sees an error.
Upsert(w) ==
  /\ worker[w].pc = "upsert"
  /\ Merge(w)
  /\ Step(w, "delete") \/ Drop(w)
  /\ UNCHANGED <<queue, proc, disp, batch, chan, stops>>

UpsertOk(w) == Upsert(w) /\ Step(w, "delete")

\* DeleteMessage.  A failure is only logged.  With a receipt handle that a
\* later delivery has replaced, SQS may or may not delete the message.
Delete(w) ==
  /\ worker[w].pc = "delete"
  /\ LET m == worker[w].msg
     IN \/ Kept(m) /\ queue' = [queue EXCEPT ![m] = "deleted"]
        \/ UNCHANGED queue
  /\ Drop(w)
  /\ UNCHANGED <<movie, proc, disp, batch, chan, stops>>

-----------------------------------------------------------------------------
(* The process: fx starts the consumer, cancels it first when it stops, and *)
(* waits for none of its goroutines.                                        *)

Stop(r) ==
  /\ proc[r] = "up" /\ stops < MaxStops
  /\ proc' = [proc EXCEPT ![r] = "stopping"]
  /\ stops' = stops + 1
  /\ UNCHANGED <<queue, movie, disp, batch, chan, worker>>

\* The end of a shutdown, or a crash: the channel and the workers are gone.
End(r) ==
  /\ proc' = [proc EXCEPT ![r] = "down"]
  /\ disp' = [disp EXCEPT ![r] = "receive"]
  /\ batch' = [batch EXCEPT ![r] = {}]
  /\ chan' = [chan EXCEPT ![r] = <<>>]
  /\ worker' = [w \in Workers |-> IF w[1] = r THEN Idle ELSE worker[w]]
  /\ UNCHANGED <<queue, movie>>

FinishStop(r) == Stopping(r) /\ End(r) /\ UNCHANGED stops
Crash(r) == proc[r] = "up" /\ stops < MaxStops /\ End(r) /\ stops' = stops + 1

Start(r) ==
  /\ proc[r] = "down"
  /\ proc' = [proc EXCEPT ![r] = "up"]
  /\ UNCHANGED <<queue, movie, disp, batch, chan, worker, stops>>

-----------------------------------------------------------------------------
Init ==
  /\ queue = [m \in Msgs |-> "unsent"]
  /\ movie = [i \in ImdbIds |-> None]
  /\ proc = [r \in Replicas |-> "up"]
  /\ disp = [r \in Replicas |-> "receive"]
  /\ batch = [r \in Replicas |-> {}]
  /\ chan = [r \in Replicas |-> <<>>]
  /\ worker = [w \in Workers |-> Idle]
  /\ stops = 0

QueueNext(m) == Publish(m) \/ VisibilityTimeout(m) \/ Expire(m)

ReplicaNext(r) ==
  \/ Receive(r) \/ ReceiveNothing(r) \/ HandOver(r)
  \/ CloseChannel(r) \/ AbandonBatch(r)
  \/ Stop(r) \/ FinishStop(r) \/ Crash(r) \/ Start(r)

WorkerNext(w) ==
  \/ Take(w) \/ Exit(w) \/ Lookup(w) \/ FetchOk(w) \/ ProcessFails(w)
  \/ Upsert(w) \/ Delete(w)

Next ==
  \/ \E m \in Msgs : QueueNext(m)
  \/ \E r \in Replicas : ReplicaNext(r)
  \/ \E w \in Workers : WorkerNext(w)

Spec == Init /\ [][Next]_vars

\* Every call a worker makes is bounded in time and the channel never blocks
\* it for ever, so it keeps moving; so does the dispatcher of a live process.
WorkerFairness == \A w \in Workers : WF_vars(WorkerNext(w))
DispatcherFairness ==
  \A r \in Replicas : WF_vars(HandOver(r)) /\ WF_vars(CloseChannel(r))

\* Of the services: SQS makes a hidden message visible again and starves none
\* that is polled for again and again; OMDB and Neo4j answer a request that is
\* made again and again.
ReceiveOf(m) == \E r \in Replicas : Receive(r) /\ m \in batch'[r]
ServiceFairness ==
  \A m \in Msgs :
    /\ WF_vars(VisibilityTimeout(m))
    /\ SF_vars(ReceiveOf(m))
    /\ SF_vars(\E w \in Workers : worker[w].msg = m /\ FetchOk(w))
    /\ SF_vars(\E w \in Workers : worker[w].msg = m /\ UpsertOk(w))

-----------------------------------------------------------------------------
(* Properties *)

TypeOK ==
  /\ queue \in [Msgs -> {"unsent", "visible", "hidden", "deleted", "expired"}]
  /\ movie \in [ImdbIds -> MovieIds \cup {None}]
  /\ proc \in [Replicas -> {"up", "stopping", "down"}]
  /\ disp \in [Replicas -> {"receive", "handOver", "closed", "returned"}]
  /\ batch \in [Replicas -> SUBSET Msgs]
  /\ chan \in [Replicas -> Seq(Msgs)]
  /\ worker \in [Workers ->
       [pc : {"idle", "lookup", "fetch", "upsert", "delete", "exited"},
        msg : Msgs \cup {None}]]
  /\ stops \in Nat

\* At-least-once processing: whatever crashes, times out or is delivered
\* twice, a message is deleted only when its movie is in the graph.  A message
\* that cannot be processed (it does not parse, OMDB does not know the movie)
\* is never deleted.
DeletedMeansImported ==
  \A m \in Msgs : queue[m] = "deleted" =>
    /\ Body[m] \in ImdbIds \ Unknown
    /\ movie[Body[m]] # None

\* A movie keeps its id, by which clients and watch requests name it, however
\* many deliveries and workers upsert it at once; two movies never share one.
IdsKept ==
  /\ \A i \in ImdbIds : movie[i] # None => movie'[i] = movie[i]
  /\ \A i, j \in ImdbIds :
       (movie'[i] # None /\ movie'[i] = movie'[j]) => i = j
MovieIdsStable == [][IdsKept]_vars

\* Nothing is stranded in a closed channel: a worker leaves only when the
\* dispatcher has handed over all it received and the workers took all of it.
ExitMeansDrained ==
  \A w \in Workers : worker[w].pc = "exited" =>
    disp[w[1]] = "closed" /\ batch[w[1]] = {} /\ chan[w[1]] = <<>>

\* The consumers implement the at-least-once import of AtLeastOnceImport.
Promise == INSTANCE AtLeastOnceImport WITH
  requested <- {m \in Msgs : queue[m] # "unsent"},
  acknowledged <- {m \in Msgs : queue[m] = "deleted"}
ImplementsPromise == Promise!Spec

\* After the dispatcher closed the channel every worker of the process comes
\* to its end.  (Not so when it returned from a hand-over: see AbandonBatch.)
ClosedChannelEndsWorkers ==
  \A r \in Replicas :
    disp[r] = "closed" ~>
      \/ proc[r] = "down"
      \/ \A w \in Workers : w[1] = r => worker[w].pc = "exited"
=============================================================================
