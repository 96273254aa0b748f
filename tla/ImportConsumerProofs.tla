------------------------ MODULE ImportConsumerProofs ------------------------
(***************************************************************************)
(* Theorems about ImportConsumer, for any number of replicas, workers,     *)
(* messages and crashes.  The inductive invariant says what a worker knows *)
(* of the message it holds at each step, and that whatever a replica holds *)
(* was sent: neither is disturbed by redelivery, by other workers or by    *)
(* the end of other processes.                                             *)
(***************************************************************************)
EXTENDS ImportConsumer, TLAPS

Sent(m) == queue[m] # "unsent"

\* What a worker at each step knows of its message.
WorkerKnows(w) ==
  LET m == worker[w].msg
  IN /\ worker[w].pc \in {"lookup", "fetch", "upsert", "delete"} =>
          m \in Msgs /\ Sent(m) /\ Body[m] \in ImdbIds
     /\ worker[w].pc = "upsert" => Body[m] \notin Unknown
     /\ worker[w].pc = "delete" => movie[Body[m]] # None

WorkersKnow == \A w \in Workers : WorkerKnows(w)

\* Only messages that were sent are handed around.
HeldWereSent ==
  \A r \in Replicas :
    /\ \A m \in batch[r] : Sent(m)
    /\ \A k \in 1..Len(chan[r]) : Sent(chan[r][k])

ImportedAreKnown == \A i \in ImdbIds : movie[i] # None => i \notin Unknown

IdsDistinct ==
  \A i, j \in ImdbIds : (movie[i] # None /\ movie[i] = movie[j]) => i = j

BatchOnlyInHandOver ==
  \A r \in Replicas : disp[r] # "handOver" => batch[r] = {}

IInv == /\ TypeOK /\ WorkersKnow /\ HeldWereSent /\ ImportedAreKnown
        /\ IdsDistinct /\ BatchOnlyInHandOver
        /\ DeletedMeansImported /\ ExitMeansDrained

-----------------------------------------------------------------------------
(* Type correctness *)

LEMMA InitTypeOK == Init => TypeOK
  BY CountAssumption DEF Init, TypeOK, Idle, Workers

\* Every step keeps the types.
LEMMA NextTypeOK == TypeOK /\ [Next]_vars => TypeOK'
<1> SUFFICES ASSUME TypeOK, [Next]_vars PROVE TypeOK'
  OBVIOUS
<1> USE CountAssumption DEF TypeOK
<1>1. ASSUME NEW m \in Msgs, QueueNext(m) PROVE TypeOK'
  BY <1>1 DEF QueueNext, Publish, VisibilityTimeout, Expire
<1>2. ASSUME NEW r \in Replicas, ReplicaNext(r) PROVE TypeOK'
  <2>1. CASE Receive(r)
    BY <2>1 DEF Receive
  <2>2. CASE ReceiveNothing(r)
    BY <2>2 DEF ReceiveNothing
  <2>3. CASE HandOver(r)
    BY <2>3 DEF HandOver
  <2>4. CASE CloseChannel(r)
    BY <2>4 DEF CloseChannel
  <2>5. CASE AbandonBatch(r)
    BY <2>5 DEF AbandonBatch
  <2>6. CASE Stop(r)
    BY <2>6 DEF Stop
  <2>7. CASE FinishStop(r)
    BY <2>7 DEF FinishStop, End, Idle
  <2>8. CASE Crash(r)
    BY <2>8 DEF Crash, End, Idle
  <2>9. CASE Start(r)
    BY <2>9 DEF Start
  <2> QED
    BY <1>2, <2>1, <2>2, <2>3, <2>4, <2>5, <2>6, <2>7, <2>8, <2>9
    DEF ReplicaNext
<1>3. ASSUME NEW w \in Workers, WorkerNext(w) PROVE TypeOK'
  <2>0. w[1] \in Replicas
    BY DEF Workers
  <2>1. CASE Take(w)
    <3>1. Head(chan[w[1]]) \in Msgs /\ Tail(chan[w[1]]) \in Seq(Msgs)
      BY <2>0, <2>1 DEF Take
    <3> QED
      BY <2>0, <2>1, <3>1 DEF Take, Idle
  <2>2. CASE Exit(w)
    BY <2>2 DEF Exit, Step
  <2>3. CASE Lookup(w)
    BY <2>3 DEF Lookup, Step
  <2>4. CASE FetchOk(w)
    BY <2>4 DEF FetchOk, Step
  <2>5. CASE ProcessFails(w)
    BY <2>5 DEF ProcessFails, Drop, Idle
  <2>6. CASE Upsert(w)
    <3>1. movie' \in [ImdbIds -> MovieIds \cup {None}]
      BY <2>6 DEF Upsert, Merge
    <3>2. worker' \in [Workers ->
            [pc : {"idle", "lookup", "fetch", "upsert", "delete", "exited"},
             msg : Msgs \cup {None}]]
      <4>1. CASE Step(w, "delete")
        BY <4>1 DEF Step
      <4>2. CASE Drop(w)
        BY <4>2 DEF Drop, Idle
      <4> QED
        BY <2>6, <4>1, <4>2 DEF Upsert
    <3> QED
      BY <2>6, <3>1, <3>2 DEF Upsert
  <2>7. CASE Delete(w)
    <3>1. queue' \in [Msgs ->
            {"unsent", "visible", "hidden", "deleted", "expired"}]
      BY <2>7 DEF Delete
    <3>2. worker' \in [Workers ->
            [pc : {"idle", "lookup", "fetch", "upsert", "delete", "exited"},
             msg : Msgs \cup {None}]]
      BY <2>7 DEF Delete, Drop, Idle
    <3> QED
      BY <2>7, <3>1, <3>2 DEF Delete
  <2> QED
    BY <1>3, <2>1, <2>2, <2>3, <2>4, <2>5, <2>6, <2>7 DEF WorkerNext
<1>4. CASE UNCHANGED vars
  BY <1>4 DEF vars
<1> QED
  BY <1>1, <1>2, <1>3, <1>4 DEF Next

\* Every variable keeps its type.
THEOREM TypeCorrect == Spec => []TypeOK
  BY InitTypeOK, NextTypeOK, PTL DEF Spec

-----------------------------------------------------------------------------
(* The inductive invariant *)

LEMMA InitIInv == Init => IInv
<1> SUFFICES ASSUME Init PROVE IInv
  OBVIOUS
<1>1. TypeOK
  BY InitTypeOK
<1>2. WorkersKnow /\ ExitMeansDrained
  BY DEF Init, WorkersKnow, WorkerKnows, ExitMeansDrained, Idle
<1>3. HeldWereSent /\ BatchOnlyInHandOver
  BY DEF Init, HeldWereSent, BatchOnlyInHandOver
<1>4. ImportedAreKnown /\ IdsDistinct /\ DeletedMeansImported
  BY DEF Init, ImportedAreKnown, IdsDistinct, DeletedMeansImported
<1> QED
  BY <1>1, <1>2, <1>3, <1>4 DEF IInv

\* A step that leaves the workers alone, forgets no sending and no import
\* leaves them what they know.
LEMMA KnowledgeKept ==
  ASSUME WorkersKnow, worker' = worker,
         \A m \in Msgs : Sent(m) => Sent(m)',
         \A i \in ImdbIds : movie[i] # None => movie'[i] # None
  PROVE  WorkersKnow'
  BY DEF WorkersKnow, WorkerKnows, Workers

\* A step of the queue moves a message between its states; none makes it
\* unsent or deleted.
LEMMA QueueKeepsIInv ==
  ASSUME IInv, NEW m \in Msgs, QueueNext(m)
  PROVE  IInv'
<1>1. TypeOK'
  BY NextTypeOK DEF Next, IInv
<1>2. /\ UNCHANGED <<movie, proc, disp, batch, chan, worker, stops>>
      /\ \A k \in Msgs : Sent(k) => Sent(k)'
      /\ \A k \in Msgs : queue'[k] = "deleted" => queue[k] = "deleted"
  BY DEF QueueNext, Publish, VisibilityTimeout, Expire, Kept, Sent, IInv, TypeOK
<1>3. WorkersKnow'
  BY <1>2, KnowledgeKept DEF IInv
<1>4. HeldWereSent'
  BY <1>2 DEF IInv, HeldWereSent, TypeOK
<1>5. (ImportedAreKnown /\ IdsDistinct /\ BatchOnlyInHandOver)'
  BY <1>2 DEF IInv, ImportedAreKnown, IdsDistinct, BatchOnlyInHandOver
<1>6. (DeletedMeansImported /\ ExitMeansDrained)'
  BY <1>2 DEF IInv, DeletedMeansImported, ExitMeansDrained
<1> QED
  BY <1>1, <1>3, <1>4, <1>5, <1>6 DEF IInv

\* The dispatcher hands on only what it received, closes the channel only
\* between batches, and takes nothing from a worker that exited; the end of a
\* process forgets what it held and nothing else.
LEMMA ReplicaKeepsIInv ==
  ASSUME IInv, NEW r \in Replicas, ReplicaNext(r)
  PROVE  IInv'
<1>0. TypeOK'
  BY NextTypeOK DEF Next, IInv
<1> USE DEF IInv
<1>1. /\ UNCHANGED movie
      /\ \A m \in Msgs : Sent(m) => Sent(m)'
      /\ \A m \in Msgs : queue'[m] = "deleted" => queue[m] = "deleted"
  <2>1. CASE Receive(r)
    BY <2>1 DEF Receive, Sent
  <2>2. CASE ReceiveNothing(r)
    BY <2>2 DEF ReceiveNothing, Sent
  <2>3. CASE UNCHANGED <<queue, movie>>
    BY <2>3 DEF Sent
  <2> QED
    BY <2>1, <2>2, <2>3
    DEF ReplicaNext, HandOver, CloseChannel, AbandonBatch, Stop, FinishStop,
        Crash, End, Start
<1>2. (ImportedAreKnown /\ IdsDistinct /\ DeletedMeansImported)'
  BY <1>1 DEF ImportedAreKnown, IdsDistinct, DeletedMeansImported
<1>3. ASSUME End(r)
      PROVE  (WorkersKnow /\ HeldWereSent /\ BatchOnlyInHandOver
                /\ ExitMeansDrained)'
  <2>1. WorkersKnow'
    BY <1>3 DEF End, Idle, WorkersKnow, WorkerKnows, Sent
  <2>2. HeldWereSent'
    <3> SUFFICES ASSUME NEW q \in Replicas
                 PROVE  /\ \A m \in batch'[q] : Sent(m)'
                        /\ \A k \in 1..Len(chan'[q]) : Sent(chan[q][k])'
      BY DEF HeldWereSent
    <3>1. CASE q = r
      BY <3>1, <1>3 DEF End, TypeOK
    <3>2. CASE q # r
      BY <3>2, <1>3 DEF End, TypeOK, HeldWereSent, Sent
    <3> QED
      BY <3>1, <3>2
  <2>3. BatchOnlyInHandOver'
    BY <1>3 DEF End, BatchOnlyInHandOver, TypeOK
  <2>4. ExitMeansDrained'
    <3> SUFFICES ASSUME NEW w \in Workers, worker'[w].pc = "exited"
                 PROVE  /\ disp'[w[1]] = "closed" /\ batch'[w[1]] = {}
                        /\ chan'[w[1]] = <<>>
      BY DEF ExitMeansDrained
    <3>1. w[1] \in Replicas
      BY DEF Workers
    <3>2. w[1] # r /\ worker'[w] = worker[w]
      BY <1>3 DEF End, Idle
    <3> QED
      BY <1>3, <3>1, <3>2 DEF End, ExitMeansDrained, TypeOK
  <2> QED
    BY <2>1, <2>2, <2>3, <2>4
<1>4. CASE Receive(r) \/ ReceiveNothing(r)
  <2>1. WorkersKnow'
    BY <1>1, <1>4, KnowledgeKept DEF Receive, ReceiveNothing
  <2>2. CASE Receive(r)
    <3>1. PICK got \in SUBSET {m \in Msgs : queue[m] = "visible"} :
            /\ got # {}
            /\ queue' = [m \in Msgs |->
                           IF m \in got THEN "hidden" ELSE queue[m]]
            /\ batch' = [batch EXCEPT ![r] = got]
      BY <2>2 DEF Receive
    <3>2. HeldWereSent'
      <4>1. \A q \in Replicas : \A m \in batch'[q] : Sent(m)'
        BY <1>1, <3>1 DEF HeldWereSent, TypeOK, Sent
      <4>2. chan' = chan
        BY <2>2 DEF Receive
      <4> QED
        BY <1>1, <4>1, <4>2 DEF HeldWereSent, TypeOK
    <3>3. BatchOnlyInHandOver'
      BY <2>2, <3>1 DEF Receive, BatchOnlyInHandOver, TypeOK
    <3>4. ExitMeansDrained'
      BY <2>2, <3>1 DEF Receive, ExitMeansDrained, TypeOK, Workers
    <3> QED
      BY <1>0, <1>2, <2>1, <3>2, <3>3, <3>4
  <2>3. CASE ReceiveNothing(r)
    <3>1. HeldWereSent'
      BY <1>1, <2>3 DEF ReceiveNothing, HeldWereSent, TypeOK
    <3>2. (BatchOnlyInHandOver /\ ExitMeansDrained)'
      BY <2>3 DEF ReceiveNothing, BatchOnlyInHandOver, ExitMeansDrained
    <3> QED
      BY <1>0, <1>2, <2>1, <3>1, <3>2
  <2> QED
    BY <1>4, <2>2, <2>3
<1>5. CASE HandOver(r)
  <2>1. WorkersKnow'
    BY <1>1, <1>5, KnowledgeKept DEF HandOver
  <2>2. PICK m \in batch[r] :
          /\ chan' = [chan EXCEPT ![r] = Append(@, m)]
          /\ batch' = [batch EXCEPT ![r] = @ \ {m}]
          /\ disp' = [disp EXCEPT ![r] =
                        IF batch[r] = {m} THEN "receive" ELSE "handOver"]
    BY <1>5 DEF HandOver
  <2>3. disp[r] = "handOver" /\ UNCHANGED <<queue, worker>>
    BY <1>5 DEF HandOver
  <2>4. HeldWereSent'
    <3> SUFFICES ASSUME NEW q \in Replicas
                 PROVE  /\ \A k \in batch'[q] : Sent(k)'
                        /\ \A k \in 1..Len(chan'[q]) : Sent(chan[q][k])'
      BY DEF HeldWereSent
    <3>1. CASE q = r
      <4>1. Sent(m) /\ m \in Msgs
        BY DEF HeldWereSent, TypeOK
      <4>2. chan'[r] = Append(chan[r], m) /\ chan[r] \in Seq(Msgs)
        BY <2>2 DEF TypeOK
      <4>3. \A k \in 1..Len(chan'[r]) :
              chan'[r][k] = m
                \/ (k \in 1..Len(chan[r]) /\ chan'[r][k] = chan[r][k])
        BY <4>2
      <4> QED
        BY <2>2, <2>3, <3>1, <4>1, <4>3 DEF HeldWereSent, Sent, TypeOK
    <3>2. CASE q # r
      BY <2>2, <2>3, <3>2 DEF HeldWereSent, Sent, TypeOK
    <3> QED
      BY <3>1, <3>2
  <2>5. BatchOnlyInHandOver'
    BY <2>2 DEF BatchOnlyInHandOver, TypeOK
  <2>6. ExitMeansDrained'
    BY <2>2, <2>3 DEF ExitMeansDrained, TypeOK, Workers
  <2> QED
    BY <1>0, <1>2, <2>1, <2>4, <2>5, <2>6
<1>6. CASE CloseChannel(r) \/ AbandonBatch(r)
  <2>1. WorkersKnow'
    BY <1>1, <1>6, KnowledgeKept DEF CloseChannel, AbandonBatch
  <2>2. HeldWereSent'
    <3>1. CASE CloseChannel(r)
      BY <1>1, <3>1 DEF CloseChannel, HeldWereSent, TypeOK
    <3>2. CASE AbandonBatch(r)
      <4>1. \A q \in Replicas : \A m \in batch'[q] : Sent(m)'
        BY <1>1, <3>2 DEF AbandonBatch, HeldWereSent, TypeOK
      <4>2. chan' = chan
        BY <3>2 DEF AbandonBatch
      <4> QED
        BY <1>1, <4>1, <4>2 DEF HeldWereSent, TypeOK
    <3> QED
      BY <1>6, <3>1, <3>2
  <2>3. BatchOnlyInHandOver'
    BY <1>6 DEF CloseChannel, AbandonBatch, BatchOnlyInHandOver, TypeOK
  <2>4. ExitMeansDrained'
    BY <1>6
    DEF CloseChannel, AbandonBatch, ExitMeansDrained, TypeOK, Workers
  <2> QED
    BY <1>0, <1>2, <2>1, <2>2, <2>3, <2>4
<1>7. CASE Stop(r) \/ Start(r)
  <2>1. UNCHANGED <<queue, movie, disp, batch, chan, worker>>
    BY <1>7 DEF Stop, Start
  <2> QED
    BY <1>0, <1>2, <2>1, KnowledgeKept
    DEF WorkersKnow, WorkerKnows, HeldWereSent, BatchOnlyInHandOver,
        ExitMeansDrained, Sent
<1>8. CASE FinishStop(r) \/ Crash(r)
  BY <1>0, <1>2, <1>3, <1>8 DEF FinishStop, Crash
<1> QED
  BY <1>4, <1>5, <1>6, <1>7, <1>8 DEF ReplicaNext

\* A worker learns at each call what the next one relies on; it takes from
\* the channel only what was sent, and sees the channel empty when it exits.
LEMMA WorkerKeepsIInv ==
  ASSUME IInv, NEW w \in Workers, WorkerNext(w)
  PROVE  IInv'
<1>0. TypeOK' /\ w[1] \in Replicas
  BY NextTypeOK DEF Next, IInv, Workers
<1> USE DEF IInv
<1>1. CASE Take(w)
  <2> DEFINE r == w[1]
             m == Head(chan[r])
  <2>1. /\ chan[r] \in Seq(Msgs) /\ chan[r] # <<>>
        /\ chan' = [chan EXCEPT ![r] = Tail(@)]
        /\ UNCHANGED <<queue, movie, proc, disp, batch, stops>>
    BY <1>0, <1>1 DEF Take, TypeOK
  <2>2. m \in Msgs /\ Sent(m)
    BY <1>0, <2>1 DEF HeldWereSent
  <2>3. \A k \in 1..Len(chan'[r]) :
          k + 1 \in 1..Len(chan[r]) /\ chan'[r][k] = chan[r][k + 1]
    BY <1>0, <2>1 DEF TypeOK
  <2>4. WorkersKnow'
    <3> SUFFICES ASSUME NEW v \in Workers PROVE WorkerKnows(v)'
      BY DEF WorkersKnow
    <3>1. CASE v = w
      <4>1. worker'[w] = IF Body[m] = Malformed THEN Idle
                         ELSE [pc |-> "lookup", msg |-> m]
        BY <1>1 DEF Take, TypeOK
      <4>2. CASE Body[m] = Malformed
        BY <3>1, <4>1, <4>2 DEF WorkerKnows, Idle
      <4>3. CASE Body[m] # Malformed
        BY <2>1, <2>2, <3>1, <4>1, <4>3, BodyAssumption
        DEF WorkerKnows, Sent
      <4> QED
        BY <4>2, <4>3
    <3>2. CASE v # w
      <4>1. worker'[v] = worker[v]
        BY <1>1, <3>2 DEF Take, TypeOK
      <4> QED
        BY <2>1, <4>1 DEF WorkersKnow, WorkerKnows, Sent
    <3> QED
      BY <3>1, <3>2
  <2>5. HeldWereSent'
    <3> SUFFICES ASSUME NEW q \in Replicas
                 PROVE  /\ \A k \in batch'[q] : Sent(k)'
                        /\ \A k \in 1..Len(chan'[q]) : Sent(chan[q][k])'
      BY DEF HeldWereSent
    <3>1. CASE q = r
      BY <2>1, <2>3, <3>1 DEF HeldWereSent, Sent
    <3>2. CASE q # r
      BY <2>1, <3>2 DEF HeldWereSent, Sent, TypeOK
    <3> QED
      BY <3>1, <3>2
  <2>6. ExitMeansDrained'
    <3> SUFFICES ASSUME NEW v \in Workers, worker'[v].pc = "exited"
                 PROVE  /\ disp'[v[1]] = "closed" /\ batch'[v[1]] = {}
                        /\ chan'[v[1]] = <<>>
      BY DEF ExitMeansDrained
    <3>1. v # w /\ worker'[v] = worker[v]
      BY <1>1 DEF Take, TypeOK, Idle
    <3>2. chan[v[1]] = <<>> /\ v[1] # r
      BY <2>1, <3>1 DEF ExitMeansDrained
    <3> QED
      BY <2>1, <3>1, <3>2 DEF ExitMeansDrained
  <2>7. (ImportedAreKnown /\ IdsDistinct /\ BatchOnlyInHandOver
           /\ DeletedMeansImported)'
    BY <2>1
    DEF ImportedAreKnown, IdsDistinct, BatchOnlyInHandOver,
        DeletedMeansImported
  <2> QED
    BY <1>0, <2>4, <2>5, <2>6, <2>7
<1>2. CASE Exit(w)
  <2>1. UNCHANGED <<queue, movie, proc, disp, batch, chan, stops>>
    BY <1>2 DEF Exit
  <2>2. WorkersKnow'
    BY <1>2, <2>1 DEF Exit, Step, WorkersKnow, WorkerKnows, Sent, TypeOK
  <2>3. ExitMeansDrained'
    <3>1. disp[w[1]] = "closed" /\ chan[w[1]] = <<>> /\ batch[w[1]] = {}
      BY <1>0, <1>2 DEF Exit, BatchOnlyInHandOver
    <3>2. \A v \in Workers : v # w => worker'[v] = worker[v]
      BY <1>2 DEF Exit, Step, TypeOK
    <3> QED
      BY <2>1, <3>1, <3>2 DEF ExitMeansDrained
  <2>4. (HeldWereSent /\ ImportedAreKnown /\ IdsDistinct
           /\ BatchOnlyInHandOver /\ DeletedMeansImported)'
    BY <2>1
    DEF HeldWereSent, ImportedAreKnown, IdsDistinct, BatchOnlyInHandOver,
        DeletedMeansImported, Sent
  <2> QED
    BY <1>0, <2>2, <2>3, <2>4
<1>3. CASE Lookup(w) \/ FetchOk(w) \/ ProcessFails(w)
  <2>1. UNCHANGED <<queue, movie, proc, disp, batch, chan, stops>>
    BY <1>3 DEF Lookup, FetchOk, ProcessFails
  <2>2. (\A v \in Workers : worker'[v].pc = "exited"
           => worker[v].pc = "exited") /\ WorkersKnow'
    <3>1. CASE Lookup(w)
      <4>1. /\ worker[w].pc = "lookup"
            /\ \/ movie[Body[worker[w].msg]] # None /\ Step(w, "delete")
               \/ Step(w, "fetch")
        BY <3>1 DEF Lookup
      <4>2. CASE movie[Body[worker[w].msg]] # None /\ Step(w, "delete")
        BY <2>1, <4>1, <4>2 DEF Step, WorkersKnow, WorkerKnows, Sent, TypeOK
      <4>3. CASE Step(w, "fetch")
        BY <2>1, <4>1, <4>3 DEF Step, WorkersKnow, WorkerKnows, Sent, TypeOK
      <4> QED
        BY <4>1, <4>2, <4>3
    <3>2. CASE FetchOk(w)
      BY <2>1, <3>2 DEF FetchOk, Step, WorkersKnow, WorkerKnows, Sent, TypeOK
    <3>3. CASE ProcessFails(w)
      BY <2>1, <3>3
      DEF ProcessFails, Drop, Idle, WorkersKnow, WorkerKnows, Sent, TypeOK
    <3> QED
      BY <1>3, <3>1, <3>2, <3>3
  <2>3. (ExitMeansDrained /\ HeldWereSent /\ ImportedAreKnown
           /\ IdsDistinct /\ BatchOnlyInHandOver /\ DeletedMeansImported)'
    BY <2>1, <2>2
    DEF ExitMeansDrained, HeldWereSent, ImportedAreKnown, IdsDistinct,
        BatchOnlyInHandOver, DeletedMeansImported, Sent
  <2> QED
    BY <1>0, <2>2, <2>3
<1>4. CASE Upsert(w)
  <2> DEFINE i == Body[worker[w].msg]
  <2>1. /\ UNCHANGED <<queue, proc, disp, batch, chan, stops>>
        /\ worker[w].pc = "upsert"
    BY <1>4 DEF Upsert
  <2>2. i \in ImdbIds \ Unknown
    BY <2>1 DEF WorkersKnow, WorkerKnows
  <2>3. PICK id \in MovieIds :
          /\ \A j \in ImdbIds : movie[j] # id
          /\ movie' = IF movie[i] = None THEN [movie EXCEPT ![i] = id]
                      ELSE movie
    BY <1>4 DEF Upsert, Merge
  <2>4. /\ movie'[i] # None
        /\ \A j \in ImdbIds : movie[j] # None => movie'[j] # None
    BY <2>2, <2>3, DistinctAssumption DEF TypeOK
  <2>5. (ImportedAreKnown /\ IdsDistinct)'
    BY <2>2, <2>3 DEF ImportedAreKnown, IdsDistinct, TypeOK
  <2>6. DeletedMeansImported'
    BY <2>1, <2>4, BodyAssumption DEF DeletedMeansImported
  <2>7. /\ \A v \in Workers : v # w => worker'[v] = worker[v]
        /\ \/ worker'[w] = Idle
           \/ worker'[w].pc = "delete" /\ worker'[w].msg = worker[w].msg
    <3>1. CASE Step(w, "delete")
      BY <3>1 DEF Step, TypeOK
    <3>2. CASE Drop(w)
      BY <3>2 DEF Drop, TypeOK
    <3> QED
      BY <1>4, <3>1, <3>2 DEF Upsert
  <2>8. WorkersKnow' /\ ExitMeansDrained'
    <3>1. WorkersKnow'
      <4> SUFFICES ASSUME NEW v \in Workers PROVE WorkerKnows(v)'
        BY DEF WorkersKnow
      <4>1. CASE v # w
        BY <2>1, <2>4, <2>7, <4>1 DEF WorkersKnow, WorkerKnows, Sent
      <4>2. CASE v = w /\ worker'[w] = Idle
        BY <4>2 DEF WorkerKnows, Idle
      <4>3. CASE /\ v = w
                 /\ worker'[w].pc = "delete" /\ worker'[w].msg = worker[w].msg
        BY <2>1, <2>4, <4>3 DEF WorkersKnow, WorkerKnows, Sent
      <4> QED
        BY <2>7, <4>1, <4>2, <4>3
    <3>2. ExitMeansDrained'
      BY <2>1, <2>7 DEF ExitMeansDrained, Idle
    <3> QED
      BY <3>1, <3>2
  <2>9. (HeldWereSent /\ BatchOnlyInHandOver)'
    BY <2>1 DEF HeldWereSent, BatchOnlyInHandOver, Sent
  <2> QED
    BY <1>0, <2>5, <2>6, <2>8, <2>9
<1>5. CASE Delete(w)
  <2> DEFINE m == worker[w].msg
  <2>1. /\ UNCHANGED <<movie, proc, disp, batch, chan, stops>>
        /\ worker[w].pc = "delete" /\ worker' = [worker EXCEPT ![w] = Idle]
    BY <1>5 DEF Delete, Drop
  <2>2. queue' = queue \/ queue' = [queue EXCEPT ![m] = "deleted"]
    BY <1>5 DEF Delete
  <2>3. /\ m \in Msgs /\ Body[m] \in ImdbIds /\ movie[Body[m]] # None
    BY <2>1 DEF WorkersKnow, WorkerKnows
  <2>4. \A k \in Msgs : Sent(k) => Sent(k)'
    BY <2>2 DEF Sent, TypeOK
  <2>5. DeletedMeansImported'
    BY <2>1, <2>2, <2>3 DEF DeletedMeansImported, ImportedAreKnown, TypeOK
  <2>6. WorkersKnow'
    BY <2>1, <2>4 DEF WorkersKnow, WorkerKnows, Idle, TypeOK
  <2>7. ExitMeansDrained'
    BY <2>1 DEF ExitMeansDrained, Idle, TypeOK
  <2>8. HeldWereSent'
    BY <2>1, <2>4 DEF HeldWereSent, TypeOK
  <2>9. (ImportedAreKnown /\ IdsDistinct /\ BatchOnlyInHandOver)'
    BY <2>1 DEF ImportedAreKnown, IdsDistinct, BatchOnlyInHandOver
  <2> QED
    BY <1>0, <2>5, <2>6, <2>7, <2>8, <2>9
<1> QED
  BY <1>1, <1>2, <1>3, <1>4, <1>5 DEF WorkerNext

LEMMA NextIInv == IInv /\ [Next]_vars => IInv'
<1>1. ASSUME IInv, UNCHANGED vars PROVE IInv'
  <2> USE <1>1 DEF vars
  <2>1. TypeOK'
    BY NextTypeOK DEF IInv
  <2>2. (WorkersKnow /\ HeldWereSent /\ ImportedAreKnown /\ IdsDistinct)'
    BY DEF IInv, WorkersKnow, WorkerKnows, HeldWereSent, ImportedAreKnown,
           IdsDistinct, Sent
  <2>3. (BatchOnlyInHandOver /\ DeletedMeansImported /\ ExitMeansDrained)'
    BY DEF IInv, BatchOnlyInHandOver, DeletedMeansImported, ExitMeansDrained
  <2> QED
    BY <2>1, <2>2, <2>3 DEF IInv
<1> QED
  BY <1>1, QueueKeepsIInv, ReplicaKeepsIInv, WorkerKeepsIInv DEF Next

LEMMA Inductive == Spec => []IInv
  BY InitIInv, NextIInv, PTL DEF Spec

\* Whatever is redelivered, lost or killed, a message is deleted only once its
\* movie is in the graph.
THEOREM AtLeastOnce == Spec => []DeletedMeansImported
<1>1. IInv => DeletedMeansImported
  BY DEF IInv
<1> QED
  BY <1>1, Inductive, PTL

\* A worker exits only when the dispatcher handed over and the workers took all
\* that was received.
THEOREM NothingStranded == Spec => []ExitMeansDrained
<1>1. IInv => ExitMeansDrained
  BY DEF IInv
<1> QED
  BY <1>1, Inductive, PTL

-----------------------------------------------------------------------------
(* Movie ids, and the refinement of AtLeastOnceImport *)

\* Only an upsert writes the graph, and it writes at most a movie that was not
\* there, for a message that was sent.
LEMMA MovieChanges ==
  ASSUME IInv, [Next]_vars, movie' # movie
  PROVE  \E m \in Msgs, id \in MovieIds :
           /\ Sent(m) /\ Body[m] \in ImdbIds /\ movie[Body[m]] = None
           /\ \A j \in ImdbIds : movie[j] # id
           /\ movie' = [movie EXCEPT ![Body[m]] = id]
           /\ UNCHANGED queue
<1>1. PICK w \in Workers : Upsert(w)
  BY DEF Next, vars, QueueNext, ReplicaNext, WorkerNext, Publish,
         VisibilityTimeout, Expire, Receive, ReceiveNothing, HandOver,
         CloseChannel, AbandonBatch, Stop, FinishStop, Crash, End, Start,
         Take, Exit, Lookup, FetchOk, ProcessFails, Delete
<1>2. worker[w].msg \in Msgs /\ Sent(worker[w].msg)
        /\ Body[worker[w].msg] \in ImdbIds
  BY <1>1 DEF Upsert, IInv, WorkersKnow, WorkerKnows
<1> QED
  BY <1>1, <1>2 DEF Upsert, Merge

LEMMA StepsKeepIds == IInv /\ [Next]_vars => IdsKept
<1> SUFFICES ASSUME IInv, [Next]_vars PROVE IdsKept
  OBVIOUS
<1>1. IInv'
  BY NextIInv
<1>2. \A i \in ImdbIds : movie[i] # None => movie'[i] = movie[i]
  BY MovieChanges DEF IInv, TypeOK
<1> QED
  BY <1>1, <1>2 DEF IInv, IdsDistinct, IdsKept

\* A movie keeps the id it was given, and no two movies share one.
THEOREM StableIds == Spec => MovieIdsStable
<1>1. IInv /\ [Next]_vars => [IdsKept]_vars
  BY StepsKeepIds
<1> QED
  BY <1>1, Inductive, PTL DEF Spec, MovieIdsStable

\* A step that neither sends a message nor deletes one.
MarksKept ==
  \A m \in Msgs :
    (Sent(m)' <=> Sent(m)) /\ (queue'[m] = "deleted" <=> queue[m] = "deleted")

Sends(m) == ~Sent(m) /\ queue' = [queue EXCEPT ![m] = "visible"]

DeletesImported(m) ==
  /\ Kept(m) /\ Body[m] \in ImdbIds /\ movie[Body[m]] # None
  /\ queue' = [queue EXCEPT ![m] = "deleted"]

\* How a step moves a message: it is sent once and then stays sent; it becomes
\* deleted only in the hands of a worker whose movie is in the graph, and one
\* that is deleted stays deleted.
LEMMA QueueChanges ==
  ASSUME IInv, [Next]_vars, queue' # queue
  PROVE  /\ UNCHANGED movie
         /\ MarksKept \/ \E m \in Msgs : Sends(m) \/ DeletesImported(m)
<1>1. ASSUME NEW m \in Msgs, QueueNext(m)
      PROVE  UNCHANGED movie /\ (Sends(m) \/ MarksKept)
  BY <1>1
  DEF QueueNext, Publish, VisibilityTimeout, Expire, Sends, MarksKept, Sent,
      Kept, IInv, TypeOK
<1>2. ASSUME NEW r \in Replicas, Receive(r) \/ ReceiveNothing(r)
      PROVE  UNCHANGED movie /\ MarksKept
  <2>1. PICK got \in SUBSET {m \in Msgs : queue[m] = "visible"} :
          queue' = [m \in Msgs |-> IF m \in got THEN "hidden" ELSE queue[m]]
    BY <1>2 DEF Receive, ReceiveNothing
  <2> QED
    BY <1>2, <2>1 DEF Receive, ReceiveNothing, MarksKept, Sent
<1>3. ASSUME NEW w \in Workers, Delete(w)
      PROVE  /\ UNCHANGED movie
             /\ worker[w].msg \in Msgs /\ DeletesImported(worker[w].msg)
  BY <1>3 DEF Delete, DeletesImported, IInv, WorkersKnow, WorkerKnows
<1> QED
  BY <1>1, <1>2, <1>3
  DEF Next, vars, ReplicaNext, WorkerNext, HandOver, CloseChannel,
      AbandonBatch, Stop, FinishStop, Crash, End, Start, Take, Exit, Lookup,
      FetchOk, ProcessFails, Upsert

LEMMA SentStaysSent ==
  ASSUME IInv, [Next]_vars, NEW m \in Msgs, queue[m] # "unsent"
  PROVE  queue'[m] # "unsent"
<1>1. CASE queue' = queue
  BY <1>1
<1>2. CASE MarksKept
  BY <1>2 DEF MarksKept, Sent
<1>3. CASE \E n \in Msgs : Sends(n) \/ DeletesImported(n)
  BY <1>3 DEF Sends, DeletesImported, IInv, TypeOK
<1> QED
  BY <1>1, <1>2, <1>3, QueueChanges

\* The queue and the consumers implement the abstract at-least-once import:
\* sending a message is a request, the upsert that creates the node is the
\* import, deleting the message the acknowledgement; all else is a stutter.
THEOREM Refinement == Spec => ImplementsPromise
<1>1. Init => Promise!Init
  BY DEF Init, Promise!Init
<1>2. IInv /\ [Next]_vars => [Promise!Next]_Promise!vars
  <2> SUFFICES ASSUME IInv, [Next]_vars PROVE [Promise!Next]_Promise!vars
    OBVIOUS
  <2>1. CASE movie' # movie
    <3>1. PICK m \in Msgs, id \in MovieIds :
            /\ Sent(m) /\ Body[m] \in ImdbIds /\ movie[Body[m]] = None
            /\ \A j \in ImdbIds : movie[j] # id
            /\ movie' = [movie EXCEPT ![Body[m]] = id]
            /\ UNCHANGED queue
      BY <2>1, MovieChanges
    <3>2. Promise!Import(m)
      BY <3>1, DistinctAssumption DEF Promise!Import, Sent
    <3> QED
      BY <3>2 DEF Promise!Next
  <2>2. CASE queue' # queue /\ movie' = movie
    <3>1. ASSUME NEW m \in Msgs, Sends(m) PROVE Promise!Request(m)
      BY <2>2, <3>1 DEF Promise!Request, Sends, Sent, IInv, TypeOK
    <3>2. ASSUME NEW m \in Msgs, DeletesImported(m)
          PROVE  Promise!Acknowledge(m)
      BY <2>2, <3>2, DistinctAssumption
      DEF Promise!Acknowledge, DeletesImported, Kept, IInv, TypeOK
    <3>3. ASSUME MarksKept PROVE UNCHANGED Promise!vars
      <4>1. {m \in Msgs : queue'[m] # "unsent"}
              = {m \in Msgs : queue[m] # "unsent"}
        BY <3>3 DEF MarksKept, Sent
      <4>2. {m \in Msgs : queue'[m] = "deleted"}
              = {m \in Msgs : queue[m] = "deleted"}
        BY <3>3 DEF MarksKept
      <4> QED
        BY <2>2, <4>1, <4>2 DEF Promise!vars
    <3> QED
      BY <2>2, <3>1, <3>2, <3>3, QueueChanges DEF Promise!Next
  <2>3. CASE queue' = queue /\ movie' = movie
    BY <2>3 DEF Promise!vars
  <2> QED
    BY <2>1, <2>2, <2>3
<1> QED
  BY <1>1, <1>2, Inductive, PTL DEF Spec, ImplementsPromise, Promise!Spec
=============================================================================
