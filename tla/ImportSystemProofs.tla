------------------------- MODULE ImportSystemProofs -------------------------
(***************************************************************************)
(* Theorems about ImportSystem, composed of those about its two parts: a   *)
(* step of the system is a step or a stutter of each part, so that each    *)
(* part's inductive invariant holds of the system, and what was sent by    *)
(* the job is a message of the queue.                                      *)
(***************************************************************************)
EXTENDS ImportSystem, TLAPS

JP == INSTANCE ImportJobProofs
CP == INSTANCE ImportConsumerProofs WITH Msgs <- Messages, Body <- Asks

SentWereQueued == \A m \in sent : m \in Messages /\ queue[m] # "unsent"

IInv == JP!IInv /\ CP!IInv /\ SentWereQueued

-----------------------------------------------------------------------------
(* The constants of the parts *)

LEMMA JobAssumption == JP!JobAssumption
  BY RequestAssumption DEF JP!JobAssumption

\* Every result of a page that is asked for is a message, and no other.
LEMMA MessagesFact ==
  /\ \A m \in Messages :
       \E t \in JP!Terms, p \in JP!Pages :
         m \in {t} \X {p} \X (1..Len(JP!Results(t, p)))
  /\ \A t \in JP!Terms, p \in JP!Pages :
       \A r \in 1..Len(JP!Results(t, p)) : <<t, p, r>> \in Messages
<1>1. Messages = UNION {{t} \X {p} \X (1..Len(JP!Results(t, p))) :
                          t \in JP!Terms, p \in JP!Pages}
  BY DEF Messages, J!Results, JP!Results, J!MaxPages, JP!MaxPages, JP!Terms,
         JP!Pages
<1>2. ASSUME NEW t \in JP!Terms, NEW p \in JP!Pages,
             NEW r \in 1..Len(JP!Results(t, p))
      PROVE  <<t, p, r>> \in Messages
  <2> DEFINE A == {t} \X {p} \X (1..Len(JP!Results(t, p)))
             S == {{u} \X {q} \X (1..Len(JP!Results(u, q))) :
                     u \in JP!Terms, q \in JP!Pages}
  <2>1. <<t, p, r>> \in A
    OBVIOUS
  <2>2. A \in S
    OBVIOUS
  <2>3. Messages = UNION S
    BY <1>1
  <2> HIDE DEF A, S
  <2> QED
    BY <2>1, <2>2, <2>3
<1> QED
  BY <1>1, <1>2

LEMMA AsksFact == Asks \in [Messages -> ImdbIds \cup {Malformed}]
<1> SUFFICES ASSUME NEW m \in Messages PROVE Asks[m] \in ImdbIds
  BY DEF Asks
<1>1. PICK t \in JP!Terms, p \in JP!Pages :
        m \in {t} \X {p} \X (1..Len(JP!Results(t, p)))
  BY MessagesFact
<1>2. JP!Results(t, p) \in Seq(ImdbIds)
  BY JobAssumption, JP!ResultsFact
<1>3. m[1] = t /\ m[2] = p /\ m[3] \in 1..Len(JP!Results(t, p))
  BY <1>1
<1>4. J!Results(t, p) = JP!Results(t, p)
  BY DEF J!Results, JP!Results
<1> QED
  BY <1>2, <1>3, <1>4 DEF Asks

LEMMA ConsumerAssumptions ==
  CP!CountAssumption /\ CP!BodyAssumption /\ CP!DistinctAssumption
  BY ReplicaAssumption, DistinctAssumption, AsksFact
  DEF CP!CountAssumption, CP!BodyAssumption, CP!DistinctAssumption

-----------------------------------------------------------------------------
(* A step of the system is a step or a stutter of each part *)

LEMMA JobSteps == [Next]_vars => [JP!Next]_JP!vars
<1> SUFFICES ASSUME [Next]_vars PROVE [JP!Next]_JP!vars
  OBVIOUS
<1>1. CASE Search
  BY <1>1 DEF Search, J!SearchEmpty, J!SearchFound, J!SearchFails, J!NextPage,
    J!NextTerm, J!MaxPages, J!Results, JP!SearchEmpty, JP!SearchFound,
    JP!SearchFails, JP!NextPage, JP!NextTerm, JP!MaxPages, JP!Results,
    JP!Next, JP!Work
<1>2. CASE Send
  BY <1>2 DEF Send, J!Publish, J!NextPage, J!NextTerm, J!MaxPages, J!Results,
    JP!Publish, JP!NextPage, JP!NextTerm, JP!MaxPages, JP!Results,
    JP!Next, JP!Work
<1>3. CASE EndHome
  BY <1>3 DEF EndHome, J!Die, JP!Die, JP!Next, job, JP!vars
<1>4. CASE UNCHANGED job
  BY <1>4 DEF job, JP!vars
<1> QED
  BY <1>1, <1>2, <1>3, <1>4 DEF Next, vars, Deliver, Dispatch, Process

\* The actions of the consumers are the same in both instances.
LEMMA QueueSteps ==
  ASSUME NEW m \in Messages,
         C!Publish(m) \/ C!VisibilityTimeout(m) \/ C!Expire(m)
  PROVE  CP!QueueNext(m)
  BY DEF C!Publish, C!VisibilityTimeout, C!Expire, C!Kept, CP!QueueNext,
         CP!Publish, CP!VisibilityTimeout, CP!Expire, CP!Kept

LEMMA ReplicaSteps ==
  ASSUME NEW r \in Replicas,
         \/ C!Receive(r) \/ C!ReceiveNothing(r) \/ C!HandOver(r)
         \/ C!CloseChannel(r) \/ C!AbandonBatch(r) \/ C!Stop(r) \/ C!Start(r)
         \/ C!FinishStop(r) \/ C!Crash(r)
  PROVE  CP!ReplicaNext(r)
<1>1. C!Receive(r) => CP!Receive(r)
  BY Zenon DEF C!Receive, C!Running, C!Cardinality,
               CP!Receive, CP!Running, CP!Cardinality
<1>2. C!ReceiveNothing(r) => CP!ReceiveNothing(r)
  BY Zenon DEF C!ReceiveNothing, C!Running, C!Cardinality,
               CP!ReceiveNothing, CP!Running, CP!Cardinality
<1>3. C!HandOver(r) => CP!HandOver(r)
  BY Zenon DEF C!HandOver, C!Running, CP!HandOver, CP!Running
<1>4. /\ C!CloseChannel(r) => CP!CloseChannel(r)
      /\ C!AbandonBatch(r) => CP!AbandonBatch(r)
  BY Zenon DEF C!CloseChannel, C!AbandonBatch, C!Stopping, CP!CloseChannel,
               CP!AbandonBatch, CP!Stopping
<1>5. (C!Stop(r) => CP!Stop(r)) /\ (C!Start(r) => CP!Start(r))
  BY Zenon DEF C!Stop, C!Start, CP!Stop, CP!Start
<1>6. (C!FinishStop(r) => CP!FinishStop(r)) /\ (C!Crash(r) => CP!Crash(r))
  BY Zenon DEF C!FinishStop, C!Crash, C!End, C!Stopping, C!Workers, C!Idle,
    CP!FinishStop, CP!Crash, CP!End, CP!Stopping, CP!Workers, CP!Idle
<1> QED
  BY <1>1, <1>2, <1>3, <1>4, <1>5, <1>6, Zenon DEF CP!ReplicaNext

LEMMA WorkerSteps ==
  ASSUME NEW w \in C!Workers, C!WorkerNext(w)
  PROVE  w \in CP!Workers /\ CP!WorkerNext(w)
<1>1. C!Take(w) => CP!Take(w)
  BY Zenon DEF C!Take, C!Running, C!Idle, CP!Take, CP!Running, CP!Idle
<1>2. C!Exit(w) => CP!Exit(w)
  BY Zenon DEF C!Exit, C!Running, C!Step, CP!Exit, CP!Running, CP!Step
<1>3. (C!Lookup(w) => CP!Lookup(w)) /\ (C!FetchOk(w) => CP!FetchOk(w))
  BY Zenon DEF C!Lookup, C!FetchOk, C!Step, CP!Lookup, CP!FetchOk, CP!Step
<1>4. C!ProcessFails(w) => CP!ProcessFails(w)
  BY Zenon DEF C!ProcessFails, C!Drop, C!Idle, CP!ProcessFails, CP!Drop, CP!Idle
<1>5. C!Upsert(w) => CP!Upsert(w)
  BY Zenon DEF C!Upsert, C!Merge, C!Step, C!Drop, C!Idle, CP!Upsert, CP!Merge,
               CP!Step, CP!Drop, CP!Idle
<1>6. C!Delete(w) => CP!Delete(w)
  BY Zenon DEF C!Delete, C!Kept, C!Drop, C!Idle, CP!Delete, CP!Kept, CP!Drop,
               CP!Idle
<1>7. w \in CP!Workers
  BY DEF C!Workers, CP!Workers
<1> QED
  BY <1>1, <1>2, <1>3, <1>4, <1>5, <1>6, <1>7, Zenon
  DEF C!WorkerNext, CP!WorkerNext

\* The result at the job's cursor is a message.
LEMMA CursorIsMessage ==
  ASSUME JP!IInv, pc = "publish"
  PROVE  <<term, page, result>> \in Messages
  BY MessagesFact DEF JP!IInv, JP!CursorOK, JP!Active, JP!TypeOK

LEMMA ConsumerSteps == JP!IInv /\ [Next]_vars => [CP!Next]_CP!vars
<1> SUFFICES ASSUME JP!IInv, [Next]_vars PROVE [CP!Next]_CP!vars
  OBVIOUS
<1> USE DEF CP!Next
<1>1. CASE UNCHANGED consumers
  BY <1>1 DEF consumers, CP!vars
<1>2. CASE Send
  <2>1. pc = "publish"
    BY <1>2 DEF Send, J!Publish
  <2> QED
    BY <1>1, <1>2, <2>1, CursorIsMessage, QueueSteps DEF Send
<1>3. CASE EndHome
  BY <1>3, ReplicaAssumption, ReplicaSteps DEF EndHome
<1>4. CASE Deliver
  BY <1>4, QueueSteps DEF Deliver
<1>5. ASSUME NEW r \in Replicas, Dispatch(r) PROVE CP!Next
  BY <1>5, ReplicaSteps DEF Dispatch
<1>6. ASSUME NEW w \in C!Workers, Process(w) PROVE CP!Next
  BY <1>6, WorkerSteps DEF Process
<1> QED
  BY <1>1, <1>2, <1>3, <1>4, <1>5, <1>6 DEF Next, vars, Search

-----------------------------------------------------------------------------
(* The inductive invariant *)

LEMMA InitIInv == Init => IInv
<1> SUFFICES ASSUME Init PROVE IInv
  OBVIOUS
<1>1. JP!Init /\ sent = {}
  BY DEF Init, J!Init, JP!Init
<1>2. CP!Init
  BY DEF Init, C!Init, CP!Init, C!Workers, CP!Workers, C!Idle, CP!Idle
<1>3. JP!IInv
  BY <1>1, JobAssumption, JP!InitIInv
<1>4. CP!IInv
  BY <1>2, ConsumerAssumptions, CP!InitIInv
<1> QED
  BY <1>1, <1>3, <1>4 DEF IInv, SentWereQueued

LEMMA NextIInv == IInv /\ [Next]_vars => IInv'
<1> SUFFICES ASSUME IInv, [Next]_vars PROVE IInv'
  OBVIOUS
<1>1. [JP!Next]_JP!vars /\ [CP!Next]_CP!vars
  BY JobSteps, ConsumerSteps DEF IInv
<1>2. JP!IInv'
  BY <1>1, JobAssumption, JP!NextIInv DEF IInv
<1>3. CP!IInv'
  BY <1>1, ConsumerAssumptions, CP!NextIInv DEF IInv
<1>4. \A m \in Messages : queue[m] # "unsent" => queue'[m] # "unsent"
  BY <1>1, ConsumerAssumptions, CP!SentStaysSent DEF IInv
<1>5. SentWereQueued'
  <2>1. CASE sent' = sent
    BY <1>4, <2>1 DEF IInv, SentWereQueued
  <2>2. CASE sent' # sent
    <3>1. Send /\ pc = "publish" /\ sent' = sent \cup {<<term, page, result>>}
      BY <2>2 DEF Next, vars, Search, Send, EndHome, Deliver, Dispatch, Process,
        job, J!SearchEmpty, J!SearchFound, J!SearchFails, J!Publish, J!Die
    <3>2. <<term, page, result>> \in Messages
      BY <3>1, CursorIsMessage DEF IInv
    <3>3. C!Publish(<<term, page, result>>)
      <4>1. <<term, page, result>> \notin unsent'
        BY <1>2, <3>1 DEF JP!IInv
      <4> QED
        BY <3>1, <4>1 DEF Send
    <3>4. queue'[<<term, page, result>>] = "visible"
      BY <3>2, <3>3 DEF C!Publish, IInv, CP!IInv, CP!TypeOK
    <3> QED
      BY <1>4, <3>1, <3>2, <3>4 DEF IInv, SentWereQueued
  <2> QED
    BY <2>1, <2>2
<1> QED
  BY <1>2, <1>3, <1>5 DEF IInv

LEMMA Inductive == Spec => []IInv
  BY InitIInv, NextIInv, PTL DEF Spec

-----------------------------------------------------------------------------
(* Theorems *)

\* Whatever searches, sends, calls and processes fail, a finished job leaves no
\* result unaccounted for: imported, still queued, expired, or known unsent.
THEOREM NoSilentLoss == Spec => []NothingLost
<1>1. ASSUME IInv, pc = "finished", NEW m \in J!Due
      PROVE  \/ movie[Asks[m]] # None
             \/ queue[m] \in {"visible", "hidden", "expired"}
             \/ m \in unsent
  <2>1. m \in JP!Due
    <3>1. \A t, p : J!Results(t, p) = JP!Results(t, p)
      BY DEF J!Results, JP!Results
    <3>2. J!Terms = JP!Terms /\ J!Pages = JP!Pages
      BY DEF J!Terms, J!Pages, J!MaxPages, JP!Terms, JP!Pages, JP!MaxPages
    <3>3. \A t, p : J!Visible(t, p) = JP!Visible(t, p)
      BY <3>1 DEF J!Visible, J!Asked, JP!Visible, JP!Asked
    <3>4. J!Due = JP!Due
      BY <3>2, <3>3 DEF J!Due, JP!Due
    <3> QED
      BY <1>1, <3>4
  <2>2. m \in sent \cup unsent
    BY <1>1, <2>1, JobAssumption, JP!IInvTriesAll
    DEF IInv, JP!FinishedJobTriedAll
  <2>3. CASE m \in sent
    <3>1. m \in Messages /\ queue[m] # "unsent"
      BY <1>1, <2>3 DEF IInv, SentWereQueued
    <3>2. queue[m] = "deleted" => movie[Asks[m]] # None
      BY <1>1, <3>1 DEF IInv, CP!IInv, CP!DeletedMeansImported
    <3> QED
      BY <1>1, <3>1, <3>2 DEF IInv, CP!IInv, CP!TypeOK
  <2> QED
    BY <2>2, <2>3
<1>2. IInv => NothingLost
  BY <1>1 DEF NothingLost
<1> QED
  BY <1>2, Inductive, PTL

\* The system is the composition of its parts: whatever the other does, the job
\* takes only the steps of ImportJob and the consumers only those of
\* ImportConsumer, so every safety property of either is one of the whole.
THEOREM SystemOfParts ==
  Spec => /\ JP!Init /\ [][JP!Next]_JP!vars
          /\ CP!Init /\ [][CP!Next]_CP!vars
<1>1. Init => JP!Init
  BY DEF Init, J!Init, JP!Init
<1>2. Init => CP!Init
  BY DEF Init, C!Init, CP!Init, C!Workers, CP!Workers, C!Idle, CP!Idle
<1>3. IInv /\ [Next]_vars => [JP!Next]_JP!vars /\ [CP!Next]_CP!vars
  BY JobSteps, ConsumerSteps DEF IInv
<1> QED
  BY <1>1, <1>2, <1>3, Inductive, PTL DEF Spec

\* The messages are the job's own and the job runs inside one of the replicas,
\* and still the system implements the at-least-once import: a movie enters the
\* graph only because a result was sent for it, and a message is deleted only
\* once its movie is there.
THEOREM SystemKeepsPromise == Spec => CP!ImplementsPromise
<1>1. CP!Spec => CP!ImplementsPromise
  BY ConsumerAssumptions, CP!Refinement
<1>2. Spec => CP!Spec
  BY SystemOfParts, PTL DEF CP!Spec
<1> QED
  BY <1>1, <1>2, PTL
=============================================================================
