------------------------- MODULE MqttPipelineProofs -------------------------
(***************************************************************************)
(* Proofs about MqttPipeline: the theorems about the queue and the MQTT    *)
(* client hold in it, its objects are the messages to be answered, and     *)
(* there are two states of it that no step leads out of; and about         *)
(* MqttReply, which is what process() does with one of the messages.       *)
(***************************************************************************)
EXTENDS MqttPipeline, MCMqttReply, FiniteSetTheorems, TLAPS

-----------------------------------------------------------------------------
(* The components.                                                         *)

LEMMA QueueStep == [Next]_vars => [Q!Next]_(Q!vars)
<1> SUFFICES ASSUME [Next]_vars PROVE [Q!Next]_(Q!vars)
  OBVIOUS
<1> USE DEF Q!vars, queueVars
<1>1. CASE UNCHANGED vars
  BY <1>1 DEF vars
<1>2. CASE MessageArrived
  BY <1>2 DEF MessageArrived, Q!Next
<1>3. CASE AckRead
  BY <1>3 DEF AckRead
<1>4. CASE ReceiverPush
  BY <1>4 DEF ReceiverPush, Q!Next
<1>5. CASE ConsumerPop
  BY <1>5 DEF ConsumerPop, Q!Next
<1>6. CASE NothingToAnswer \/ Answer \/ PublishLock \/ Publish
  BY <1>6 DEF NothingToAnswer, Answer, PublishLock, Publish
<1>7. CASE PublishAcked \/ PublishTimeout \/ PublishReturn
  BY <1>7 DEF PublishAcked, PublishTimeout, PublishReturn
<1>8. CASE Delete
  BY <1>8 DEF Delete, Q!Next
<1>9. CASE ClientThread
  BY <1>9 DEF ClientThread
<1>10. ASSUME NEW r \in Reporters, Lose(r) \/ ConnectionLost(r)
       PROVE  UNCHANGED queueVars
  BY <1>10 DEF Lose, ConnectionLost
<1>11. CASE Spurious
  BY <1>11 DEF Spurious, Q!Next, Q!Threads
<1> QED
  BY <1>1, <1>2, <1>3, <1>4, <1>5, <1>6, <1>7, <1>8, <1>9, <1>10, <1>11
     DEF Next, ConsumerStep

LEMMA ClientStep == [Next]_vars => [M!Next]_(M!vars)
<1> SUFFICES ASSUME [Next]_vars PROVE [M!Next]_(M!vars)
  OBVIOUS
<1> USE DEF M!vars, clientVars
<1>1. CASE UNCHANGED vars
  BY <1>1 DEF vars
<1>2. CASE MessageArrived
  BY <1>2 DEF MessageArrived, M!Next
<1>3. CASE AckRead \/ ReceiverPush \/ ConsumerPop \/ Delete
  BY <1>3 DEF AckRead, ReceiverPush, ConsumerPop, Delete
<1>4. CASE NothingToAnswer \/ Answer
  BY <1>4 DEF NothingToAnswer, Answer, M!Next
<1>5. CASE PublishLock \/ Publish
  BY <1>5 DEF PublishLock, Publish, M!Next, M!pubmsg
<1>6. CASE PublishAcked \/ PublishTimeout
  BY <1>6 DEF PublishAcked, PublishTimeout, M!Next, M!pubmsg
<1>7. CASE PublishReturn
  BY <1>7 DEF PublishReturn, M!Next, M!pubmsg
<1>8. CASE ClientThread
  BY <1>8 DEF ClientThread, M!Next
<1>9. ASSUME NEW r \in Reporters, Lose(r) \/ ConnectionLost(r)
      PROVE  M!Next
  BY <1>9 DEF Lose, ConnectionLost, M!Next
<1>10. CASE Spurious
  BY <1>10 DEF Spurious, M!Next
<1> QED
  BY <1>1, <1>2, <1>3, <1>4, <1>5, <1>6, <1>7, <1>8, <1>9, <1>10
     DEF Next, ConsumerStep

(* The composition runs the queue and the client by their own rules, so    *)
(* that what is proved of BlockQueue and of MqttClient carries over.       *)
ComponentsByTheirRules == Q!Spec /\ M!Spec

LEMMA Composition == Spec => ComponentsByTheirRules
<1>1. Init => Q!Init /\ M!Init
  BY DEF Init
<1> QED
  BY <1>1, QueueStep, ClientStep, PTL DEF Spec, ComponentsByTheirRules, Q!Spec, M!Spec

-----------------------------------------------------------------------------
(* What is proved of the components holds in the pipeline.                 *)

QP == INSTANCE BlockQueueProofs WITH
        Producers <- {Receiver}, Consumers <- {Consumer}, mutex <- qmutex, pc <- qpc
MP == INSTANCE MqttClientProofs WITH
        Publishers <- {Consumer}, MaxBacklog <- Cardinality(Items)

(* What BlockQueue and MqttClient assume of their constants holds of the   *)
(* two threads of the queue and of the callers of mqtt/mqtt.c.             *)
LEMMA QueueAssumptions ==
    /\ QP!IsFiniteSet({Receiver}) /\ QP!IsFiniteSet({Consumer})
    /\ {Receiver} \cap {Consumer} = {}
    /\ None \notin {Receiver} \cup {Consumer}
    /\ None \notin Items
    /\ Cap \in Nat \ {0}
<1>1. \A S : QP!IsFiniteSet(S) <=> IsFiniteSet(S)
  BY DEF QP!IsFiniteSet, IsFiniteSet
<1> QED
  BY <1>1, FS_Singleton, ThreadsAssumption, ItemsAssumption, CapAssumption

LEMMA ClientAssumptions ==
    /\ Client \notin {Consumer} \cup Reporters
    /\ {Consumer} \cap Reporters = {}
    /\ None \notin {Client} \cup {Consumer} \cup Reporters
    /\ Cardinality(Items) \in Nat \ {0}
    /\ SpuriousWakeups \in BOOLEAN
BY FS_CardinalityType, FS_EmptySet, ThreadsAssumption, ItemsAssumption, SpuriousAssumption

(* The modules of the proofs mean the same queue and the same client.      *)
LEMMA SameQueueActions ==
    ASSUME NEW t
    PROVE  /\ Q!Produce(t) <=> QP!Produce(t)
           /\ Q!PushData(t) <=> QP!PushData(t)
           /\ Q!PopData(t) <=> QP!PopData(t)
           /\ Q!Process(t) <=> QP!Process(t)
           /\ Q!Spurious(t) <=> QP!Spurious(t)
BY DEF Q!Produce, Q!PushData, Q!PopData, Q!Process, Q!Spurious, Q!LockQueue, Q!UnlockQueue,
       Q!CondWait, Q!PushFull, Q!PushInsert, Q!PushNotify, Q!PopEmpty, Q!PopRemove, Q!PopNotify,
       Q!NotifyConsume, Q!NotifyProduct, Q!SignalAndGoto, Q!Goto, Q!full, Q!empty, Q!IsFull, Q!IsEmpty,
       QP!Produce, QP!PushData, QP!PopData, QP!Process, QP!Spurious, QP!LockQueue, QP!UnlockQueue,
       QP!CondWait, QP!PushFull, QP!PushInsert, QP!PushNotify, QP!PopEmpty, QP!PopRemove, QP!PopNotify,
       QP!NotifyConsume, QP!NotifyProduct, QP!SignalAndGoto, QP!Goto, QP!full, QP!empty, QP!IsFull, QP!IsEmpty

LEMMA SameQueue ==
    /\ Q!Spec <=> QP!Spec
    /\ Q!TypeOK <=> QP!TypeOK
    /\ Q!OneOwner <=> QP!OneOwner
    /\ Q!WakeupsSuffice <=> QP!WakeupsSuffice
    /\ Q!ImplementsFifo <=> QP!ImplementsFifo
<1>1. Q!Init <=> QP!Init
  BY DEF Q!Init, QP!Init, Q!Threads, QP!Threads
<1>2. Q!vars = QP!vars
  BY DEF Q!vars, QP!vars
<1>3. Q!Next <=> QP!Next
  BY SameQueueActions DEF Q!Next, QP!Next, Q!Threads, QP!Threads
<1>4. [Q!Next]_(Q!vars) <=> [QP!Next]_(QP!vars)
  BY <1>2, <1>3 DEF Q!vars, QP!vars
<1>5. Q!TypeOK <=> QP!TypeOK
  BY DEF Q!TypeOK, QP!TypeOK, Q!Threads, QP!Threads, Q!Critical, QP!Critical
<1>6. Q!OneOwner <=> QP!OneOwner
  BY DEF Q!OneOwner, QP!OneOwner, Q!Threads, QP!Threads, Q!Holders, QP!Holders,
         Q!Pushing, QP!Pushing, Q!Popped, QP!Popped,
         Q!Range, QP!Range, Q!IsInjective, QP!IsInjective
<1>7. Q!WakeupsSuffice <=> QP!WakeupsSuffice
  <2>1. Q!full = QP!full /\ Q!empty = QP!empty
    BY DEF Q!full, QP!full, Q!empty, QP!empty
  <2>2. \A S : Q!OnTheWay(S) = QP!OnTheWay(S) /\ Q!Owing(S) = QP!Owing(S)
    BY DEF Q!OnTheWay, QP!OnTheWay, Q!Owing, QP!Owing
  <2>3. \A S : Q!Cardinality(S) = QP!Cardinality(S)
    BY DEF Q!Cardinality, QP!Cardinality
  <2> QED
    BY <2>1, <2>2, <2>3 DEF Q!WakeupsSuffice, QP!WakeupsSuffice
<1>8. Q!ImplementsFifo <=> QP!ImplementsFifo
  <2>1. Q!phaseBar = QP!phaseBar
    BY DEF Q!phaseBar, QP!phaseBar, Q!Threads, QP!Threads
  <2>2. Q!Fifo!Init <=> QP!Fifo!Init
    BY <2>1 DEF Q!Fifo!Init, QP!Fifo!Init, Q!Fifo!Threads, QP!Fifo!Threads
  <2>3. [Q!Fifo!Next]_(Q!Fifo!vars) <=> [QP!Fifo!Next]_(QP!Fifo!vars)
    BY <2>1 DEF Q!Fifo!vars, QP!Fifo!vars, Q!Fifo!Next, QP!Fifo!Next, Q!Fifo!Threads, QP!Fifo!Threads, Q!Fifo!HeldItems, QP!Fifo!HeldItems, Q!Fifo!Range, QP!Fifo!Range, Q!Fifo!CallPush, QP!Fifo!CallPush, Q!Fifo!Push, QP!Fifo!Push, Q!Fifo!ReturnPush, QP!Fifo!ReturnPush, Q!Fifo!Pop, QP!Fifo!Pop, Q!Fifo!Finish, QP!Fifo!Finish,
      Q!phaseBar, QP!phaseBar, Q!Threads, QP!Threads
  <2> QED
    BY <2>2, <2>3, PTL DEF Q!ImplementsFifo, QP!ImplementsFifo, Q!Fifo!Spec, QP!Fifo!Spec
<1> QED
  BY <1>1, <1>4, <1>5, <1>6, <1>7, <1>8, PTL DEF Q!Spec, QP!Spec

LEMMA SameClient == M!Spec <=> MP!Spec
<1>1. M!Init <=> MP!Init
  BY DEF M!Init, MP!Init, M!Threads, MP!Threads
<1>2. M!vars = MP!vars
  BY DEF M!vars, MP!vars
<1>3. M!Next <=> MP!Next
  BY DEF M!Next, MP!Next, M!ClientStep, MP!ClientStep, M!Begin, MP!Begin, M!ConnectLock,
         MP!ConnectLock, M!Create, MP!Create, M!ConnectOk, MP!ConnectOk, M!ConnectFailed,
         MP!ConnectFailed, M!Subscribe, MP!Subscribe, M!Wait, MP!Wait, M!Relock, MP!Relock,
         M!Disconnect, MP!Disconnect, M!Destroy, MP!Destroy, M!ConnectUnlock, MP!ConnectUnlock,
         M!Lock, MP!Lock, M!Unlock, MP!Unlock, M!Goto, MP!Goto, M!Spurious, MP!Spurious,
         M!Arrive, MP!Arrive, M!Lose, MP!Lose, M!connlost, MP!connlost, M!ReportLock,
         MP!ReportLock, M!ReportClear, MP!ReportClear, M!ReportUnlock, MP!ReportUnlock,
         M!Dismiss, MP!Dismiss, M!PubCall, MP!PubCall, M!pubmsg, MP!pubmsg, M!PubLock,
         MP!PubLock, M!PubSend, MP!PubSend, M!PubAwaited, MP!PubAwaited, M!PubUnlock,
         MP!PubUnlock, M!PubSkip, MP!PubSkip
<1>4. [M!Next]_(M!vars) <=> [MP!Next]_(MP!vars)
  BY <1>2, <1>3 DEF M!vars, MP!vars
<1> QED
  BY <1>1, <1>4, PTL DEF M!Spec, MP!Spec

LEMMA SameClientProperties ==
    /\ M!TypeOK <=> MP!TypeOK
    /\ M!OneCallerOfTheLibrary <=> MP!OneCallerOfTheLibrary
    /\ M!LossWillBeReported <=> MP!LossWillBeReported
    /\ M!PublishOnValidHandle <=> MP!PublishOnValidHandle
    /\ M!ReportIsCurrent <=> MP!ReportIsCurrent
    /\ M!ConnTellsTheTruth <=> MP!ConnTellsTheTruth
<1>1. M!TypeOK <=> MP!TypeOK
  BY DEF M!TypeOK, MP!TypeOK, M!Threads, MP!Threads, M!InClient, MP!InClient, M!InReport,
         MP!InReport, M!InPublish, MP!InPublish, M!Handles, MP!Handles
<1>2. M!OneCallerOfTheLibrary <=> MP!OneCallerOfTheLibrary
  BY DEF M!OneCallerOfTheLibrary, MP!OneCallerOfTheLibrary, M!Threads, MP!Threads, M!InSection,
         MP!InSection, M!InClient, MP!InClient, M!InReport, MP!InReport, M!InPublish,
         MP!InPublish
<1>3. /\ M!LossWillBeReported <=> MP!LossWillBeReported
      /\ M!PublishOnValidHandle <=> MP!PublishOnValidHandle
      /\ M!ReportIsCurrent <=> MP!ReportIsCurrent
      /\ M!ConnTellsTheTruth <=> MP!ConnTellsTheTruth
  BY DEF M!LossWillBeReported, MP!LossWillBeReported, M!PublishOnValidHandle,
         MP!PublishOnValidHandle, M!ReportIsCurrent, MP!ReportIsCurrent, M!ConnTellsTheTruth,
         MP!ConnTellsTheTruth
<1> QED
  BY <1>1, <1>2, <1>3

(* In the pipeline the queue loses, duplicates and leaks no message, wakes *)
(* who has to be woken and is a bounded FIFO.                              *)
THEOREM QueueKeepsItsPromises ==
    Spec => [](Q!TypeOK /\ Q!OneOwner /\ Q!WakeupsSuffice) /\ Q!ImplementsFifo
<1>1. Spec => QP!Spec
  BY Composition, SameQueue, PTL DEF ComponentsByTheirRules
<1>2. QP!Spec => []QP!TypeOK
  BY QP!TypeCorrect, QueueAssumptions DEF QP!Threads
<1>3. QP!Spec => []QP!OneOwner
  BY QP!Ownership, QueueAssumptions DEF QP!Threads
<1>4. QP!Spec => []QP!WakeupsSuffice
  BY QP!NoLostWakeup, QueueAssumptions DEF QP!Threads
<1>5. QP!Spec => QP!ImplementsFifo
  BY QP!Refinement, QueueAssumptions DEF QP!Threads
<1> QED
  BY <1>1, <1>2, <1>3, <1>4, <1>5, SameQueue, PTL

ClientPromises ==
    /\ M!TypeOK
    /\ M!OneCallerOfTheLibrary
    /\ M!LossWillBeReported
    /\ M!PublishOnValidHandle
    /\ M!ReportIsCurrent
    /\ M!ConnTellsTheTruth

(* ... and the client: the library is entered by one thread at a time, no  *)
(* loss of the connection goes unnoticed, and until a wait returns without *)
(* a signal pubmsg is given a handle that exists, reports are of the       *)
(* connection there is, and conn is right.                                 *)
THEOREM ClientKeepsItsPromises == Spec => []ClientPromises
<1>1. Spec => MP!Spec
  BY Composition, SameClient, PTL DEF ComponentsByTheirRules
<1>2. MP!Spec => []MP!TypeOK
  BY MP!TypeCorrect, ClientAssumptions DEF MP!Threads
<1>3. MP!Spec => []MP!OneCallerOfTheLibrary
  BY MP!Serialised, ClientAssumptions DEF MP!Threads
<1>4. MP!Spec => []MP!LossWillBeReported
  BY MP!NoMissedLoss, ClientAssumptions DEF MP!Threads
<1>5. MP!Spec => []MP!PublishOnValidHandle
  BY MP!PublishesOnValidHandle, ClientAssumptions DEF MP!Threads
<1>6. MP!Spec => []MP!ReportIsCurrent
  BY MP!ReportsAreCurrent, ClientAssumptions DEF MP!Threads
<1>7. MP!Spec => []MP!ConnTellsTheTruth
  BY MP!ConnIsTrue, ClientAssumptions DEF MP!Threads
<1>8. /\ MP!TypeOK /\ MP!OneCallerOfTheLibrary /\ MP!LossWillBeReported
      /\ MP!PublishOnValidHandle /\ MP!ReportIsCurrent /\ MP!ConnTellsTheTruth
      => ClientPromises
  BY SameClientProperties DEF ClientPromises
<1> QED
  BY <1>1, <1>2, <1>3, <1>4, <1>5, <1>6, <1>7, <1>8, PTL

-----------------------------------------------------------------------------
(* Objects and messages.                                                   *)

(* The object the consumer processes is on the heap, and the heap is finite*)
LEMMA ProcessedIsLive ==
    ASSUME Q!TypeOK, Q!OneOwner, Processing
    PROVE  data[Consumer] \in live
<1>1. Consumer \in Q!Holders
  BY DEF Processing, Q!Holders, Q!Popped
<1> QED
  BY <1>1 DEF Q!OneOwner

LEMMA HeapIsFinite == Q!TypeOK => IsFiniteSet(live) /\ Cardinality(live) \in Nat
BY FS_Subset, FS_CardinalityType, ItemsAssumption DEF Q!TypeOK

LEMMA ObjectsInit == Init => ObjectsAreMessages
BY FS_EmptySet, ThreadsAssumption
   DEF Init, Q!Init, M!Init, M!Threads, ObjectsAreMessages

(* Steps that leave heap, backlog and what the consumer does with its      *)
(* object alone.                                                           *)
LEMMA ObjectsFrame ==
    ASSUME ObjectsAreMessages, UNCHANGED <<live, backlog, answered>>,
           pc'[Consumer] = "idle" <=> pc[Consumer] = "idle",
           Processing => Processing'
    PROVE  ObjectsAreMessages'
BY DEF ObjectsAreMessages

LEMMA ObjectsStep ==
    /\ Q!TypeOK /\ Q!OneOwner /\ M!TypeOK
    /\ ObjectsAreMessages /\ [Next]_vars
    => ObjectsAreMessages'
<1> SUFFICES ASSUME Q!TypeOK, Q!OneOwner, M!TypeOK, ObjectsAreMessages, [Next]_vars
             PROVE  ObjectsAreMessages'
  OBVIOUS
<1>a. /\ qpc \in [{Receiver, Consumer} ->
                    {"idle", "lock", "waiting", "process"} \cup Q!Critical]
      /\ live \subseteq Items /\ backlog \in Nat
      /\ IsFiniteSet(live) /\ Cardinality(live) \in Nat
  BY HeapIsFinite DEF Q!TypeOK, Q!Threads, M!TypeOK
<1>b. \E S : pc \in [{Client, Consumer} \cup Reporters -> S]
  BY DEF M!TypeOK, M!Threads
<1> USE ThreadsAssumption, <1>a
<1>1. CASE UNCHANGED vars
  BY <1>1, ObjectsFrame DEF vars, queueVars, clientVars, Processing
<1>2. CASE MessageArrived
  <2>1. PICK d \in Items \ live : live' = live \cup {d}
    BY <1>2 DEF MessageArrived, Q!Produce
  <2>2. Cardinality(live') = Cardinality(live) + 1
    BY <2>1, FS_AddElement
  <2>3. /\ backlog' = backlog + 1 /\ UNCHANGED <<pc, answered>>
        /\ Processing' <=> Processing
    BY <1>2 DEF MessageArrived, M!Arrive, Q!Produce, Q!Goto, Processing
  <2> QED
    BY <2>2, <2>3 DEF ObjectsAreMessages
<1>3. CASE AckRead
  BY <1>3, ObjectsFrame DEF AckRead, queueVars, clientVars, Processing
<1>4. CASE ReceiverPush
  <2>1. UNCHANGED <<live, clientVars, answered>>
    BY <1>4 DEF ReceiverPush, Q!PushData, Q!LockQueue, Q!UnlockQueue, Q!CondWait,
                Q!PushFull, Q!PushInsert, Q!PushNotify
  <2>2. Processing => Processing'
    BY <1>4 DEF ReceiverPush, Q!PushData, Q!LockQueue, Q!UnlockQueue, Q!CondWait,
                Q!PushFull, Q!PushInsert, Q!PushNotify, Q!NotifyConsume, Q!SignalAndGoto,
                Q!empty, Q!Goto, Processing
  <2> QED
    BY <2>1, <2>2, ObjectsFrame DEF clientVars
<1>5. CASE ConsumerPop
  <2>1. UNCHANGED <<live, clientVars, answered>> /\ ~Processing
    BY <1>5 DEF ConsumerPop, Q!PopData, Q!LockQueue, Q!UnlockQueue, Q!CondWait,
                Q!PopEmpty, Q!PopRemove, Q!PopNotify, Processing
  <2> QED
    BY <2>1, ObjectsFrame DEF clientVars
<1>6. CASE NothingToAnswer
  BY <1>6 DEF NothingToAnswer, M!Dismiss, queueVars, Processing, ObjectsAreMessages
<1>7. CASE Answer
  BY <1>7, <1>b DEF Answer, M!PubCall, M!Goto, queueVars, Processing, ObjectsAreMessages
<1>8. CASE PublishLock \/ Publish \/ PublishAcked \/ PublishTimeout
  <2>1. /\ UNCHANGED <<queueVars, backlog, answered>>
        /\ pc[Consumer] # "idle" /\ pc'[Consumer] # "idle"
    BY <1>8, <1>b DEF PublishLock, Publish, PublishAcked, PublishTimeout, M!PubLock, M!Lock,
                      M!PubSend, M!PubAwaited, M!Goto
  <2> QED
    BY <2>1, ObjectsFrame DEF queueVars, Processing
<1>9. CASE PublishReturn
  BY <1>9, <1>b DEF PublishReturn, M!PubUnlock, M!Unlock, M!PubSkip, M!Goto, queueVars,
                    Processing, ObjectsAreMessages
<1>10. CASE Delete
  <2>1. Processing /\ answered /\ live' = live \ {data[Consumer]}
    BY <1>10 DEF Delete, Q!Process, Processing
  <2>2. Cardinality(live') = Cardinality(live) - 1
    BY <2>1, ProcessedIsLive, FS_RemoveElement
  <2> QED
    BY <1>10, <2>1, <2>2 DEF Delete, clientVars, ObjectsAreMessages
<1>11. CASE ClientThread
  <2>1. UNCHANGED <<queueVars, backlog, answered>> /\ pc'[Consumer] = pc[Consumer]
    BY <1>11, <1>b DEF ClientThread, M!ClientStep, M!Begin, M!ConnectLock, M!Lock, M!Create,
                 M!ConnectOk, M!ConnectFailed, M!Subscribe, M!Wait, M!Relock, M!Disconnect,
                 M!Destroy, M!ConnectUnlock, M!Unlock, M!Goto
  <2> QED
    BY <2>1, ObjectsFrame DEF queueVars, Processing
<1>12. ASSUME NEW r \in Reporters, Lose(r) \/ ConnectionLost(r)
       PROVE  ObjectsAreMessages'
  <2>1. UNCHANGED <<queueVars, backlog, answered>> /\ pc'[Consumer] = pc[Consumer]
    BY <1>12, <1>b DEF Lose, ConnectionLost, M!Lose, M!connlost, M!ReportLock, M!Lock,
                       M!ReportClear, M!ReportUnlock, M!Unlock, M!Goto
  <2> QED
    BY <2>1, ObjectsFrame DEF queueVars, Processing
<1>13. CASE Spurious
  <2>1. /\ UNCHANGED <<live, backlog, answered>> /\ pc'[Consumer] = pc[Consumer]
        /\ Processing => Processing'
    BY <1>13, <1>b DEF Spurious, M!Spurious, M!Goto, Q!Spurious, Q!Goto, queueVars, clientVars,
                       Processing
  <2> QED
    BY <2>1, ObjectsFrame
<1> QED
  BY <1>1, <1>2, <1>3, <1>4, <1>5, <1>6, <1>7, <1>8, <1>9, <1>10, <1>11, <1>12, <1>13
     DEF Next, ConsumerStep

(* For a queue and a heap of any size: each object on the heap is one      *)
(* message not looked at yet, but for the one that is being answered.      *)
THEOREM HeapIsBacklog == Spec => []ObjectsAreMessages
<1>1. ClientPromises => M!TypeOK
  BY DEF ClientPromises
<1> QED
  BY ObjectsInit, ObjectsStep, QueueKeepsItsPromises, ClientKeepsItsPromises, <1>1, PTL DEF Spec

(* The object that is being answered is not deleted under pubmsg.          *)
THEOREM AnsweredObjectIsLive ==
    Spec => [](pc[Consumer] # "idle" => data[Consumer] \in live)
<1>1. Q!TypeOK /\ Q!OneOwner /\ ObjectsAreMessages
      => (pc[Consumer] # "idle" => data[Consumer] \in live)
  BY ProcessedIsLive DEF ObjectsAreMessages
<1> QED
  BY <1>1, QueueKeepsItsPromises, HeapIsBacklog, PTL

(* The receive thread and the consumer never both sleep in the queue.      *)
THEOREM NotBothAsleep == Spec => []~(qpc[Receiver] = "waiting" /\ qpc[Consumer] = "waiting")
<1>1. Spec => QP!Spec
  BY Composition, SameQueue, PTL DEF ComponentsByTheirRules
<1>2. QP!Spec => []~(QP!full = {Receiver} /\ QP!empty = {Consumer})
  BY QP!NeverAllAsleep, QueueAssumptions DEF QP!Threads
<1>3. qpc[Receiver] = "waiting" /\ qpc[Consumer] = "waiting"
      => QP!full = {Receiver} /\ QP!empty = {Consumer}
  BY DEF QP!full, QP!empty
<1> QED
  BY <1>1, <1>2, <1>3, PTL

(* The heap of the pipeline: what is in the queue, and an object in the    *)
(* hands of each of the two threads.                                       *)
LEMMA HeapOfThePipeline ==
    Spec => [](/\ Cardinality(live) = Len(q) + Cardinality(QP!Holders)
               /\ QP!TypeOK)
<1>1. Spec => QP!Spec
  BY Composition, SameQueue, PTL DEF ComponentsByTheirRules
<1>2. QP!Spec => [](/\ QP!Cardinality(live) = Len(q) + QP!Cardinality(QP!Holders)
                    /\ QP!Cardinality(live) <= Cap + QP!Cardinality(QP!Threads))
  BY QP!HeapIsBounded, QueueAssumptions DEF QP!Threads
<1>3. QP!Spec => []QP!TypeOK
  BY QP!TypeCorrect, QueueAssumptions DEF QP!Threads
<1>4. \A S : QP!Cardinality(S) = Cardinality(S)
  BY DEF QP!Cardinality, Cardinality
<1>5. /\ QP!Cardinality(live) = Len(q) + QP!Cardinality(QP!Holders)
      /\ QP!Cardinality(live) <= Cap + QP!Cardinality(QP!Threads)
      => Cardinality(live) = Len(q) + Cardinality(QP!Holders)
  BY <1>4
<1> QED
  BY <1>1, <1>2, <1>3, <1>5, PTL

(* However many messages arrive, with Cap + 2 addresses `new` finds one    *)
(* whenever msgarrvd is called, and no more than Cap + 2 messages wait.    *)
NewSucceeds == qpc[Receiver] = "idle" => Items \ live # {}

THEOREM EnoughObjects ==
    ASSUME Cardinality(Items) >= Cap + 2
    PROVE  Spec => [](NewSucceeds /\ backlog <= Cap + 2)
<1>1. ASSUME Cardinality(live) = Len(q) + Cardinality(QP!Holders), QP!TypeOK,
             M!TypeOK, ObjectsAreMessages
      PROVE  NewSucceeds /\ backlog <= Cap + 2
  <2>1. /\ Cardinality({Receiver, Consumer}) = 2 /\ IsFiniteSet({Receiver, Consumer})
        /\ Cardinality({Consumer}) = 1 /\ IsFiniteSet({Consumer})
    <3>1. IsFiniteSet({Consumer}) /\ Cardinality({Consumer}) = 1
      BY FS_Singleton
    <3>2. {Receiver, Consumer} = {Consumer} \cup {Receiver} /\ Receiver \notin {Consumer}
      BY ThreadsAssumption
    <3> QED
      BY <3>1, <3>2, FS_AddElement
  <2>2. QP!Holders \subseteq {Receiver, Consumer}
    BY DEF QP!Holders
  <2>3. Cardinality(QP!Holders) <= 2 /\ Cardinality(QP!Holders) \in Nat
    BY <2>1, <2>2, FS_Subset, FS_CardinalityType
  <2>4. ASSUME qpc[Receiver] = "idle" PROVE Cardinality(QP!Holders) <= 1
    <3>1. QP!Holders \subseteq {Consumer}
      BY <2>4, ThreadsAssumption DEF QP!Holders, QP!Pushing
    <3> QED
      BY <2>1, <3>1, FS_Subset
  <2>5. Len(q) \in 0..Cap /\ Cap \in Nat /\ live \subseteq Items
    BY <1>1, CapAssumption DEF QP!TypeOK
  <2>6. Cardinality(live) <= Cap + 2
    BY <1>1, <2>3, <2>5
  <2>7. NewSucceeds
    <3> SUFFICES ASSUME qpc[Receiver] = "idle", Items \ live = {} PROVE FALSE
      BY DEF NewSucceeds
    <3>1. Cardinality(live) = Cardinality(Items) /\ Cardinality(Items) \in Nat
      <4>1. live = Items
        BY <2>5
      <4> QED
        BY <4>1, FS_CardinalityType, ItemsAssumption
    <3>2. Cardinality(live) <= Cap + 1
      BY <1>1, <2>3, <2>4, <2>5
    <3> QED
      BY <2>5, <3>1, <3>2
  <2>8. backlog <= Cap + 2
    <3>1. backlog \in Nat
      BY <1>1 DEF M!TypeOK
    <3>2. Cardinality(live) = backlog \/ Cardinality(live) = backlog + 1
      BY <1>1, <3>1 DEF ObjectsAreMessages
    <3> QED
      BY <2>5, <2>6, <3>1, <3>2
  <2> QED
    BY <2>7, <2>8
<1>2. ClientPromises => M!TypeOK
  BY DEF ClientPromises
<1> QED
  BY <1>1, <1>2, HeapOfThePipeline, HeapIsBacklog, ClientKeepsItsPromises, PTL

-----------------------------------------------------------------------------
(* What the mutex pubmsg leaks does to the pipeline.                       *)

(* The consumer calls pubmsg again after it returned with the mutex.       *)
Stuck == Leaked /\ pc[Consumer] = "lock"

LEMMA StuckStep ==
    /\ M!TypeOK /\ M!OneCallerOfTheLibrary /\ ObjectsAreMessages
    /\ Stuck /\ [Next]_vars
    => Stuck' /\ Processing /\ live \subseteq live'
<1> SUFFICES ASSUME M!TypeOK, M!OneCallerOfTheLibrary, ObjectsAreMessages, Stuck, [Next]_vars
             PROVE  Stuck' /\ Processing /\ live \subseteq live'
  OBVIOUS
<1>a. /\ mutex = Consumer /\ mutex # None /\ pc[Consumer] = "lock"
      /\ Processing /\ ~answered
  BY ThreadsAssumption DEF Stuck, Leaked, ObjectsAreMessages
<1>b. \E S : pc \in [{Client, Consumer} \cup Reporters -> S]
  BY DEF M!TypeOK, M!Threads
<1>c. /\ pc[Client] \notin {"wait", "unlock"}
      /\ \A r \in Reporters : pc[r] # "unlock"
  BY <1>a, ThreadsAssumption
     DEF M!OneCallerOfTheLibrary, M!InSection, M!InClient, M!InReport, M!Threads
<1> SUFFICES mutex' = mutex /\ pc'[Consumer] = pc[Consumer] /\ live \subseteq live'
  BY <1>a DEF Stuck, Leaked
<1> USE ThreadsAssumption, <1>a, <1>b, <1>c
<1>1. CASE UNCHANGED vars
  BY <1>1 DEF vars, queueVars, clientVars
<1>2. CASE MessageArrived
  BY <1>2 DEF MessageArrived, M!Arrive, Q!Produce
<1>3. CASE AckRead
  BY <1>3 DEF AckRead, queueVars, clientVars
<1>4. CASE ReceiverPush
  BY <1>4 DEF ReceiverPush, Q!PushData, Q!LockQueue, Q!UnlockQueue, Q!CondWait,
              Q!PushFull, Q!PushInsert, Q!PushNotify, clientVars
<1>5. CASE ConsumerPop
  BY <1>5 DEF ConsumerPop, Q!PopData, Q!LockQueue, Q!UnlockQueue, Q!CondWait,
              Q!PopEmpty, Q!PopRemove, Q!PopNotify, Processing
<1>6. ASSUME NothingToAnswer \/ Answer \/ PublishLock \/ Publish
      PROVE  FALSE
  BY <1>6 DEF NothingToAnswer, M!Dismiss, Answer, M!PubCall, PublishLock, M!PubLock, M!Lock,
              Publish, M!PubSend
<1>7. ASSUME PublishAcked \/ PublishTimeout \/ PublishReturn \/ Delete
      PROVE  FALSE
  BY <1>7 DEF PublishAcked, PublishTimeout, M!PubAwaited, PublishReturn, M!PubUnlock, M!Unlock,
              M!PubSkip, Delete
<1>8. CASE ClientThread
  BY <1>8 DEF ClientThread, M!ClientStep, M!Begin, M!ConnectLock, M!Lock, M!Create,
              M!ConnectOk, M!ConnectFailed, M!Subscribe, M!Wait, M!Relock, M!Disconnect,
              M!Destroy, M!ConnectUnlock, M!Unlock, M!Goto, queueVars
<1>9. ASSUME NEW r \in Reporters, Lose(r) \/ ConnectionLost(r)
      PROVE  mutex' = mutex /\ pc'[Consumer] = pc[Consumer] /\ live \subseteq live'
  BY <1>9 DEF Lose, ConnectionLost, M!Lose, M!connlost, M!ReportLock, M!Lock,
              M!ReportClear, M!ReportUnlock, M!Unlock, M!Goto, queueVars
<1>10. CASE Spurious
  BY <1>10 DEF Spurious, M!Spurious, M!Goto, Q!Spurious, queueVars, clientVars
<1> QED
  BY <1>1, <1>2, <1>3, <1>4, <1>5, <1>6, <1>7, <1>8, <1>9, <1>10 DEF Next, ConsumerStep

(* The first answer after pubmsg found no connection is the end of all     *)
(* answers: the consumer waits for the mutex it holds itself, for ever, in *)
(* process() of one object, and no object is deleted any more.             *)
THEOREM LeakStopsTheConsumer ==
    Spec => [][Stuck => Stuck' /\ Processing /\ live \subseteq live']_vars
<1>1. ClientPromises => M!TypeOK /\ M!OneCallerOfTheLibrary
  BY DEF ClientPromises
<1>2. M!TypeOK /\ M!OneCallerOfTheLibrary /\ ObjectsAreMessages /\ [Next]_vars
      => [Stuck => Stuck' /\ Processing /\ live \subseteq live']_vars
  BY StuckStep
<1> QED
  BY <1>1, <1>2, ClientKeepsItsPromises, HeapIsBacklog, PTL DEF Spec

-----------------------------------------------------------------------------
(* The receive thread, the consumer and the client thread wait for each    *)
(* other.                                                                  *)

LEMMA CycleStep ==
    /\ Q!TypeOK /\ M!TypeOK /\ M!OneCallerOfTheLibrary /\ ObjectsAreMessages
    /\ ReconnectCycle /\ [Next]_vars
    => ReconnectCycle' \/ Leaked'
<1> SUFFICES ASSUME Q!TypeOK, M!TypeOK, M!OneCallerOfTheLibrary, ObjectsAreMessages,
                    ReconnectCycle, [Next]_vars, ~Leaked'
             PROVE  ReconnectCycle'
  OBVIOUS
<1> DEFINE Blocked == {"lock", "test", "wait", "waiting"}
<1>a. /\ qpc[Receiver] \in Blocked /\ Q!IsFull
      /\ pc[Consumer] \in {"lock", "check"} /\ conn = 0
      /\ Processing /\ ~answered
  BY DEF ReconnectCycle, ObjectsAreMessages
<1>b. /\ \E S : pc \in [{Client, Consumer} \cup Reporters -> S]
      /\ \E S : qpc \in [{Receiver, Consumer} -> S]
  BY DEF M!TypeOK, M!Threads, Q!TypeOK, Q!Threads
<1> SUFFICES /\ qpc'[Receiver] \in Blocked /\ q' = q
             /\ pc'[Consumer] \in {"lock", "check"} /\ conn' = 0
  BY <1>a DEF ReconnectCycle, Q!IsFull
<1> HIDE DEF Blocked
<1> USE ThreadsAssumption, <1>a, <1>b
<1>1. CASE UNCHANGED vars
  BY <1>1 DEF vars, queueVars, clientVars
<1>2. ASSUME MessageArrived PROVE FALSE
  BY <1>2 DEF MessageArrived, Q!Produce, Blocked
<1>3. CASE AckRead
  BY <1>3 DEF AckRead, queueVars, clientVars
<1>4. CASE ReceiverPush
  <2>1. UNCHANGED clientVars
    BY <1>4 DEF ReceiverPush
  <2>2. Q!LockQueue(Receiver) \/ Q!PushFull(Receiver) \/ Q!CondWait(Receiver)
    BY <1>4 DEF ReceiverPush, Q!PushData, Q!PushInsert, Q!PushNotify, Q!UnlockQueue, Blocked
  <2>3. Q!empty = {}
    BY DEF Q!empty, Processing
  <2>4. q' = q /\ qpc'[Receiver] \in Blocked
    BY <2>2, <2>3 DEF Q!LockQueue, Q!PushFull, Q!CondWait, Q!NotifyConsume, Q!SignalAndGoto,
                      Q!Goto, Blocked
  <2> QED
    BY <2>1, <2>4 DEF clientVars
<1>5. ASSUME ConsumerPop \/ NothingToAnswer \/ Answer PROVE FALSE
  BY <1>5 DEF ConsumerPop, Q!PopData, Q!LockQueue, Q!UnlockQueue, Q!CondWait, Q!PopEmpty,
              Q!PopRemove, Q!PopNotify, Processing, NothingToAnswer, M!Dismiss, Answer, M!PubCall
<1>6. CASE PublishLock
  BY <1>6 DEF PublishLock, M!PubLock, M!Lock, M!Goto, queueVars
<1>7. ASSUME Publish \/ PublishAcked \/ PublishTimeout \/ Delete PROVE FALSE
  BY <1>7 DEF Publish, M!PubSend, PublishAcked, PublishTimeout, M!PubAwaited, Delete
<1>8. ASSUME PublishReturn PROVE FALSE
  <2>1. pc[Consumer] = "check" /\ pc'[Consumer] = "idle" /\ mutex' = mutex
    BY <1>8 DEF PublishReturn, M!PubUnlock, M!Unlock, M!PubSkip, M!Goto
  <2>2. mutex = Consumer
    BY <2>1 DEF M!OneCallerOfTheLibrary, M!InSection, M!InPublish, M!Threads
  <2> QED
    BY <2>1, <2>2 DEF Leaked
<1>9. CASE ClientThread
  <2>1. ~M!ConnectOk
    BY <1>9 DEF ClientThread, Reading, Blocked
  <2>2. UNCHANGED queueVars
    BY <1>9 DEF ClientThread
  <2>3. pc'[Consumer] = pc[Consumer] /\ conn' = 0
    BY <1>9, <2>1 DEF ClientThread, M!ClientStep, M!Begin, M!ConnectLock, M!Lock, M!Create,
              M!ConnectFailed, M!Subscribe, M!Wait, M!Relock, M!Disconnect,
              M!Destroy, M!ConnectUnlock, M!Unlock, M!Goto
  <2> QED
    BY <2>2, <2>3 DEF queueVars
<1>10. ASSUME NEW r \in Reporters, Lose(r) \/ ConnectionLost(r)
      PROVE  /\ qpc'[Receiver] \in Blocked /\ q' = q
             /\ pc'[Consumer] \in {"lock", "check"} /\ conn' = 0
  BY <1>10 DEF Lose, ConnectionLost, M!Lose, M!connlost, M!ReportLock, M!Lock,
              M!ReportClear, M!ReportUnlock, M!Unlock, M!Goto, queueVars
<1>11. CASE Spurious
  <2>1. CASE M!Spurious /\ UNCHANGED queueVars
    BY <2>1 DEF M!Spurious, M!Goto, queueVars
  <2>2. CASE (Q!Spurious(Receiver) \/ Q!Spurious(Consumer)) /\ UNCHANGED clientVars
    BY <2>2 DEF Q!Spurious, Q!Goto, clientVars, Blocked, Processing
  <2> QED
    BY <1>11, <2>1, <2>2 DEF Spurious
<1> QED
  BY <1>1, <1>2, <1>3, <1>4, <1>5, <1>6, <1>7, <1>8, <1>9, <1>10, <1>11 DEF Next, ConsumerStep

(* A connection that is lost while the queue is full and the consumer is   *)
(* about to answer: nothing the network, the timeouts or the scheduler do  *)
(* ends the cycle but the consumer's leaking the mutex.                    *)
THEOREM CycleHasNoWayOut == Spec => CycleEndsInLeak
<1>1. ClientPromises => M!TypeOK /\ M!OneCallerOfTheLibrary
  BY DEF ClientPromises
<1>2. /\ Q!TypeOK /\ M!TypeOK /\ M!OneCallerOfTheLibrary /\ ObjectsAreMessages /\ [Next]_vars
      => [ReconnectCycle => ReconnectCycle' \/ Leaked']_vars
  BY CycleStep
<1> QED
  BY <1>1, <1>2, QueueKeepsItsPromises, ClientKeepsItsPromises, HeapIsBacklog, PTL
  DEF Spec, CycleEndsInLeak

-----------------------------------------------------------------------------
(* What process() answers: MqttReply, with the variables of MCMqttReply.   *)

(* There is a reason for each name that xintiao is past and has not added. *)
Excused(x) ==
    \/ x \in failed
    \/ x = "MSGID" /\ message = "otherMsgid"
NamesExcused ==
    \A j \in 1..Len(Reply!Names) :
        j < k => Reply!Names[j] \in members \/ Excused(Reply!Names[j])

(* A half of the tree is on the heap: xintiao is at work or its failure is *)
(* known.                                                                  *)
HalvesExplained ==
    heap \cap {"root", "data"} # {} =>
        \/ rpc \in {"createData", "add"}
        \/ failed \cap {"root", "data", "DATA"} # {}

ReplyInv ==
    /\ k \in Nat \ {0}
    /\ heap \subseteq {"json", "root", "data", "text"}
    /\ rpc \in {"returned", "parse"} => "json" \notin heap
    /\ "text" \in heap => rpc \in {"pubmsg", "free", "crashed"}
    /\ rpc = "parse" => heap = {}
    /\ rpc = "create" => heap = {"json"}
    /\ rpc = "createData" => "root" \in heap \cup failed
    /\ rpc = "pubmsg" => str \/ failed \cap {"root", "data", "text"} # {}
    /\ str => k > Len(Reply!Names)
    /\ NamesExcused
    /\ HalvesExplained
    /\ Reply!DefectsHaveCauses

LEMMA NamesFacts ==
    /\ Len(Reply!Names) = 7
    /\ Reply!Names[6] = "DATA" /\ Reply!Names[7] = "CMDID"
    /\ \A x \in Reply!Wanted : \E j \in 1..Len(Reply!Names) : x = Reply!Names[j]
BY DEF Reply!Names, Reply!Wanted

LEMMA ReplyInit == Reply!Init => ReplyInv
BY NamesFacts
   DEF Reply!Init, ReplyInv, NamesExcused, HalvesExplained, Reply!DefectsHaveCauses,
       Reply!LeaksOnlyHalves, Reply!CrashesOnlyWithoutText, Reply!LacksOnlyWhatFailed

(* When xintiao is past the last name, DATA was joined or could not be.    *)
LEMMA DataExcused ==
    ASSUME k \in Nat, NamesExcused, k > Len(Reply!Names)
    PROVE  /\ "DATA" \in members \cup failed
           /\ \A x \in Reply!Wanted : x \in members \/ Excused(x)
<1>1. \A j \in 1..Len(Reply!Names) :
         Reply!Names[j] \in members \/ Excused(Reply!Names[j])
  BY NamesFacts DEF NamesExcused
<1>2. \A x \in Reply!Wanted : x \in members \/ Excused(x)
  BY <1>1, NamesFacts
<1>3. "DATA" \in members \/ Excused("DATA")
  BY <1>1, NamesFacts
<1> QED
  BY <1>2, <1>3 DEF Excused

LEMMA ReplyStep == ReplyInv /\ [Reply!Next]_(Reply!vars) => ReplyInv'
<1> SUFFICES ASSUME ReplyInv, [Reply!Next]_(Reply!vars) PROVE ReplyInv'
  OBVIOUS
<1> USE DEF ReplyInv, HalvesExplained, Reply!DefectsHaveCauses, Reply!LeaksOnlyHalves,
            Reply!CrashesOnlyWithoutText
<1>1. CASE UNCHANGED Reply!vars
  BY <1>1 DEF Reply!vars, NamesExcused, Excused, Reply!LacksOnlyWhatFailed
<1>2. CASE Reply!Arrive
  BY <1>2, NamesFacts DEF Reply!Arrive, NamesExcused, Reply!LacksOnlyWhatFailed
<1>3. CASE Reply!Parse
  BY <1>3 DEF Reply!Parse, Reply!Allocate, NamesExcused, Excused, Reply!LacksOnlyWhatFailed
<1>4. CASE Reply!CreateRoot
  BY <1>4 DEF Reply!CreateRoot, Reply!Allocate, NamesExcused, Excused, Reply!LacksOnlyWhatFailed
<1>5. CASE Reply!CreateData
  BY <1>5 DEF Reply!CreateData, Reply!Allocate, NamesExcused, Excused, Reply!LacksOnlyWhatFailed
<1>6. CASE Reply!Add
  <2>1. NamesExcused'
    BY <1>6 DEF Reply!Add, Reply!NoString, NamesExcused, Excused
  <2>2. Reply!LacksOnlyWhatFailed'
    BY <1>6 DEF Reply!Add, Reply!LacksOnlyWhatFailed
  <2> QED
    BY <1>6, <2>1, <2>2 DEF Reply!Add
<1>7. CASE Reply!PrintText
  BY <1>7, DataExcused DEF Reply!PrintText, Reply!Tree, NamesExcused, Excused,
                           Reply!LacksOnlyWhatFailed
<1>8. CASE Reply!PrintFails
  BY <1>8, DataExcused DEF Reply!PrintFails, Reply!Tree, NamesExcused, Excused,
                           Reply!LacksOnlyWhatFailed
<1>9. CASE Reply!Connected
  <2>1. NamesExcused'
    BY <1>9 DEF Reply!Connected, NamesExcused, Excused
  <2>2. Reply!LacksOnlyWhatFailed'
    BY <1>9, DataExcused DEF Reply!Connected, Excused, Reply!LacksOnlyWhatFailed
  <2> QED
    BY <1>9, <2>1, <2>2 DEF Reply!Connected
<1>10. CASE Reply!NotConnected
  BY <1>10 DEF Reply!NotConnected, NamesExcused, Excused, Reply!LacksOnlyWhatFailed
<1>11. CASE Reply!Free
  BY <1>11 DEF Reply!Free, NamesExcused, Excused, Reply!LacksOnlyWhatFailed
<1>12. CASE Reply!Delete
  BY <1>12 DEF Reply!Delete, NamesExcused, Excused, Reply!LacksOnlyWhatFailed
<1> QED
  BY <1>1, <1>2, <1>3, <1>4, <1>5, <1>6, <1>7, <1>8, <1>9, <1>10, <1>11, <1>12
     DEF Reply!Next, Reply!process

(* Whichever allocations fail, and for however many messages, process      *)
(* leaks, crashes or sends an incomplete answer for those failures only.   *)
THEOREM ReplyDefectsHaveCauses == ReplySpec => []DefectsHaveCauses
<1>1. ReplyInv => DefectsHaveCauses
  BY DEF ReplyInv, DefectsHaveCauses
<1> QED
  BY ReplyInit, ReplyStep, <1>1, PTL DEF ReplySpec, Reply!Spec
=============================================================================
