---------------------------- MODULE MqttPipeline ----------------------------
(***************************************************************************)
(* The path of an MQTT message through the program, composed of BlockQueue *)
(* and MqttClient: the library's receive thread calls msgarrvd, which      *)
(* calls mqttArrived_Fun (MQTTProcess.cpp), which pushes a new MQTTData;   *)
(* the consumer thread (PCM/pcm.cpp) pops it, and MQTTData::process calls  *)
(* pubmsg when the message has a MSGID.                                    *)
(*                                                                         *)
(* The receive thread is also the one that reads the answers of the server *)
(* off the socket (external: MQTTClient.h:1298-1307), and the library has  *)
(* one of it: while it is blocked in PushData it reads none.  pubmsg,      *)
(* which waits for an acknowledgement with mqttcMutex held, then returns   *)
(* after TIMEOUT, and a connect fails after its own.  (A subscription that *)
(* is not answered times out as well; nobody looks at its result.)         *)
(***************************************************************************)
EXTENDS Integers, Sequences, FiniteSets

CONSTANTS
    Receiver,    \* the receive thread of the MQTT library
    Consumer,    \* the consumer thread
    Client,      \* the thread of mqtt_client_thread
    Reporters,   \* library threads that call connlost
    Items,       \* addresses of MQTTData objects
    Cap,         \* capacity of the queue
    SpuriousWakeups,
    None

ASSUME ThreadsAssumption ==
    /\ Receiver # Consumer /\ Client # Consumer
    /\ Client \notin Reporters /\ Consumer \notin Reporters
    /\ None \notin {Receiver, Consumer, Client} \cup Reporters
ASSUME ItemsAssumption == IsFiniteSet(Items) /\ Items # {} /\ None \notin Items
ASSUME CapAssumption == Cap \in Nat \ {0}
ASSUME SpuriousAssumption == SpuriousWakeups \in BOOLEAN

VARIABLES
    q, qmutex, qpc, data, live,            \* of BlockQueue
    mutex, pc, conn, handle, backlog, spurious,  \* of MqttClient
    answered,  \* the consumer is through with the object it is processing
    ack        \* acknowledgement of the last publish: "none" | "due" | "read"

(* No more messages than there are objects for can wait to be looked at.   *)
Q == INSTANCE BlockQueue WITH
        Producers <- {Receiver}, Consumers <- {Consumer}, mutex <- qmutex, pc <- qpc
M == INSTANCE MqttClient WITH
        Publishers <- {Consumer}, MaxBacklog <- Cardinality(Items)

queueVars == <<q, qmutex, qpc, data, live>>
clientVars == <<mutex, pc, conn, handle, backlog, spurious>>
vars == <<queueVars, clientVars, answered, ack>>

Init ==
    /\ Q!Init
    /\ M!Init
    /\ answered = FALSE
    /\ ack = "none"

Processing == qpc[Consumer] = "process"
Reading == qpc[Receiver] = "idle"     \* the receive thread is in the library

-----------------------------------------------------------------------------
(* The receive thread.                                                     *)

(* msgarrvd calls mqttArrived_Fun: new MQTTData, producter_push.           *)
MessageArrived ==
    /\ M!Arrive
    /\ Q!Produce(Receiver)
    /\ UNCHANGED <<answered, ack>>

(* delivered: an acknowledgement was read, unless the connection broke.    *)
AckRead ==
    /\ Reading /\ handle = "up" /\ ack = "due"
    /\ ack' = "read"
    /\ UNCHANGED <<queueVars, clientVars, answered>>

ReceiverPush ==
    /\ Q!PushData(Receiver)
    /\ UNCHANGED <<clientVars, answered, ack>>

-----------------------------------------------------------------------------
(* The consumer thread: PopData, process, delete.                          *)

ConsumerPop ==
    /\ Q!PopData(Consumer)
    /\ UNCHANGED <<clientVars, answered, ack>>

(* Mutant: process() deletes the object itself.                            *)
NothingToAnswerDeletes ==
    /\ Processing /\ ~answered
    /\ M!Dismiss(Consumer)
    /\ live' = live \ {data[Consumer]}
    /\ answered' = TRUE
    /\ UNCHANGED <<q, qmutex, qpc, data, ack>>
(* Not JSON, or no MSGID: process returns at once.                         *)
NothingToAnswer ==
    /\ Processing /\ ~answered
    /\ M!Dismiss(Consumer)
    /\ answered' = TRUE
    /\ UNCHANGED <<queueVars, ack>>

Answer ==
    /\ Processing /\ ~answered
    /\ M!PubCall(Consumer)
    /\ UNCHANGED <<queueVars, answered, ack>>

PublishLock ==
    /\ M!PubLock(Consumer)
    /\ UNCHANGED <<queueVars, answered, ack>>

(* Mutant: pubmsg does not look at conn.                                   *)
PublishUnchecked ==
    /\ pc[Consumer] = "check"
    /\ pc' = [pc EXCEPT ![Consumer] = "await"]
    /\ ack' = IF handle = "up" THEN "due" ELSE "none"
    /\ UNCHANGED <<queueVars, mutex, conn, handle, backlog, spurious, answered>>
Publish ==
    /\ M!PubSend(Consumer)
    /\ ack' = IF handle = "up" THEN "due" ELSE "none"
    /\ UNCHANGED <<queueVars, answered>>

PublishAcked ==
    /\ ack = "read" \/ handle # "up"
    /\ M!PubAwaited(Consumer)
    /\ ack' = "none"
    /\ UNCHANGED <<queueVars, answered>>

(* Mutant: MQTTClient_waitForCompletion without a limit.                   *)
PublishForEver == FALSE /\ UNCHANGED vars
PublishTimeout ==
    /\ ack = "due"
    /\ M!PubAwaited(Consumer)
    /\ ack' = "none"
    /\ UNCHANGED <<queueVars, answered>>

PublishReturn ==
    /\ M!PubUnlock(Consumer) \/ M!PubSkip(Consumer)
    /\ answered' = TRUE
    /\ UNCHANGED <<queueVars, ack>>

(* Mutant: the object is deleted before process() is through with it.      *)
DeleteEarly ==
    /\ Q!Process(Consumer)
    /\ answered' = FALSE
    /\ UNCHANGED <<clientVars, ack>>
Delete ==
    /\ answered
    /\ Q!Process(Consumer)
    /\ answered' = FALSE
    /\ UNCHANGED <<clientVars, ack>>

ConsumerStep ==
    \/ ConsumerPop \/ NothingToAnswer \/ Answer \/ PublishLock \/ Publish
    \/ PublishAcked \/ PublishTimeout \/ PublishReturn \/ Delete

-----------------------------------------------------------------------------
(* The client thread and connlost do not touch the queue.                  *)

(* MQTTClient_connect succeeds only if somebody reads the answer.          *)
ClientThread ==
    /\ M!ClientStep
    /\ M!ConnectOk => Reading
    /\ UNCHANGED <<queueVars, answered, ack>>

Lose(r) ==
    /\ M!Lose(r)
    /\ UNCHANGED <<queueVars, answered, ack>>

ConnectionLost(r) ==
    /\ M!connlost(r)
    /\ UNCHANGED <<queueVars, answered, ack>>

Spurious ==
    \/ M!Spurious /\ UNCHANGED <<queueVars, answered, ack>>
    \/ /\ SpuriousWakeups
       /\ Q!Spurious(Receiver) \/ Q!Spurious(Consumer)
       /\ UNCHANGED <<clientVars, answered, ack>>

Next ==
    \/ MessageArrived \/ AckRead \/ ReceiverPush
    \/ ConsumerStep
    \/ ClientThread
    \/ \E r \in Reporters : Lose(r) \/ ConnectionLost(r)
    \/ Spurious

Spec == Init /\ [][Next]_vars

(* Each thread runs, and the library's timeout expires (it is a disjunct   *)
(* of ConsumerStep).  An acknowledgement may never come.                   *)
Fairness ==
    /\ WF_vars(ReceiverPush)
    /\ WF_vars(ConsumerStep)
    /\ WF_vars(ClientThread)
    /\ \A r \in Reporters : WF_vars(ConnectionLost(r))
    /\ <>[][~Spurious]_vars

(* The client thread unlocks mqttcMutex after a failed attempt and locks it*)
(* again at once; the mutex is not fair, so attempts that fail for ever can*)
(* keep pubmsg out for ever.  Assume that the network settles at last: no  *)
(* connection is lost, and no attempt fails whose answer somebody reads.   *)
NetworkSettles ==
    <>[][/\ \A r \in Reporters : ~Lose(r)
         /\ pc[Client] = "connect" /\ Reading => pc'[Client] # "RECONNECT"]_vars

FairSpec == Spec /\ Fairness
SettledSpec == FairSpec /\ NetworkSettles

-----------------------------------------------------------------------------
(* pubmsg returned with mqttcMutex held.                                   *)
Leaked == mutex = Consumer /\ pc[Consumer] \notin {"check", "await", "unlock"}

(* Each object on the heap is one message not looked at yet, but for the   *)
(* one the consumer is answering; and pubmsg runs inside process() only.   *)
(* The object is still allocated while pubmsg works for it.                *)
ObjectsAreMessages ==
    /\ Cardinality(live) =
          backlog + (IF answered \/ pc[Consumer] # "idle" THEN 1 ELSE 0)
    /\ answered \/ pc[Consumer] # "idle" => Processing
    /\ answered => pc[Consumer] = "idle"

(* Everyone waits for everyone: the receive thread for room in the queue,  *)
(* the consumer for mqttcMutex, and the client thread, which has the mutex *)
(* for all but an instant, for the receive thread to read the answer to    *)
(* its connect.                                                            *)
ReconnectCycle ==
    /\ qpc[Receiver] \in {"lock", "test", "wait", "waiting"} /\ Q!IsFull
    /\ pc[Consumer] \in {"lock", "check"}
    /\ conn = 0

(* ... and no timeout breaks it.  Whatever the network does, the program   *)
(* reconnects no more and looks at no more messages: the one way out of    *)
(* the cycle is for the consumer to catch the mutex in that instant, and   *)
(* to leak it.                                                             *)
CycleEndsInLeak == [][ReconnectCycle => ReconnectCycle' \/ Leaked']_vars

(* Every message is processed and deleted, although the receive thread     *)
(* that would read the acknowledgement pubmsg waits for may itself be      *)
(* waiting for the consumer in a full queue: TIMEOUT breaks that cycle.    *)
(* Only the mutex that pubmsg leaks stops it, and a connection that is     *)
(* lost while the queue is full and the consumer about to answer.          *)
EveryMessageProcessed ==
    \A d \in Items : d \in live ~> (d \notin live \/ Leaked \/ ReconnectCycle)
=============================================================================
