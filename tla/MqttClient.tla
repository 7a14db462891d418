----------------------------- MODULE MqttClient -----------------------------
(***************************************************************************)
(* mqtt/mqtt.c: the client thread that connects, subscribes, sleeps until  *)
(* the connection is lost and connects again; connlost, which the MQTT     *)
(* library calls on a thread of its own when a connection is lost; and     *)
(* pubmsg, called by the consumer thread for a message that arrived.       *)
(* They share mqttcd.conn and the handle mqttclient under mqttcMutex, and  *)
(* the condition variable mqttcCond.                                       *)
(*                                                                         *)
(* The MQTT library is external.  What is assumed of it: a connect may     *)
(* fail; a connection may be lost at any time, which it reports once, at   *)
(* any later time, by calling connlost; messages arrive on a subscribed    *)
(* connection only; every call returns.                                    *)
(*                                                                         *)
(* pthread_cond_wait may return without a signal (POSIX) when              *)
(* SpuriousWakeups is TRUE.  The mutex is a default one: a thread that     *)
(* locks it twice blocks for ever.                                         *)
(***************************************************************************)
EXTENDS Integers, FiniteSets

CONSTANTS
    Client,           \* the thread of mqtt_client_thread
    Publishers,       \* threads that call pubmsg
    Reporters,        \* library threads that call connlost
    MaxBacklog,       \* bound: messages that arrived and were not looked at
    SpuriousWakeups,  \* whether pthread_cond_wait may return unsignalled
    None              \* no thread

Threads == {Client} \cup Publishers \cup Reporters

ASSUME ThreadsAssumption ==
    /\ Client \notin Publishers \cup Reporters
    /\ Publishers \cap Reporters = {}
    /\ None \notin Threads
ASSUME BacklogAssumption == MaxBacklog \in Nat \ {0}
ASSUME SpuriousAssumption == SpuriousWakeups \in BOOLEAN

VARIABLES
    mutex,    \* the thread that holds mqttcMutex, or None
    pc,       \* where each thread is
    conn,     \* mqttcd.conn
    handle,   \* mqttclient and its connection, see Handles
    backlog,  \* messages that arrived and that no publisher has taken yet
    spurious  \* history: pthread_cond_wait has returned without a signal

vars == <<mutex, pc, conn, handle, backlog, spurious>>

(* The handle is NULL; created; connected; or its connection was lost.     *)
Handles == {"null", "made", "up", "lost"}

Init ==
    /\ mutex = None
    /\ pc = [t \in Threads |-> IF t = Client THEN "begin" ELSE "idle"]
    /\ conn = 0
    /\ handle = "null"
    /\ backlog = 0
    /\ spurious = FALSE

Goto(t, l) == pc' = [pc EXCEPT ![t] = l]

Lock(t, from, to) ==
    /\ pc[t] = from /\ mutex = None
    /\ mutex' = t
    /\ Goto(t, to)
    /\ UNCHANGED <<conn, handle, backlog, spurious>>

Unlock(t, to) ==
    /\ pc[t] = "unlock"
    /\ mutex' = None
    /\ Goto(t, to)
    /\ UNCHANGED <<conn, handle, backlog, spurious>>

-----------------------------------------------------------------------------
(* mqtt_client_thread.                                                     *)

Begin ==
    /\ pc[Client] = "begin"
    /\ conn' = 0
    /\ Goto(Client, "CONNECT")
    /\ UNCHANGED <<mutex, handle, backlog, spurious>>

ConnectLock == Lock(Client, "CONNECT", "create")

(* MQTTClient_create overwrites the handle; its result is not looked at.   *)
Create ==
    /\ pc[Client] = "create"
    /\ handle' \in {"made", "null"}
    /\ Goto(Client, "connect")
    /\ UNCHANGED <<mutex, conn, backlog, spurious>>

(* Mutant: conn is not set.                                                *)
ConnectOkSilent ==
    /\ pc[Client] = "connect" /\ handle = "made"
    /\ handle' = "up"
    /\ Goto(Client, "subscribe")
    /\ UNCHANGED <<mutex, conn, backlog, spurious>>
ConnectOk ==
    /\ pc[Client] = "connect" /\ handle = "made"
    /\ handle' = "up"
    /\ conn' = 1
    /\ Goto(Client, "subscribe")
    /\ UNCHANGED <<mutex, backlog, spurious>>

(* Mutant: a failed connect skips the tear-down.                           *)
ConnectFailedRetry ==
    /\ pc[Client] = "connect"
    /\ conn' = 0
    /\ Goto(Client, "unlock")
    /\ UNCHANGED <<mutex, handle, backlog, spurious>>
ConnectFailed ==
    /\ pc[Client] = "connect"
    /\ conn' = 0
    /\ Goto(Client, "RECONNECT")
    /\ UNCHANGED <<mutex, handle, backlog, spurious>>

Subscribe ==
    /\ pc[Client] = "subscribe"
    /\ Goto(Client, "wait")
    /\ UNCHANGED <<mutex, conn, handle, backlog, spurious>>

(* Mutant: the client thread looks again after a while instead of waiting. *)
WaitAWhile ==
    /\ pc[Client] = "wait"
    /\ mutex' = None
    /\ Goto(Client, "woken")
    /\ UNCHANGED <<conn, handle, backlog, spurious>>

(* pthread_cond_wait(&mqttcCond, &mqttcMutex): not in a loop.              *)
Wait ==
    /\ pc[Client] = "wait"
    /\ mutex' = None
    /\ Goto(Client, "waiting")
    /\ UNCHANGED <<conn, handle, backlog, spurious>>

Spurious ==
    /\ SpuriousWakeups
    /\ pc[Client] = "waiting"
    /\ Goto(Client, "woken")
    /\ spurious' = TRUE
    /\ UNCHANGED <<mutex, conn, handle, backlog>>

Relock == Lock(Client, "woken", "RECONNECT")

Disconnect ==
    /\ pc[Client] = "RECONNECT"
    /\ handle' = IF handle = "null" THEN "null" ELSE "made"
    /\ Goto(Client, "destroy")
    /\ UNCHANGED <<mutex, conn, backlog, spurious>>

Destroy ==
    /\ pc[Client] = "destroy"
    /\ handle' = "null"
    /\ Goto(Client, "unlock")
    /\ UNCHANGED <<mutex, conn, backlog, spurious>>

(* After sleep(3), with the mutex held.                                    *)
ConnectUnlock == Unlock(Client, "CONNECT")

ClientStep ==
    \/ Begin \/ ConnectLock \/ Create \/ ConnectOk \/ ConnectFailed
    \/ Subscribe \/ Wait \/ Relock \/ Disconnect \/ Destroy \/ ConnectUnlock

-----------------------------------------------------------------------------
(* connlost, on a thread r of the library.                                 *)

(* The connection is lost; the library starts a thread to report it.       *)
Lose(r) ==
    /\ handle = "up" /\ pc[r] = "idle"
    /\ handle' = "lost"
    /\ Goto(r, "lock")
    /\ UNCHANGED <<mutex, conn, backlog, spurious>>

(* Mutant: connlost does not take the mutex.                               *)
ReportUnlocked(r) ==
    /\ pc[r] = "lock"
    /\ Goto(r, "clear")
    /\ UNCHANGED <<mutex, conn, handle, backlog, spurious>>
ReportLock(r) == Lock(r, "lock", "clear")

(* Mutants: connlost forgets conn; connlost does not signal.               *)
ReportSignalOnly(r) ==
    /\ pc[r] = "clear"
    /\ pc' = [pc EXCEPT ![r] = "unlock",
                        ![Client] = IF @ = "waiting" THEN "woken" ELSE @]
    /\ UNCHANGED <<mutex, conn, handle, backlog, spurious>>
ReportClearOnly(r) ==
    /\ pc[r] = "clear"
    /\ conn' = 0
    /\ Goto(r, "unlock")
    /\ UNCHANGED <<mutex, handle, backlog, spurious>>
ReportClear(r) ==
    /\ pc[r] = "clear"
    /\ conn' = 0
    /\ pc' = [pc EXCEPT ![r] = "unlock",
                        ![Client] = IF @ = "waiting" THEN "woken" ELSE @]
    /\ UNCHANGED <<mutex, handle, backlog, spurious>>

ReportUnlock(r) == Unlock(r, "idle")

connlost(r) == ReportLock(r) \/ ReportClear(r) \/ ReportUnlock(r)

-----------------------------------------------------------------------------
(* msgarrvd and pubmsg, as the consumer thread p calls it.                 *)

Arrive ==
    /\ handle = "up" /\ pc[Client] # "subscribe"
    /\ backlog < MaxBacklog
    /\ backlog' = backlog + 1
    /\ UNCHANGED <<mutex, pc, conn, handle, spurious>>

(* A message without MSGID is dropped without an answer.                   *)
Dismiss(p) ==
    /\ pc[p] = "idle" /\ backlog > 0
    /\ backlog' = backlog - 1
    /\ UNCHANGED <<mutex, pc, conn, handle, spurious>>

(* Mutant: one answer consumes two messages.                               *)
PubCallTwo(p) ==
    /\ pc[p] = "idle" /\ backlog > 0
    /\ backlog' = backlog - 2
    /\ Goto(p, "lock")
    /\ UNCHANGED <<mutex, conn, handle, spurious>>
PubCall(p) ==
    /\ pc[p] = "idle" /\ backlog > 0
    /\ backlog' = backlog - 1
    /\ Goto(p, "lock")
    /\ UNCHANGED <<mutex, conn, handle, spurious>>

PubLock(p) == Lock(p, "lock", "check")

(* Mutant: the wait gives up the mutex, as if for mqttcCond.               *)
PubAwaitOpen(p) ==
    /\ pc[p] = "check" /\ conn = 1
    /\ mutex' = None
    /\ Goto(p, "await")
    /\ UNCHANGED <<conn, handle, backlog, spurious>>
(* conn == 1: MQTTClient_publishMessage and MQTTClient_waitForCompletion,  *)
(* which gives up after TIMEOUT.                                           *)
PubSend(p) ==
    /\ pc[p] = "check" /\ conn = 1
    /\ Goto(p, "await")
    /\ UNCHANGED <<mutex, conn, handle, backlog, spurious>>

PubAwaited(p) ==
    /\ pc[p] = "await"
    /\ Goto(p, "unlock")
    /\ UNCHANGED <<mutex, conn, handle, backlog, spurious>>

PubUnlock(p) == Unlock(p, "idle")

(* conn != 1: pubmsg returns; the unlock stands inside the if.             *)
PubSkip(p) ==
    /\ pc[p] = "check" /\ conn # 1
    /\ Goto(p, "idle")
    /\ UNCHANGED <<mutex, conn, handle, backlog, spurious>>

pubmsg(p) ==
    \/ PubLock(p) \/ PubSend(p) \/ PubAwaited(p) \/ PubUnlock(p) \/ PubSkip(p)

-----------------------------------------------------------------------------
Next ==
    \/ ClientStep
    \/ Spurious
    \/ Arrive
    \/ \E r \in Reporters : Lose(r) \/ connlost(r)
    \/ \E p \in Publishers : Dismiss(p) \/ PubCall(p) \/ pubmsg(p)

Spec == Init /\ [][Next]_vars

(* Threads that can run do, calls of the library return, and the consumer  *)
(* looks at every message.  Nothing obliges a connect to succeed, a        *)
(* connection to break or a message to arrive.                             *)
Fairness ==
    /\ WF_vars(ClientStep)
    /\ \A r \in Reporters : WF_vars(connlost(r))
    /\ \A p \in Publishers : WF_vars(pubmsg(p)) /\ WF_vars(Dismiss(p) \/ PubCall(p))

FairSpec == Spec /\ Fairness

-----------------------------------------------------------------------------
InClient == {"create", "connect", "subscribe", "wait", "RECONNECT", "destroy", "unlock"}
InReport == {"clear", "unlock"}
InPublish == {"check", "await", "unlock"}

InSection(t) ==
    \/ t = Client /\ pc[t] \in InClient
    \/ t \in Reporters /\ pc[t] \in InReport
    \/ t \in Publishers /\ pc[t] \in InPublish

(* The value of every variable of mqtt/mqtt.c and of its environment.      *)
TypeOK ==
    /\ mutex \in Threads \cup {None}
    /\ pc \in [Threads -> {"begin", "CONNECT", "waiting", "woken", "idle", "lock"}
                             \cup InClient \cup InReport \cup InPublish]
    /\ conn \in 0..1
    /\ handle \in Handles
    /\ backlog \in 0..MaxBacklog
    /\ spurious \in BOOLEAN

(* pubmsg returned with the mutex: its conn != 1 path does not unlock.     *)
Leaked ==
    \E p \in Publishers : mutex = p /\ pc[p] \notin InPublish

(* The MQTTClient API must not be entered by two threads at once           *)
(* (MQTTClient.h:1306): its callers all hold mqttcMutex, so the client     *)
(* thread never tears a handle down under a publish in progress.           *)
(* (msgarrvd, in the receive thread, gives back the memory of its message  *)
(* without the mutex, mqtt.c:52-53; that is no call on a handle.)          *)
OneCallerOfTheLibrary ==
    \A s, t \in Threads : InSection(s) /\ InSection(t) => s = t /\ mutex = t

(* Every handle is destroyed before the next is created, on the failing    *)
(* paths too: reconnecting for months leaks nothing.                       *)
NoHandleLeak == [][pc[Client] = "create" /\ pc'[Client] # "create" => handle = "null"]_vars

(* No loss goes unnoticed: while the client thread is on its way into      *)
(* pthread_cond_wait or sleeps there with a lost connection, the report    *)
(* that will wake it is still to come -- also when it was lost between     *)
(* MQTTClient_connect and the wait.                                        *)
LossWillBeReported ==
    handle = "lost" /\ pc[Client] \in {"subscribe", "wait", "waiting"}
        => \E r \in Reporters : pc[r] \in {"lock", "clear"}

(* A lost connection is torn down unless pubmsg has leaked the mutex: the  *)
(* leak is the only thing that stops the client from reconnecting.         *)
ReconnectsUnlessLeaked == handle = "lost" ~> (handle # "lost" \/ Leaked)

(* "//等待出现断开事件" (mqtt.c:116): the client thread waits for the loss *)
(* of the connection before it disconnects and destroys the handle.        *)
TearDownOnlyAfterLoss ==
    [][pc[Client] = "RECONNECT" /\ pc'[Client] = "destroy" => handle # "up"]_vars

(* ... and after the event it does reconnect.                              *)
LossLeadsToReconnect == handle = "lost" ~> handle # "lost"

-----------------------------------------------------------------------------
(* What holds until pthread_cond_wait returns without a signal for the     *)
(* first time: its result is not checked against conn, so from then on     *)
(* none of this is certain (MqttClientSpurious).                           *)

(* Until then the client thread does disconnect and destroy lost           *)
(* connections only.                                                       *)
TearDownNeedsLoss ==
    [][~spurious /\ pc[Client] = "RECONNECT" /\ pc'[Client] = "destroy"
         => handle # "up"]_vars

(* pubmsg hands the library a handle that MQTTClient_create returned and   *)
(* that was not destroyed since ("A valid client handle from a successful  *)
(* call to MQTTClient_create()", MQTTClient.h).                            *)
PublishOnValidHandle ==
    ~spurious => \A p \in Publishers : pc[p] = "await" => handle # "null"

(* A late report never marks down a newer, healthy connection.             *)
ReportIsCurrent ==
    ~spurious => \A r \in Reporters : pc[r] \in {"lock", "clear"} => handle = "lost"

(* While nobody is inside the mutex, conn says whether there is a          *)
(* connection for pubmsg to use, but for a loss not reported yet.          *)
ConnTellsTheTruth ==
    ~spurious /\ mutex = None =>
        (conn = 1 <=> \/ handle = "up"
                      \/ handle = "lost" /\ \E r \in Reporters : pc[r] = "lock")
=============================================================================
