-------------------------- MODULE MqttClientProofs --------------------------
(***************************************************************************)
(* Proofs about MqttClient for any sets of publishers and of reporters and *)
(* any bound on the backlog.                                               *)
(***************************************************************************)
EXTENDS MqttClient, TLAPS

ClientLabels == {"begin", "CONNECT", "waiting", "woken"} \cup InClient

(* Which labels belong to which thread, and that whoever is inside the     *)
(* mutex holds it; a publisher may also hold it outside (Leaked).          *)
Locking ==
    /\ TypeOK
    /\ pc[Client] \in ClientLabels
    /\ \A r \in Reporters : pc[r] \in {"idle", "lock"} \cup InReport
    /\ \A p \in Publishers : pc[p] \in {"idle", "lock"} \cup InPublish
    /\ \A t \in Threads : InSection(t) => mutex = t

LEMMA LockingInit == Init => Locking
<1> SUFFICES ASSUME Init PROVE Locking
  OBVIOUS
<1>1. TypeOK
  <2>1. spurious \in BOOLEAN
    BY DEF Init
  <2>2. pc \in [Threads -> {"begin", "CONNECT", "waiting", "woken", "idle", "lock"}
                              \cup InClient \cup InReport \cup InPublish]
    BY DEF Init
  <2> QED
    BY <2>1, <2>2, BacklogAssumption DEF Init, TypeOK, Handles
<1>2. \A t \in Threads : ~InSection(t)
  BY ThreadsAssumption DEF Init, Threads, InClient, InReport, InPublish, InSection
<1> QED
  BY <1>1, <1>2, ThreadsAssumption DEF Init, Locking, Threads, ClientLabels

LEMMA LockingStep == Locking /\ [Next]_vars => Locking'
<1> SUFFICES ASSUME Locking, [Next]_vars PROVE Locking'
  OBVIOUS
<1> USE ThreadsAssumption, BacklogAssumption
    DEF Locking, TypeOK, Threads, ClientLabels, InClient, InReport, InPublish,
        InSection, Handles, Goto, Lock, Unlock
<1>1. CASE UNCHANGED vars
  BY <1>1 DEF vars
<1>2. CASE Begin \/ ConnectLock \/ Create
  BY <1>2 DEF Begin, ConnectLock, Create
<1>3. CASE ConnectOk \/ ConnectFailed \/ Subscribe
  BY <1>3 DEF ConnectOk, ConnectFailed, Subscribe
<1>4. CASE Wait \/ Relock \/ Spurious
  BY <1>4 DEF Wait, Relock, Spurious
<1>5. CASE Disconnect \/ Destroy \/ ConnectUnlock
  BY <1>5 DEF Disconnect, Destroy, ConnectUnlock
<1>6. CASE Arrive
  BY <1>6 DEF Arrive
<1>7. ASSUME NEW r \in Reporters, Lose(r) \/ ReportLock(r) PROVE Locking'
  BY <1>7 DEF Lose, ReportLock
<1>8. ASSUME NEW r \in Reporters, ReportClear(r) PROVE Locking'
  BY <1>8 DEF ReportClear
<1>9. ASSUME NEW r \in Reporters, ReportUnlock(r) PROVE Locking'
  BY <1>9 DEF ReportUnlock
<1>10. ASSUME NEW p \in Publishers, Dismiss(p) \/ PubCall(p) \/ PubLock(p) PROVE Locking'
  BY <1>10 DEF Dismiss, PubCall, PubLock
<1>11. ASSUME NEW p \in Publishers, PubSend(p) \/ PubAwaited(p) \/ PubUnlock(p) \/ PubSkip(p)
       PROVE  Locking'
  BY <1>11 DEF PubSend, PubAwaited, PubUnlock, PubSkip
<1> QED
  BY <1>1, <1>2, <1>3, <1>4, <1>5, <1>6, <1>7, <1>8, <1>9, <1>10, <1>11
     DEF Next, ClientStep, connlost, pubmsg

(* The positions of all threads, conn, the handle and the backlog only     *)
(* take the values mqtt/mqtt.c gives them.                                 *)
THEOREM TypeCorrect == Spec => []TypeOK
<1>1. Locking => TypeOK
  BY DEF Locking
<1> QED
  BY LockingInit, LockingStep, <1>1, PTL DEF Spec

(* The library is never entered by two threads at once, though pubmsg may  *)
(* leak the mutex and the client thread may wake without a signal.         *)
THEOREM Serialised == Spec => []OneCallerOfTheLibrary
<1>1. Locking => OneCallerOfTheLibrary
  BY DEF Locking, OneCallerOfTheLibrary
<1> QED
  BY LockingInit, LockingStep, <1>1, PTL DEF Spec

-----------------------------------------------------------------------------
(* The handle follows the client thread.                                   *)

HandleInv ==
    /\ pc[Client] \in {"begin", "CONNECT", "create", "unlock"} => handle = "null"
    /\ pc[Client] \in {"subscribe", "wait"} => handle \in {"up", "lost"}
    /\ pc[Client] = "connect" => handle \in {"made", "null"}
    /\ pc[Client] = "destroy" => handle \in {"made", "null"}
    /\ pc[Client] = "waiting" => handle \in {"up", "lost"}
    /\ LossWillBeReported

LEMMA HandleInit == Init => HandleInv
BY DEF Init, HandleInv, LossWillBeReported, Threads

LEMMA HandleStep == Locking /\ HandleInv /\ [Next]_vars => HandleInv'
<1> SUFFICES ASSUME Locking, HandleInv, [Next]_vars PROVE HandleInv'
  OBVIOUS
<1> USE ThreadsAssumption
    DEF Locking, TypeOK, Threads, ClientLabels, InClient, InReport, InPublish,
        InSection, Handles, Goto, Lock, Unlock, HandleInv, LossWillBeReported
<1>1. CASE UNCHANGED vars
  BY <1>1 DEF vars
<1>2. CASE Begin \/ ConnectLock \/ Create
  BY <1>2 DEF Begin, ConnectLock, Create
<1>3. CASE ConnectOk \/ ConnectFailed \/ Subscribe
  BY <1>3 DEF ConnectOk, ConnectFailed, Subscribe
<1>4. CASE Wait \/ Relock \/ Spurious
  BY <1>4 DEF Wait, Relock, Spurious
<1>5. CASE Disconnect \/ Destroy \/ ConnectUnlock
  BY <1>5 DEF Disconnect, Destroy, ConnectUnlock
<1>6. CASE Arrive
  BY <1>6 DEF Arrive
<1>7. ASSUME NEW r \in Reporters, Lose(r) PROVE HandleInv'
  BY <1>7 DEF Lose
<1>8. ASSUME NEW r \in Reporters, ReportLock(r) PROVE HandleInv'
  BY <1>8 DEF ReportLock
<1>9. ASSUME NEW r \in Reporters, ReportClear(r) PROVE HandleInv'
  <2>1. pc[Client] \notin InClient /\ pc'[Client] \notin {"subscribe", "wait", "waiting"}
    BY <1>9 DEF ReportClear
  <2> QED
    BY <1>9, <2>1 DEF ReportClear
<1>10. ASSUME NEW r \in Reporters, ReportUnlock(r) PROVE HandleInv'
  BY <1>10 DEF ReportUnlock
<1>11. ASSUME NEW p \in Publishers, Dismiss(p) \/ PubCall(p) \/ PubLock(p) PROVE HandleInv'
  BY <1>11 DEF Dismiss, PubCall, PubLock
<1>12. ASSUME NEW p \in Publishers, PubSend(p) \/ PubAwaited(p) \/ PubUnlock(p) \/ PubSkip(p)
       PROVE  HandleInv'
  BY <1>12 DEF PubSend, PubAwaited, PubUnlock, PubSkip
<1> QED
  BY <1>1, <1>2, <1>3, <1>4, <1>5, <1>6, <1>7, <1>8, <1>9, <1>10, <1>11, <1>12
     DEF Next, ClientStep, connlost, pubmsg

(* A client thread on its way to sleep or asleep with a lost connection is *)
(* always still to be woken by a report.                                   *)
THEOREM NoMissedLoss == Spec => []LossWillBeReported
<1>1. HandleInv => LossWillBeReported
  BY DEF HandleInv
<1> QED
  BY LockingInit, LockingStep, HandleInit, HandleStep, <1>1, PTL DEF Spec

(* MQTTClient_create never overwrites a handle.                            *)
THEOREM CreateOverwritesNothing == Spec => NoHandleLeak
<1>1. HandleInv /\ [Next]_vars
         => [pc[Client] = "create" /\ pc'[Client] # "create" => handle = "null"]_vars
  BY DEF HandleInv
<1> QED
  BY LockingInit, LockingStep, HandleInit, HandleStep, <1>1, PTL DEF Spec, NoHandleLeak

-----------------------------------------------------------------------------
(* Until a wakeup out of nothing, the client thread, the reports and conn  *)
(* agree.                                                                  *)

Agree ==
    /\ \A r \in Reporters : pc[r] \in {"lock", "clear"} => handle = "lost"
    /\ \A r, s \in Reporters :
          pc[r] \in {"lock", "clear"} /\ pc[s] \in {"lock", "clear"} => r = s
    /\ pc[Client] \in {"woken", "RECONNECT"} => conn = 0 /\ handle # "up"
    /\ pc[Client] \in {"begin", "CONNECT", "create", "destroy", "unlock", "connect"} => conn = 0
    /\ pc[Client] \in {"subscribe", "wait"} => conn = 1
    /\ pc[Client] = "waiting" => conn = 1
    /\ pc[Client] \notin {"subscribe", "wait", "waiting"}
          => \A r \in Reporters : pc[r] \notin {"lock", "clear"}
    /\ \A p \in Publishers : pc[p] = "await" => handle # "null"

AgreeInv == ~spurious => Agree

LEMMA AgreeInit == Init => AgreeInv
BY ThreadsAssumption DEF Init, AgreeInv, Agree, Threads

(* A return without a signal is not forgotten.                             *)
LEMMA StaysSpurious == Locking /\ [Next]_vars /\ ~spurious' => ~spurious
<1> SUFFICES ASSUME Locking, [Next]_vars, ~spurious' PROVE ~spurious
  OBVIOUS
<1> USE DEF Lock, Unlock
<1>1. CASE UNCHANGED vars
  BY <1>1 DEF vars
<1>2. CASE ClientStep \/ Spurious
  BY <1>2 DEF ClientStep, Spurious, Begin, ConnectLock, Create, ConnectOk, ConnectFailed,
              Subscribe, Wait, Relock, Disconnect, Destroy, ConnectUnlock
<1>3. CASE Arrive
  BY <1>3 DEF Arrive
<1>4. ASSUME NEW r \in Reporters, Lose(r) \/ connlost(r) PROVE ~spurious
  BY <1>4 DEF Lose, connlost, ReportLock, ReportClear, ReportUnlock
<1>5. ASSUME NEW p \in Publishers, Dismiss(p) \/ PubCall(p) \/ pubmsg(p) PROVE ~spurious
  BY <1>5 DEF Dismiss, PubCall, pubmsg, PubLock, PubSend, PubAwaited, PubUnlock, PubSkip
<1> QED
  BY <1>1, <1>2, <1>3, <1>4, <1>5 DEF Next

LEMMA AgreeStep == Locking /\ HandleInv /\ AgreeInv /\ [Next]_vars => AgreeInv'
<1> SUFFICES ASSUME Locking, HandleInv, AgreeInv, [Next]_vars, ~spurious'
             PROVE  Agree'
  BY DEF AgreeInv
<1>0. Agree
  BY StaysSpurious DEF AgreeInv
<1> USE <1>0, ThreadsAssumption
    DEF Locking, TypeOK, Threads, ClientLabels, InClient, InReport, InPublish,
        InSection, Handles, Goto, Lock, Unlock, HandleInv, Agree
<1>1. CASE UNCHANGED vars
  BY <1>1 DEF vars
<1>2. CASE Begin \/ ConnectLock \/ Create
  BY <1>2 DEF Begin, ConnectLock, Create
<1>3. CASE ConnectOk \/ ConnectFailed \/ Subscribe
  BY <1>3 DEF ConnectOk, ConnectFailed, Subscribe
<1>4. CASE Wait \/ Relock \/ Spurious
  BY <1>4 DEF Wait, Relock, Spurious
<1>5. CASE Disconnect \/ Destroy \/ ConnectUnlock
  BY <1>5 DEF Disconnect, Destroy, ConnectUnlock
<1>6. CASE Arrive
  BY <1>6 DEF Arrive
<1>7. ASSUME NEW r \in Reporters, Lose(r) PROVE Agree'
  BY <1>7 DEF Lose
<1>8. ASSUME NEW r \in Reporters, ReportLock(r) PROVE Agree'
  BY <1>8 DEF ReportLock
<1>9. ASSUME NEW r \in Reporters, ReportClear(r) PROVE Agree'
  <2>1. pc[Client] = "waiting" /\ pc'[Client] = "woken" /\ handle = "lost"
    BY <1>0, <1>9 DEF ReportClear
  <2> QED
    BY <1>9, <2>1 DEF ReportClear
<1>10. ASSUME NEW r \in Reporters, ReportUnlock(r) PROVE Agree'
  BY <1>10 DEF ReportUnlock
<1>11. ASSUME NEW p \in Publishers, Dismiss(p) \/ PubCall(p) \/ PubLock(p) PROVE Agree'
  BY <1>11 DEF Dismiss, PubCall, PubLock
<1>12. ASSUME NEW p \in Publishers, PubSend(p) \/ PubAwaited(p) \/ PubUnlock(p) \/ PubSkip(p)
       PROVE  Agree'
  BY <1>12 DEF PubSend, PubAwaited, PubUnlock, PubSkip
<1> QED
  BY <1>1, <1>2, <1>3, <1>4, <1>5, <1>6, <1>7, <1>8, <1>9, <1>10, <1>11, <1>12
     DEF Next, ClientStep, connlost, pubmsg

LEMMA AgreeAlways == Spec => [](Locking /\ HandleInv /\ AgreeInv)
BY LockingInit, LockingStep, HandleInit, HandleStep, AgreeInit, AgreeStep, PTL DEF Spec

(* pubmsg publishes on a handle that exists, until pthread_cond_wait       *)
(* returns without a signal.                                               *)
THEOREM PublishesOnValidHandle == Spec => []PublishOnValidHandle
<1>1. AgreeInv => PublishOnValidHandle
  BY DEF AgreeInv, Agree, PublishOnValidHandle
<1> QED
  BY AgreeAlways, <1>1, PTL

(* ... no report of an old connection reaches a newer one ...              *)
THEOREM ReportsAreCurrent == Spec => []ReportIsCurrent
<1>1. AgreeInv => ReportIsCurrent
  BY DEF AgreeInv, Agree, ReportIsCurrent
<1> QED
  BY AgreeAlways, <1>1, PTL

(* ... conn can be trusted by whoever takes the mutex ...                  *)
THEOREM ConnIsTrue == Spec => []ConnTellsTheTruth
<1>1. Locking /\ HandleInv /\ AgreeInv => ConnTellsTheTruth
  <2> SUFFICES ASSUME Locking, HandleInv, Agree, ~spurious, mutex = None
               PROVE  ConnTellsTheTruth
    BY DEF AgreeInv, ConnTellsTheTruth
  <2>1. CASE pc[Client] = "waiting"
    BY <2>1, ThreadsAssumption DEF Locking, TypeOK, HandleInv, Agree, ConnTellsTheTruth,
       LossWillBeReported, InSection, InReport, Threads
  <2>2. CASE pc[Client] # "waiting"
    <3>1. pc[Client] \notin InClient
      BY <2>2, ThreadsAssumption DEF Locking, InSection, Threads
    <3>2. conn = 0
      BY <3>1, <2>2 DEF Locking, Agree, ClientLabels, InClient
    <3>3. handle # "up" /\ \A r \in Reporters : pc[r] # "lock"
      BY <3>1, <2>2 DEF Locking, HandleInv, Agree, ClientLabels, InClient
    <3> QED
      BY <3>2, <3>3 DEF ConnTellsTheTruth
  <2> QED
    BY <2>1, <2>2
<1> QED
  BY AgreeAlways, <1>1, PTL

(* ... and the client thread never disconnects a connection that works.    *)
THEOREM NoNeedlessTearDown == Spec => TearDownNeedsLoss
<1>1. AgreeInv /\ [Next]_vars
         => [~spurious /\ pc[Client] = "RECONNECT" /\ pc'[Client] = "destroy"
               => handle # "up"]_vars
  BY DEF AgreeInv, Agree
<1>2. Spec => [][Next]_vars
  BY PTL DEF Spec
<1> QED
  BY AgreeAlways, <1>1, <1>2, PTL DEF TearDownNeedsLoss

-----------------------------------------------------------------------------
(* The path of pubmsg that returns without its unlock.                     *)

LEMMA LeakStep ==
    Locking /\ Leaked /\ [Next]_vars => Leaked' /\ handle' \in {handle, "lost"}
<1> SUFFICES ASSUME Locking, Leaked, [Next]_vars
             PROVE  Leaked' /\ handle' \in {handle, "lost"}
  OBVIOUS
<1>1. PICK p \in Publishers : mutex = p /\ pc[p] \notin InPublish
  BY DEF Leaked
<1>2. \A t \in Threads : ~InSection(t)
  BY <1>1, ThreadsAssumption DEF Locking, InSection, Threads
<1>3. pc[Client] \notin InClient /\ \A r \in Reporters : pc[r] \notin InReport
  BY <1>2, ThreadsAssumption DEF InSection, Threads
<1>4. mutex # None /\ p # Client /\ p \notin Reporters
  BY <1>1, ThreadsAssumption DEF Threads
<1>5. \A s \in Publishers : pc[s] \notin InPublish
  BY <1>2, ThreadsAssumption DEF InSection, Threads
<1> USE <1>1, <1>3, <1>4, <1>5 DEF Locking, TypeOK, Threads, InClient, InReport, InPublish,
        Goto, Lock, Unlock, Leaked
<1>6. CASE UNCHANGED vars
  BY <1>6 DEF vars
<1>7. CASE ClientStep \/ Spurious
  <2>1. mutex' = mutex /\ handle' = handle /\ pc'[p] = pc[p]
    BY <1>7 DEF ClientStep, Spurious, Begin, ConnectLock, Create, ConnectOk, ConnectFailed,
                Subscribe, Wait, Relock, Disconnect, Destroy, ConnectUnlock
  <2> QED
    BY <2>1
<1>8. CASE Arrive
  BY <1>8 DEF Arrive
<1>9. ASSUME NEW r \in Reporters, Lose(r) \/ connlost(r)
      PROVE  Leaked' /\ handle' \in {handle, "lost"}
  <2>1. mutex' = mutex /\ handle' \in {handle, "lost"} /\ pc'[p] = pc[p]
    BY <1>9 DEF Lose, connlost, ReportLock, ReportClear, ReportUnlock
  <2> QED
    BY <2>1
<1>10. ASSUME NEW s \in Publishers, Dismiss(s) \/ PubCall(s) \/ pubmsg(s)
       PROVE  Leaked' /\ handle' \in {handle, "lost"}
  <2>1. mutex' = mutex /\ handle' = handle /\ pc'[p] \in {pc[p], "lock"}
    BY <1>10 DEF Dismiss, PubCall, pubmsg, PubLock, PubSend, PubAwaited, PubUnlock, PubSkip
  <2> QED
    BY <2>1
<1> QED
  BY <1>6, <1>7, <1>8, <1>9, <1>10 DEF Next

(* A mutex that pubmsg kept is never given back, and with it the client    *)
(* thread never touches the handle again: it only can be lost.             *)
THEOREM LeakIsForEver == Spec => [][Leaked => Leaked' /\ handle' \in {handle, "lost"}]_vars
<1>1. Locking /\ [Next]_vars => [Leaked => Leaked' /\ handle' \in {handle, "lost"}]_vars
  BY LeakStep
<1> QED
  BY LockingInit, LockingStep, <1>1, PTL DEF Spec

(* So ReconnectsUnlessLeaked cannot be had without its exception: after a  *)
(* leak the loss of the connection is the last thing that happens to it.   *)
THEOREM LeakedLossIsFinal ==
    Spec => [](Leaked /\ handle = "lost" => [](Leaked /\ handle = "lost"))
<1> DEFINE Lost == Leaked /\ handle = "lost"
<1>1. Locking /\ Lost /\ [Next]_vars => Lost'
  BY LeakStep
<1>2. Spec => []Locking /\ [][Next]_vars
  BY LockingInit, LockingStep, PTL DEF Spec
<1> HIDE DEF Lost
<1>3. Spec => [](Lost => []Lost)
  BY <1>1, <1>2, PTL
<1> QED
  BY <1>3 DEF Lost

-----------------------------------------------------------------------------
(* Without spurious wakeups.                                               *)

LEMMA SpuriousStep == SpuriousWakeups = FALSE /\ ~spurious /\ [Next]_vars => ~spurious'
<1> SUFFICES ASSUME SpuriousWakeups = FALSE, ~spurious, [Next]_vars PROVE ~spurious'
  OBVIOUS
<1>1. CASE UNCHANGED vars
  BY <1>1 DEF vars
<1>2. CASE ClientStep
  BY <1>2 DEF ClientStep, Begin, ConnectLock, Lock, Create, ConnectOk, ConnectFailed,
              Subscribe, Wait, Relock, Disconnect, Destroy, ConnectUnlock, Unlock
<1>3. CASE Spurious \/ Arrive
  BY <1>3 DEF Spurious, Arrive
<1>4. ASSUME NEW r \in Reporters, Lose(r) \/ connlost(r) PROVE ~spurious'
  BY <1>4 DEF Lose, connlost, ReportLock, Lock, ReportClear, ReportUnlock, Unlock
<1>5. ASSUME NEW p \in Publishers, Dismiss(p) \/ PubCall(p) \/ pubmsg(p) PROVE ~spurious'
  BY <1>5 DEF Dismiss, PubCall, pubmsg, PubLock, Lock, PubSend, PubAwaited, PubUnlock,
              Unlock, PubSkip
<1> QED
  BY <1>1, <1>2, <1>3, <1>4, <1>5 DEF Next

(* It is the spurious return alone that breaks what the comment at         *)
(* mqtt.c:116 says: where pthread_cond_wait returns for signals only, the  *)
(* client thread does wait for the loss, whatever the threads do.          *)
THEOREM WaitsForLossIfSignalled ==
    ASSUME SpuriousWakeups = FALSE
    PROVE  Spec => TearDownOnlyAfterLoss
<1>1. Spec => []~spurious
  <2>1. Init => ~spurious
    BY DEF Init
  <2>2. ~spurious /\ [Next]_vars => ~spurious'
    BY SpuriousStep
  <2> QED
    BY <2>1, <2>2, PTL DEF Spec
<1>2. ~spurious /\ [~spurious /\ pc[Client] = "RECONNECT" /\ pc'[Client] = "destroy"
                       => handle # "up"]_vars
      => [pc[Client] = "RECONNECT" /\ pc'[Client] = "destroy" => handle # "up"]_vars
  OBVIOUS
<1> QED
  BY <1>1, <1>2, NoNeedlessTearDown, PTL DEF TearDownNeedsLoss, TearDownOnlyAfterLoss
=============================================================================
