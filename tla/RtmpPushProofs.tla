--------------------------- MODULE RtmpPushProofs ---------------------------
(***************************************************************************)
(* Proofs about RtmpPush for any set of writers and of handles.            *)
(***************************************************************************)
EXTENDS RtmpPush, TLAPS

-----------------------------------------------------------------------------
(* Types.                                                                  *)

LEMMA TypeInit == Init => TypeOK
BY DEF Init, TypeOK, Statuses

LEMMA TypeStep == TypeOK /\ [Next]_vars => TypeOK'
<1> SUFFICES ASSUME TypeOK, [Next]_vars PROVE TypeOK'
  OBVIOUS
<1> USE DEF TypeOK, Statuses, runVars, writerVars
<1>1. CASE UNCHANGED vars
  BY <1>1 DEF vars
<1>2. CASE startPush \/ stopPush
  BY <1>2 DEF startPush, stopPush
<1>3. CASE run
  BY <1>3 DEF run, Switch, CaseStopPush, Open, Connected, NotConnected, Destroy,
              Forget, KeepRunning, Exit, Stopped, CaseConnErr, Retry, Deinit
<1>4. ASSUME NEW w \in Writers, WriteTest(w) \/ Finish(w) PROVE TypeOK'
  BY <1>4 DEF WriteTest, Finish, WriteSend, WriteDone, WriteError, SetConnErr
<1> QED
  BY <1>1, <1>2, <1>3, <1>4 DEF Next

(* The status, the two commands, the handle and the position of every      *)
(* thread only take the values the code gives them.                        *)
THEOREM TypeCorrect == Spec => []TypeOK
BY TypeInit, TypeStep, PTL DEF Spec

-----------------------------------------------------------------------------
(* One handle.  The status does not say whether _rtmp is set -- a writer   *)
(* can overwrite it at any time --, so the invariant goes by the position  *)
(* of the run thread: outside of its work on a connection, _rtmp is NULL   *)
(* whenever the status is one that leads to another open.                  *)
Idle == {"STOPPUSH", "CONNINIT"}

HandleInv ==
    /\ OneHandle
    /\ pc \in {"STOPPUSH", "CONNINIT", "stop", "retry"} => rtmp = NULL
    /\ pc = "open" => rtmp # NULL
    /\ pc = "forget" => live = {}
    /\ pc = "destroy" => ret \in {"checkExit", "stop", "retry"}
    /\ pc = "forget" => ret \in {"checkExit", "stop", "retry"}
    /\ status \in Idle => \/ rtmp = NULL
                          \/ pc \in {"open", "failed", "destroy", "forget"}

LEMMA HandleInit == Init => HandleInv
BY DEF Init, HandleInv, OneHandle, Idle

LEMMA HandleStep == TypeOK /\ HandleInv /\ [Next]_vars => HandleInv'
<1> SUFFICES ASSUME TypeOK, HandleInv, [Next]_vars PROVE HandleInv'
  OBVIOUS
<1> USE HandlesAssumption
    DEF TypeOK, Statuses, HandleInv, OneHandle, Idle, runVars, writerVars
<1>1. CASE UNCHANGED vars
  BY <1>1 DEF vars
<1>2. CASE startPush \/ stopPush
  BY <1>2 DEF startPush, stopPush
<1>3. CASE Switch
  BY <1>3 DEF Switch
<1>4. CASE CaseStopPush
  BY <1>4 DEF CaseStopPush
<1>5. CASE Open
  BY <1>5 DEF Open
<1>6. CASE Connected
  BY <1>6 DEF Connected
<1>7. CASE NotConnected
  BY <1>7 DEF NotConnected, Deinit
<1>8. CASE Destroy
  BY <1>8 DEF Destroy
<1>9. CASE Forget
  BY <1>9 DEF Forget
<1>10. CASE KeepRunning
  BY <1>10 DEF KeepRunning
<1>11. CASE Exit
  BY <1>11 DEF Exit, Deinit
<1>12. CASE Stopped
  BY <1>12 DEF Stopped
<1>13. CASE CaseConnErr
  BY <1>13 DEF CaseConnErr, Deinit
<1>14. CASE Retry
  BY <1>14 DEF Retry
<1>15. ASSUME NEW w \in Writers, WriteTest(w) \/ Finish(w) PROVE HandleInv'
  BY <1>15 DEF WriteTest, Finish, WriteSend, WriteDone, WriteError, SetConnErr
<1> QED
  BY <1>1, <1>2, <1>3, <1>4, <1>5, <1>6, <1>7, <1>8, <1>9, <1>10, <1>11,
     <1>12, <1>13, <1>14, <1>15 DEF Next, run

(* However many threads write and whatever they do to the status, open_url *)
(* never overwrites a handle and cleanup never destroys one twice.         *)
THEOREM NoHandleLeak == Spec => []OneHandle
<1>1. HandleInv => OneHandle
  BY DEF HandleInv
<1> QED
  BY TypeInit, TypeStep, HandleInit, HandleStep, <1>1, PTL DEF Spec

(* A push that is stopped has no connection: the writers can overwrite the *)
(* status STOPPUSH, but they cannot bring it about.                        *)
StoppedIsClosed ==
    status = "STOPPUSH" => pc \in {"loop", "STOPPUSH"} /\ rtmp = NULL /\ live = {}

LEMMA StoppedStep ==
    TypeOK /\ HandleInv /\ StoppedIsClosed /\ [Next]_vars => StoppedIsClosed'
<1> SUFFICES ASSUME TypeOK, HandleInv, StoppedIsClosed, [Next]_vars PROVE StoppedIsClosed'
  OBVIOUS
<1> USE HandlesAssumption
    DEF TypeOK, Statuses, HandleInv, OneHandle, StoppedIsClosed, runVars, writerVars
<1>1. CASE UNCHANGED vars
  BY <1>1 DEF vars
<1>2. CASE startPush \/ stopPush
  BY <1>2 DEF startPush, stopPush
<1>3. CASE Switch \/ CaseStopPush \/ Connected \/ KeepRunning \/ Stopped \/ Retry
  BY <1>3 DEF Switch, CaseStopPush, Connected, KeepRunning, Stopped, Retry
<1>4. CASE Open \/ Destroy \/ Forget
  BY <1>4 DEF Open, Destroy, Forget
<1>5. CASE NotConnected \/ Exit \/ CaseConnErr
  BY <1>5 DEF NotConnected, Exit, CaseConnErr, Deinit
<1>6. ASSUME NEW w \in Writers, WriteTest(w) \/ Finish(w) PROVE StoppedIsClosed'
  BY <1>6 DEF WriteTest, Finish, WriteSend, WriteDone, WriteError, SetConnErr
<1> QED
  BY <1>1, <1>2, <1>3, <1>4, <1>5, <1>6 DEF Next, run

(* ... so that, when StopTakesEffect says that the status comes to be      *)
(* STOPPUSH, the connection is closed and its handle destroyed.            *)
THEOREM StopClosesConnection == Spec => []StoppedIsClosed
<1>1. Init => StoppedIsClosed
  BY DEF Init, StoppedIsClosed
<1> QED
  BY TypeInit, TypeStep, HandleInit, HandleStep, <1>1, StoppedStep, PTL DEF Spec

-----------------------------------------------------------------------------
(* One writer, not stopped so far: what the missing lock costs nothing.    *)

(* While the only writer is in a call, the status is CONNECTED and the run *)
(* thread has nothing to do but to look at it.                             *)
Quiet ==
    /\ status # "STOPPUSH" \/ pc = "CONNINIT" => run_status = "START"
    /\ pc \in {"open", "failed", "destroy", "forget", "checkExit", "retry"}
          => run_status = "START"
    /\ pc # "stop" /\ (pc = "destroy" \/ pc = "forget" => ret # "stop")
    /\ status = "CONNECTED" => /\ pc \in {"loop", "checkExit", "CONNECTED"}
                               /\ rtmp # NULL
    /\ pc = "CONNECTED" => status \in {"CONNECTED", "CONNERR"}
    /\ pc = "CONNERR" => run_status = "START"
    /\ pc = "STOPPUSH" => status = "STOPPUSH"
    /\ \A w \in Writers :
          /\ wpc[w] # "idle" => status = "CONNECTED"
          /\ wpc[w] = "writing" => using[w] = rtmp

WriterInv ==
    /\ \A w \in Writers : wpc[w] # "idle" => w \in wrote
    /\ Alone => Quiet

LEMMA WriterInit == Init => WriterInv
BY DEF Init, WriterInv, Quiet

(* Being alone is lost for ever once it is lost.                           *)
LEMMA AloneBefore == [Next]_vars /\ Alone' => Alone
<1> SUFFICES ASSUME [Next]_vars, Alone' PROVE Alone
  OBVIOUS
<1> USE DEF Alone, runVars, writerVars
<1>1. CASE UNCHANGED vars
  BY <1>1 DEF vars
<1>2. CASE startPush \/ stopPush
  BY <1>2 DEF startPush, stopPush
<1>3. CASE run
  BY <1>3 DEF run, Switch, CaseStopPush, Open, Connected, NotConnected, Destroy,
              Forget, KeepRunning, Exit, Stopped, CaseConnErr, Retry, Deinit
<1>4. ASSUME NEW w \in Writers, WriteTest(w) \/ Finish(w) PROVE Alone
  BY <1>4 DEF WriteTest, Finish, WriteSend, WriteDone, WriteError, SetConnErr
<1> QED
  BY <1>1, <1>2, <1>3, <1>4 DEF Next

LEMMA QuietStep ==
    TypeOK /\ HandleInv /\ WriterInv /\ Alone /\ [Next]_vars /\ Alone' => Quiet'
<1> SUFFICES ASSUME TypeOK, HandleInv, WriterInv, Alone, [Next]_vars, Alone'
             PROVE  Quiet'
  OBVIOUS
<1> USE HandlesAssumption
    DEF TypeOK, Statuses, HandleInv, OneHandle, WriterInv, Quiet, Idle,
        runVars, writerVars
<1>1. CASE UNCHANGED vars
  BY <1>1 DEF vars
<1>2. CASE startPush \/ stopPush
  BY <1>2 DEF startPush, stopPush, Alone
<1>3. CASE Switch
  BY <1>3 DEF Switch
<1>4. CASE CaseStopPush
  BY <1>4 DEF CaseStopPush
<1>5. CASE Open
  BY <1>5 DEF Open
<1>6. CASE Connected
  BY <1>6 DEF Connected
<1>7. CASE NotConnected
  BY <1>7 DEF NotConnected, Deinit
<1>8. CASE Destroy
  BY <1>8 DEF Destroy
<1>9. CASE Forget
  BY <1>9 DEF Forget
<1>10. CASE KeepRunning
  BY <1>10 DEF KeepRunning
<1>11. CASE Exit
  BY <1>11 DEF Exit, Deinit
<1>12. CASE Stopped
  BY <1>12 DEF Stopped
<1>13. CASE CaseConnErr
  BY <1>13 DEF CaseConnErr, Deinit
<1>14. CASE Retry
  BY <1>14 DEF Retry
<1>15. ASSUME NEW w \in Writers, WriteTest(w) \/ Finish(w) PROVE Quiet'
  <2>1. wpc' = [wpc EXCEPT ![w] = wpc'[w]] /\ w \in wrote'
    BY <1>15 DEF WriteTest, Finish, WriteSend, WriteDone, WriteError, SetConnErr
  <2>2. \A v \in Writers : v # w => wpc[v] = "idle"
    BY <1>15, <2>1 DEF Alone, WriteTest, Finish, WriteSend, WriteDone, WriteError, SetConnErr
  <2> QED
    BY <1>15, <2>2 DEF WriteTest, Finish, WriteSend, WriteDone, WriteError, SetConnErr
<1> QED
  BY <1>1, <1>2, <1>3, <1>4, <1>5, <1>6, <1>7, <1>8, <1>9, <1>10, <1>11,
     <1>12, <1>13, <1>14, <1>15 DEF Next, run

LEMMA WroteStep ==
    TypeOK /\ WriterInv /\ [Next]_vars
        => \A w \in Writers : wpc'[w] # "idle" => w \in wrote'
<1> SUFFICES ASSUME TypeOK, WriterInv, [Next]_vars
             PROVE  \A w \in Writers : wpc'[w] # "idle" => w \in wrote'
  OBVIOUS
<1> USE DEF TypeOK, WriterInv, runVars, writerVars
<1>1. CASE UNCHANGED vars
  BY <1>1 DEF vars
<1>2. CASE startPush \/ stopPush
  BY <1>2 DEF startPush, stopPush
<1>3. CASE run
  BY <1>3 DEF run, Switch, CaseStopPush, Open, Connected, NotConnected, Destroy,
              Forget, KeepRunning, Exit, Stopped, CaseConnErr, Retry, Deinit
<1>4. ASSUME NEW w \in Writers, WriteTest(w) \/ Finish(w)
      PROVE  \A v \in Writers : wpc'[v] # "idle" => v \in wrote'
  BY <1>4 DEF WriteTest, Finish, WriteSend, WriteDone, WriteError, SetConnErr
<1> QED
  BY <1>1, <1>2, <1>3, <1>4 DEF Next

LEMMA WriterStep == TypeOK /\ HandleInv /\ WriterInv /\ [Next]_vars => WriterInv'
BY QuietStep, WroteStep, AloneBefore DEF WriterInv

(* As long as a single thread has written and no stopPush had an effect,   *)
(* every frame is written on a handle that exists, without a lock, and the *)
(* run thread connects only while no writer is in a call.                  *)
THEOREM OneWriterIsSafe ==
    Spec => []NoUseAfterDestroy /\ [](Alone => StreamOffWhileConnecting)
<1>1. TypeOK /\ HandleInv /\ WriterInv => NoUseAfterDestroy
  BY DEF TypeOK, HandleInv, OneHandle, WriterInv, Quiet, NoUseAfterDestroy
<1>2. TypeOK /\ HandleInv /\ WriterInv => (Alone => StreamOffWhileConnecting)
  BY DEF TypeOK, HandleInv, OneHandle, WriterInv, Quiet, StreamOffWhileConnecting
<1> QED
  BY TypeInit, TypeStep, HandleInit, HandleStep, WriterInit, WriterStep,
     <1>1, <1>2, PTL DEF Spec
=============================================================================
