------------------------------ MODULE RtmpPush ------------------------------
(***************************************************************************)
(* CRtmpPush (CRtmpPush.cpp): a thread keeps a connection to an RTMP       *)
(* server while pushing is wanted; the encoder's threads write frames to   *)
(* it; the application starts and stops it.  They share `status`,          *)
(* `run_status` and the handle `_rtmp` without a lock (NO_THREAD_LOCK is   *)
(* defined), so one action is at most one access to what others write.     *)
(*                                                                         *)
(* librtmp is external: a create may fail, each step of a connection may   *)
(* fail, a write returns 1009 or something else.  Destroyed handles may be *)
(* handed out again by a later create.                                     *)
(***************************************************************************)
EXTENDS FiniteSets

CONSTANTS
    Writers,      \* threads that call writeH264RawData or writeAACRawData
    Handles,      \* addresses srs_rtmp_create can return
    NULL,
    StopAllowed   \* whether the application calls stopPush

ASSUME HandlesAssumption == NULL \notin Handles
ASSUME StopAssumption == StopAllowed \in BOOLEAN

VARIABLES
    status,      \* the state of the push, also written by the writers
    run_status,  \* what the application wants
    rtmp,        \* _rtmp
    live,        \* handles created and not destroyed
    pc,          \* where the run thread is
    ret,         \* where deinit returns to in the run thread
    wpc,         \* where each writer is
    using,       \* the handle each writer passed to the library
    wrote,       \* history: the writers that have written so far
    stopped      \* history: whether a stopPush has had an effect so far

vars == <<status, run_status, rtmp, live, pc, ret, wpc, using, wrote, stopped>>
runVars == <<pc, ret>>
writerVars == <<wpc, using, wrote, stopped>>

Statuses == {"STOPPUSH", "CONNINIT", "CONNECTED", "CONNERR"}

(* The constructor.                                                        *)
Init ==
    /\ status = "STOPPUSH"
    /\ run_status = "EXIT"
    /\ rtmp = NULL
    /\ live = {}
    /\ pc = "loop"
    /\ ret = "loop"
    /\ wpc = [w \in Writers |-> "idle"]
    /\ using = [w \in Writers |-> NULL]
    /\ wrote = {}
    /\ stopped = FALSE

-----------------------------------------------------------------------------
(* The application.                                                        *)

startPush ==
    /\ run_status' = "START"
    /\ UNCHANGED <<status, rtmp, live, runVars, writerVars>>

(* Nothing happens while the status is still STOPPUSH, even if a start has *)
(* been asked for and not been picked up.                                  *)
stopPush ==
    /\ StopAllowed
    /\ status # "STOPPUSH"
    /\ run_status' = "EXIT"
    /\ stopped' = TRUE
    /\ UNCHANGED <<status, rtmp, live, runVars, wpc, using, wrote>>

-----------------------------------------------------------------------------
(* run(): switch (status) and the bodies of its cases.                     *)

Switch ==
    /\ pc = "loop"
    /\ pc' = status
    /\ UNCHANGED <<status, run_status, rtmp, live, ret, writerVars>>

CaseStopPush ==
    /\ pc = "STOPPUSH"
    /\ status' = IF run_status = "START" THEN "CONNINIT" ELSE status
    /\ pc' = "loop"
    /\ UNCHANGED <<run_status, rtmp, live, ret, writerVars>>

(* init(): open_url creates a handle and keeps it in _rtmp ...             *)
Open ==
    /\ pc = "CONNINIT"
    /\ \/ \E h \in Handles \ live :
             /\ rtmp' = h
             /\ live' = live \cup {h}
             /\ pc' = "open"
       \/ rtmp' = NULL /\ pc' = "failed" /\ UNCHANGED live
    /\ UNCHANGED <<status, run_status, ret, writerVars>>

(* ... and may succeed in connecting it or not.                            *)
Connected ==
    /\ pc = "open"
    /\ status' = "CONNECTED"
    /\ pc' = "checkExit"
    /\ UNCHANGED <<run_status, rtmp, live, ret, writerVars>>

(* deinit(), then on to l.                                                 *)
Deinit(l) ==
    /\ pc' = "destroy"
    /\ ret' = l
    /\ UNCHANGED <<status, run_status, rtmp, live, writerVars>>

(* Mutant: a failed attempt keeps its handle.                              *)
NotConnectedKeep ==
    /\ pc \in {"open", "failed"}
    /\ pc' = "checkExit"
    /\ UNCHANGED <<status, run_status, rtmp, live, ret, writerVars>>
NotConnected == pc \in {"open", "failed"} /\ Deinit("checkExit")

(* cleanup(): destroys the handle if there is one, then forgets it.        *)
Destroy ==
    /\ pc = "destroy"
    /\ live' = live \ {rtmp}
    /\ pc' = "forget"
    /\ UNCHANGED <<status, run_status, rtmp, ret, writerVars>>

Forget ==
    /\ pc = "forget"
    /\ rtmp' = NULL
    /\ pc' = ret
    /\ UNCHANGED <<status, run_status, live, ret, writerVars>>

KeepRunning ==
    /\ pc \in {"checkExit", "CONNECTED"} /\ run_status # "EXIT"
    /\ pc' = "loop"
    /\ UNCHANGED <<status, run_status, rtmp, live, ret, writerVars>>

(* Mutant: the connection is left open.                                    *)
ExitOnly ==
    /\ pc \in {"checkExit", "CONNECTED"} /\ run_status = "EXIT"
    /\ pc' = "stop"
    /\ UNCHANGED <<status, run_status, rtmp, live, ret, writerVars>>
Exit ==
    /\ pc \in {"checkExit", "CONNECTED"} /\ run_status = "EXIT"
    /\ Deinit("stop")

Stopped ==
    /\ pc = "stop"
    /\ status' = "STOPPUSH"
    /\ pc' = "loop"
    /\ UNCHANGED <<run_status, rtmp, live, ret, writerVars>>

(* Mutant: no case for CONNERR.                                            *)
CaseConnErrNone ==
    /\ pc = "CONNERR"
    /\ pc' = "loop"
    /\ UNCHANGED <<status, run_status, rtmp, live, ret, writerVars>>
CaseConnErr == pc = "CONNERR" /\ Deinit("retry")

Retry ==
    /\ pc = "retry"
    /\ status' = "CONNINIT"
    /\ pc' = "checkExit"
    /\ UNCHANGED <<run_status, rtmp, live, ret, writerVars>>

run ==
    \/ Switch \/ CaseStopPush \/ Open \/ Connected \/ NotConnected \/ Destroy
    \/ Forget \/ KeepRunning \/ Exit \/ Stopped \/ CaseConnErr \/ Retry

-----------------------------------------------------------------------------
(* writeH264RawData and writeAACRawData.                                   *)

(* Mutant: the status is not looked at.                                    *)
WriteAlways(w) ==
    /\ wpc[w] = "idle"
    /\ wpc' = [wpc EXCEPT ![w] = "send"]
    /\ wrote' = wrote \cup {w}
    /\ UNCHANGED <<status, run_status, rtmp, live, runVars, using, stopped>>
WriteTest(w) ==
    /\ wpc[w] = "idle" /\ status = "CONNECTED"
    /\ wpc' = [wpc EXCEPT ![w] = "send"]
    /\ wrote' = wrote \cup {w}
    /\ UNCHANGED <<status, run_status, rtmp, live, runVars, using, stopped>>

WriteSend(w) ==
    /\ wpc[w] = "send"
    /\ using' = [using EXCEPT ![w] = rtmp]
    /\ wpc' = [wpc EXCEPT ![w] = "writing"]
    /\ UNCHANGED <<status, run_status, rtmp, live, runVars, wrote, stopped>>

WriteDone(w) ==
    /\ wpc[w] = "writing"
    /\ using' = [using EXCEPT ![w] = NULL]
    /\ wpc' = [wpc EXCEPT ![w] = "idle"]
    /\ UNCHANGED <<status, run_status, rtmp, live, runVars, wrote, stopped>>

(* The library returned 1009.                                              *)
WriteError(w) ==
    /\ wpc[w] = "writing"
    /\ using' = [using EXCEPT ![w] = NULL]
    /\ wpc' = [wpc EXCEPT ![w] = "error"]
    /\ UNCHANGED <<status, run_status, rtmp, live, runVars, wrote, stopped>>

(* Mutant: the writer is a case of its own in the status.                  *)
SetConnErrBusy(w) ==
    /\ wpc[w] = "error"
    /\ status' = "RUN_STATUS_END"
    /\ wpc' = [wpc EXCEPT ![w] = "idle"]
    /\ UNCHANGED <<run_status, rtmp, live, runVars, using, wrote, stopped>>
SetConnErr(w) ==
    /\ wpc[w] = "error"
    /\ status' = "CONNERR"
    /\ wpc' = [wpc EXCEPT ![w] = "idle"]
    /\ UNCHANGED <<run_status, rtmp, live, runVars, using, wrote, stopped>>

Finish(w) == WriteSend(w) \/ WriteDone(w) \/ WriteError(w) \/ SetConnErr(w)

-----------------------------------------------------------------------------
Next ==
    \/ startPush \/ stopPush
    \/ run
    \/ \E w \in Writers : WriteTest(w) \/ Finish(w)

Spec == Init /\ [][Next]_vars

(* The run thread runs for ever, and a write that was begun returns (the   *)
(* library gives up after TIMEOUT).  No frame needs to come, and no        *)
(* command.                                                                *)
Fairness == WF_vars(run) /\ \A w \in Writers : WF_vars(Finish(w))

FairSpec == Spec /\ Fairness

-----------------------------------------------------------------------------
(* The values of the members of CRtmpPush and of the threads' positions.   *)
TypeOK ==
    /\ status \in Statuses
    /\ run_status \in {"START", "EXIT"}
    /\ rtmp \in Handles \cup {NULL}
    /\ live \subseteq Handles
    /\ pc \in Statuses \cup {"loop", "open", "failed", "destroy", "forget",
                             "checkExit", "stop", "retry"}
    /\ ret \in {"loop", "checkExit", "stop", "retry"}
    /\ wpc \in [Writers -> {"idle", "send", "writing", "error"}]
    /\ using \in [Writers -> Handles \cup {NULL}]
    /\ wrote \subseteq Writers
    /\ stopped \in BOOLEAN

(* _rtmp is the only handle there is, it is live whenever it is not NULL   *)
(* (but for the moment inside cleanup), and open_url never overwrites one: *)
(* whatever the writers do to the status, years of reconnecting leak no    *)
(* handle and destroy none twice.                                          *)
OneHandle ==
    /\ live \subseteq {rtmp}
    /\ rtmp # NULL /\ pc # "forget" => rtmp \in live
    /\ pc = "CONNINIT" => rtmp = NULL

(* Only one thread has written so far, and no stop had an effect.          *)
Alone == ~stopped /\ \A v, w \in wrote : v = w

(* While only one thread writes and nobody stops the push, a frame is      *)
(* written on a handle that exists, although _rtmp is read, used and       *)
(* destroyed without a lock.  (With a second writer, or a stop, it is      *)
(* not so: RtmpPushRace.)                                                  *)
NoUseAfterDestroy ==
    Alone => \A w \in Writers : wpc[w] = "writing" => using[w] \in live

(* "//关闭码流输出" (CRtmpPush.cpp:187): the stream output is off while    *)
(* the thread connects to the server, that is, no writer is between its    *)
(* test of the status and the end of its call.                             *)
StreamOffWhileConnecting ==
    pc \in {"CONNINIT", "open"} => \A w \in Writers : wpc[w] \notin {"send", "writing"}

(* An error reported by a writer leads to a new attempt to connect, unless *)
(* the push is to end or, the report being late, is overwritten by the     *)
(* success of an attempt made meanwhile.                                   *)
ErrorLeadsToReconnect ==
    status = "CONNERR" ~>
        (pc = "CONNINIT" \/ status = "CONNECTED" \/ run_status = "EXIT")

(* A stop that was accepted ends the push and closes the connection,       *)
(* unless it is started again before.                                      *)
StopTakesEffect ==
    run_status = "EXIT" ~>
        (status = "STOPPUSH" /\ rtmp = NULL) \/ run_status = "START"
=============================================================================
