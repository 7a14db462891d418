------------------------------ MODULE Capture ------------------------------
(***************************************************************************)
(* The infrared channel (irchannel.cpp) on a V4L2 camera (v4l2dev.cpp).    *)
(* The driver and the program share a few mapped buffers: the driver fills *)
(* those that are queued (VIDIOC_QBUF), the program takes a filled one     *)
(* (VIDIOC_DQBUF), copies it to the heap and queues it again; the copy is  *)
(* coloured by uvc_cb (ThermalFrames), sent and freed.                     *)
(*                                                                         *)
(* Every call to the driver and to malloc may fail, and run() looks at no  *)
(* result but the length of the frame.  The calls that only ask the device *)
(* or set its format keep nothing and are left out; v4l2_close has no      *)
(* caller.  A picture is its number, 0 stands for none.                    *)
(***************************************************************************)
EXTENDS Integers, Sequences

CONSTANTS
    MaxBufs,       \* buffers asked for (4); the driver may grant fewer
    MaxPictures    \* bound: pictures the camera takes

ASSUME BufsAssumption == MaxBufs \in Nat \ {0}
ASSUME PicturesAssumption == MaxPictures \in Nat

Bufs == 0..(MaxBufs - 1)
Pictures == 1..MaxPictures
None == -1

VARIABLES
    pc,         \* where IRCHANNEL::run is
    bufsnr, i,  \* buffers granted; the loop of v4l2_reqbufs
    mapped,     \* buffers whose mmap succeeded
    queue,      \* buffers the driver may fill, in that order
    done,       \* buffers it has filled and not given out
    content,    \* the picture in each buffer
    picture,    \* the last picture taken
    streaming,  \* VIDIOC_STREAMON succeeded
    opened,     \* uvcOpen succeeded: uvc_cb makes pictures
    v,          \* index of the buffer that was dequeued
    frame_ptr,  \* the copy of the frame
    heap,       \* copies that were not freed
    frame,      \* the last picture uvc_cb made; 0: frame.empty()
    taken,      \* history: the picture dequeued last
    sent,       \* history: the pictures sent to channel 2
    spoiled,    \* history: pictures for whose copy there was no memory
    failed      \* history: buffers the driver did not take (back)

driverVars == <<queue, done, content, picture>>
setupVars == <<bufsnr, i, mapped, streaming, opened>>
frameVars == <<v, frame_ptr, heap, frame, taken, sent, spoiled>>
vars == <<pc, driverVars, setupVars, frameVars, failed>>

Init ==
    /\ pc = "reqbufs"
    /\ bufsnr = 0 /\ i = 0 /\ mapped = {}
    /\ queue = <<>> /\ done = <<>>
    /\ content = [b \in Bufs |-> 0]
    /\ picture = 0
    /\ streaming = FALSE /\ opened = FALSE
    /\ v = None
    /\ frame_ptr = 0 /\ heap = {} /\ frame = 0
    /\ taken = 0 /\ sent = <<>> /\ spoiled = {}
    /\ failed = {}

-----------------------------------------------------------------------------
(* The set-up: v4l2_reqbufs, v4l2_stream, uvcOpen.                         *)
Reqbufs ==
    /\ pc = "reqbufs"
    /\ \/ bufsnr' \in 1..MaxBufs /\ pc' = "buffers"
       \/ UNCHANGED bufsnr /\ pc' = "streamon"     \* no device, buffers or memory
    /\ UNCHANGED <<driverVars, i, mapped, streaming, opened, frameVars, failed>>

(* QUERYBUF, mmap and QBUF of one buffer; only the first is looked at.     *)
NextBuffer ==
    /\ pc = "buffers" /\ i < bufsnr
    /\ i' = i + 1
    /\ mapped' \in {mapped, mapped \cup {i}}
    /\ \/ queue' = Append(queue, i) /\ UNCHANGED failed
       \/ failed' = failed \cup {i} /\ UNCHANGED queue
    /\ UNCHANGED <<pc, done, content, picture, bufsnr, streaming, opened, frameVars>>

(* Mutant: i <= bufsnr.                                                    *)
BuffersDoneLate ==
    /\ pc = "buffers" /\ i >= bufsnr
    /\ IF i = bufsnr THEN i' = i + 1 /\ UNCHANGED pc
       ELSE pc' = "streamon" /\ UNCHANGED i
    /\ UNCHANGED <<driverVars, bufsnr, mapped, streaming, opened, frameVars, failed>>
BuffersDone ==
    /\ pc = "buffers" /\ i = bufsnr
    /\ pc' = "streamon"
    /\ UNCHANGED <<driverVars, setupVars, frameVars, failed>>

(* VIDIOC_QUERYBUF fails: v4l2_reqbufs gives up at this buffer.            *)
QuerybufFails ==
    /\ pc = "buffers" /\ i < bufsnr
    /\ failed' = failed \cup i..(bufsnr - 1)
    /\ pc' = "streamon"
    /\ UNCHANGED <<driverVars, setupVars, frameVars>>

StreamOn ==
    /\ pc = "streamon"
    /\ streaming' \in BOOLEAN
    /\ pc' = "uvcOpen"
    /\ UNCHANGED <<driverVars, bufsnr, i, mapped, opened, frameVars, failed>>

UvcOpen ==
    /\ pc = "uvcOpen"
    /\ opened' \in BOOLEAN
    /\ pc' = "select"
    /\ UNCHANGED <<driverVars, bufsnr, i, mapped, streaming, frameVars, failed>>

-----------------------------------------------------------------------------
(* The camera fills the buffer that has been queued longest.               *)
Fill ==
    /\ streaming /\ queue # <<>> /\ picture < MaxPictures /\ pc # "crashed"
    /\ picture' = picture + 1
    /\ content' = [content EXCEPT ![Head(queue)] = picture + 1]
    /\ done' = Append(done, Head(queue))
    /\ queue' = Tail(queue)
    /\ UNCHANGED <<pc, setupVars, frameVars, failed>>

-----------------------------------------------------------------------------
(* v4l2_read_frame.  *data is NULL until there is a copy.                  *)

(* Readable, or two seconds passed: 0 is not told from 1.                  *)
Select ==
    /\ pc = "select"
    /\ pc' = "dequeue" /\ frame_ptr' = 0
    /\ UNCHANGED <<driverVars, setupVars, v, heap, frame, taken, sent, spoiled, failed>>

SelectFails ==
    /\ pc = "select"
    /\ pc' = "check" /\ frame_ptr' = 0
    /\ UNCHANGED <<driverVars, setupVars, v, heap, frame, taken, sent, spoiled, failed>>

(* Mutant: the buffer is queued again before it is copied.                 *)
DequeueQueues ==
    /\ pc = "dequeue" /\ done # <<>>
    /\ v' = Head(done) /\ done' = Tail(done) /\ queue' = Append(queue, Head(done))
    /\ taken' = content[Head(done)]
    /\ pc' = "copy"
    /\ UNCHANGED <<content, picture, setupVars, frame_ptr, heap, frame, sent, spoiled, failed>>
Dequeue ==
    /\ pc = "dequeue" /\ done # <<>>
    /\ v' = Head(done) /\ done' = Tail(done)
    /\ taken' = content[Head(done)]
    /\ pc' = "copy"
    /\ UNCHANGED <<queue, content, picture, setupVars, frame_ptr, heap, frame, sent,
                   spoiled, failed>>

DequeueFails ==
    /\ pc = "dequeue"
    /\ pc' = "check"
    /\ UNCHANGED <<driverVars, setupVars, frameVars, failed>>

(* memcpy from a mapping that failed.                                      *)
CopyCrashes ==
    /\ pc = "copy" /\ v \notin mapped
    /\ pc' = "crashed"
    /\ UNCHANGED <<driverVars, setupVars, frameVars, failed>>

Copy ==
    /\ pc = "copy" /\ v \in mapped
    /\ frame_ptr' = content[v] /\ heap' = heap \cup {content[v]}
    /\ pc' = "requeue"
    /\ UNCHANGED <<driverVars, setupVars, v, frame, taken, sent, spoiled, failed>>

(* Mutant: out of memory, v4l2_read_frame returns at once.                 *)
MallocFailsReturns ==
    /\ pc = "copy"
    /\ spoiled' = spoiled \cup {taken}
    /\ v' = None /\ pc' = "check"
    /\ UNCHANGED <<driverVars, setupVars, frame_ptr, heap, frame, taken, sent, failed>>
MallocFails ==
    /\ pc = "copy"
    /\ spoiled' = spoiled \cup {taken}
    /\ pc' = "requeue"
    /\ UNCHANGED <<driverVars, setupVars, v, frame_ptr, heap, frame, taken, sent, failed>>

Requeue ==
    /\ pc = "requeue"
    /\ queue' = Append(queue, v) /\ v' = None
    /\ pc' = "check"
    /\ UNCHANGED <<done, content, picture, setupVars, frame_ptr, heap, frame, taken, sent,
                   spoiled, failed>>

(* The frame is used all the same.                                         *)
RequeueFails ==
    /\ pc = "requeue"
    /\ failed' = failed \cup {v} /\ v' = None
    /\ pc' = "check"
    /\ UNCHANGED <<driverVars, setupVars, frame_ptr, heap, frame, taken, sent, spoiled>>

-----------------------------------------------------------------------------
(* The loop of run.                                                        *)

(* Mutant: without a frame the rest of the loop is not skipped.            *)
NoFrameSends ==
    /\ pc = "check" /\ frame_ptr = 0
    /\ pc' = "send"
    /\ UNCHANGED <<driverVars, setupVars, frameVars, failed>>
(* Mutant: without a frame the old length is looked at again.              *)
NoFrameAgain ==
    /\ pc = "check" /\ frame_ptr = 0
    /\ UNCHANGED vars
NoFrame ==
    /\ pc = "check" /\ frame_ptr = 0
    /\ pc' = "select"
    /\ UNCHANGED <<driverVars, setupVars, frameVars, failed>>

(* uvc_cb leaves frame alone when its buffers could not be allocated.      *)
UvcCb ==
    /\ pc = "check" /\ frame_ptr # 0
    /\ frame' = IF opened THEN frame_ptr ELSE frame
    /\ pc' = "send"
    /\ UNCHANGED <<driverVars, setupVars, v, frame_ptr, heap, taken, sent, spoiled, failed>>

SendToChn2 ==
    /\ pc = "send"
    /\ sent' = IF frame # 0 THEN Append(sent, frame) ELSE sent
    /\ pc' = "free"
    /\ UNCHANGED <<driverVars, setupVars, v, frame_ptr, heap, frame, taken, spoiled, failed>>

Free ==
    /\ pc = "free"
    /\ heap' = heap \ {frame_ptr}
    /\ pc' = "select"
    /\ UNCHANGED <<driverVars, setupVars, v, frame_ptr, frame, taken, sent, spoiled, failed>>

run ==
    \/ Reqbufs \/ NextBuffer \/ BuffersDone \/ QuerybufFails \/ StreamOn \/ UvcOpen
    \/ Select \/ SelectFails \/ Dequeue \/ DequeueFails
    \/ Copy \/ CopyCrashes \/ MallocFails \/ Requeue \/ RequeueFails
    \/ NoFrame \/ UvcCb \/ SendToChn2 \/ Free

Next == run \/ Fill

Spec == Init /\ [][Next]_vars

(* The thread runs, and neither signals interrupt select nor does the      *)
(* driver refuse a filled buffer for ever.  Nothing is asked of the camera.*)
FairSpec == Spec /\ WF_vars(run) /\ SF_vars(Select) /\ SF_vars(Dequeue)

-----------------------------------------------------------------------------
InSeq(s) == {s[k] : k \in DOMAIN s}

(* Types; the loop of v4l2_reqbufs stays within the buffers granted.       *)
TypeOK ==
    /\ pc \in {"reqbufs", "buffers", "streamon", "uvcOpen", "select", "dequeue", "copy",
              "requeue", "check", "send", "free", "crashed"}
    /\ bufsnr \in 0..MaxBufs /\ i \in 0..bufsnr
    /\ mapped \subseteq Bufs
    /\ queue \in Seq(Bufs) /\ done \in Seq(Bufs)
    /\ content \in [Bufs -> 0..MaxPictures] /\ picture \in 0..MaxPictures
    /\ streaming \in BOOLEAN /\ opened \in BOOLEAN
    /\ v \in Bufs \cup {None}
    /\ frame_ptr \in 0..MaxPictures /\ frame \in 0..MaxPictures
    /\ heap \subseteq Pictures
    /\ taken \in 0..MaxPictures /\ sent \in Seq(Pictures)
    /\ spoiled \subseteq Pictures /\ failed \subseteq Bufs

(* The copy is of the picture that was dequeued: the driver does not fill  *)
(* the buffer again before it was copied, since it is queued only then.    *)
CopyIsOfTheFrame ==
    pc \in {"requeue", "check", "send", "free"} /\ frame_ptr # 0 => frame_ptr = taken

(* Whatever failed on the way, when the next frame is waited for the last  *)
(* copy is freed, and every buffer is with the driver, in one place, except*)
(* those that the driver itself did not take.                              *)
NothingLeftOver ==
    pc = "select" =>
        /\ heap = {}
        /\ InSeq(queue) \cup InSeq(done) = 0..(bufsnr - 1) \ failed
        /\ InSeq(queue) \cap InSeq(done) = {}

(* No picture is sent twice or after a later one, although frame keeps the *)
(* last picture through every turn that brings none.                       *)
SentInOrder ==
    \A a, b \in DOMAIN sent : a < b => sent[a] < sent[b]

(* Each picture the driver has ready is sent, unless there was no memory   *)
(* for it or a buffer was never mapped.                                    *)
EveryPictureIsSent ==
    \A n \in Pictures :
        (opened /\ \E b \in InSeq(done) : content[b] = n)
           ~> (n \in InSeq(sent) \/ n \in spoiled \/ pc = "crashed")
=============================================================================
