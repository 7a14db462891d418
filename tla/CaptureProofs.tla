--------------------------- MODULE CaptureProofs ---------------------------
(***************************************************************************)
(* Proofs about Capture, for any number of buffers and pictures: where the *)
(* buffers are, what a copy holds, and in which order pictures are sent.   *)
(***************************************************************************)
EXTENDS Capture, TLAPS

-----------------------------------------------------------------------------
(* Sequences of buffers.                                                   *)

Distinct(s) == \A a, b \in 1..Len(s) : s[a] = s[b] => a = b

LEMMA AppendFacts ==
    ASSUME NEW S, NEW s \in Seq(S), NEW x \in S
    PROVE  /\ Append(s, x) \in Seq(S) /\ Len(Append(s, x)) = Len(s) + 1 /\ Len(s) \in Nat
           /\ \A k \in 1..Len(s) : Append(s, x)[k] = s[k]
           /\ Append(s, x)[Len(s) + 1] = x
OBVIOUS

LEMMA AppendIn ==
    ASSUME NEW S, NEW s \in Seq(S), NEW x \in S
    PROVE  InSeq(Append(s, x)) = InSeq(s) \cup {x}
<1>1. DOMAIN s = 1..Len(s) /\ DOMAIN Append(s, x) = 1..(Len(s) + 1)
  BY AppendFacts
<1>2. ASSUME NEW y \in InSeq(Append(s, x)) PROVE y \in InSeq(s) \cup {x}
  BY <1>1, AppendFacts DEF InSeq
<1>3. ASSUME NEW y \in InSeq(s) PROVE y \in InSeq(Append(s, x))
  <2>1. PICK k \in 1..Len(s) : y = s[k]
    BY <1>1 DEF InSeq
  <2>2. k \in 1..(Len(s) + 1) /\ Append(s, x)[k] = y
    BY <2>1, AppendFacts
  <2> QED
    BY <1>1, <2>2 DEF InSeq
<1>4. x \in InSeq(Append(s, x))
  <2>1. Len(s) + 1 \in 1..(Len(s) + 1)
    BY AppendFacts
  <2> QED
    BY <1>1, <2>1, AppendFacts DEF InSeq
<1> QED
  BY <1>2, <1>3, <1>4

LEMMA AppendDistinct ==
    ASSUME NEW S, NEW s \in Seq(S), NEW x \in S, Distinct(s), x \notin InSeq(s)
    PROVE  Distinct(Append(s, x))
<1>1. \A k \in 1..Len(s) : s[k] # x
  BY DEF InSeq
<1> QED
  BY <1>1, AppendFacts DEF Distinct

LEMMA TailFacts ==
    ASSUME NEW S, NEW s \in Seq(S), s # <<>>
    PROVE  /\ Len(s) \in Nat \ {0} /\ Head(s) = s[1] /\ Head(s) \in S
           /\ Tail(s) \in Seq(S) /\ Len(Tail(s)) = Len(s) - 1
           /\ \A k \in 1..(Len(s) - 1) : Tail(s)[k] = s[k + 1]
OBVIOUS

LEMMA TailIn ==
    ASSUME NEW S, NEW s \in Seq(S), s # <<>>, Distinct(s)
    PROVE  /\ InSeq(s) = InSeq(Tail(s)) \cup {Head(s)}
           /\ Head(s) \notin InSeq(Tail(s)) /\ Distinct(Tail(s))
<1>1. DOMAIN s = 1..Len(s) /\ DOMAIN Tail(s) = 1..(Len(s) - 1)
  BY TailFacts
<1>2. ASSUME NEW y \in InSeq(s) PROVE y \in InSeq(Tail(s)) \cup {Head(s)}
  <2>1. PICK k \in 1..Len(s) : y = s[k]
    BY <1>1 DEF InSeq
  <2>2. CASE k = 1
    BY <2>1, <2>2, TailFacts
  <2>3. CASE k # 1
    <3>1. k - 1 \in 1..(Len(s) - 1) /\ Tail(s)[k - 1] = y
      BY <2>1, <2>3, TailFacts
    <3> QED
      BY <1>1, <3>1 DEF InSeq
  <2> QED
    BY <2>2, <2>3
<1>3. ASSUME NEW y \in InSeq(Tail(s)) PROVE y \in InSeq(s) /\ y # Head(s)
  <2>1. PICK k \in 1..(Len(s) - 1) : y = Tail(s)[k]
    BY <1>1, <1>3 DEF InSeq
  <2>2. k + 1 \in 1..Len(s) /\ y = s[k + 1] /\ k + 1 # 1 /\ 1 \in 1..Len(s)
    BY <2>1, TailFacts
  <2> QED
    BY <1>1, <2>2, TailFacts DEF InSeq, Distinct
<1>4. Head(s) \in InSeq(s)
  BY <1>1, TailFacts DEF InSeq
<1>5. Distinct(Tail(s))
  BY TailFacts DEF Distinct
<1> QED
  BY <1>2, <1>3, <1>4, <1>5

-----------------------------------------------------------------------------
(* The inductive invariant.                                                *)

Holding == {"copy", "requeue"}

(* Every buffer that is known is in one place: queued, filled, held by the *)
(* program between DQBUF and QBUF, or refused by the driver.               *)
Known == IF pc = "buffers" THEN i ELSE bufsnr

Places ==
    /\ Distinct(queue) /\ Distinct(done)
    /\ InSeq(queue) \cap InSeq(done) = {}
    /\ pc \in Holding => v \in Bufs
    /\ pc \notin Holding \cup {"crashed"} => v = None
    /\ v \notin InSeq(queue) \cup InSeq(done) \cup failed
    /\ failed \cap (InSeq(queue) \cup InSeq(done)) = {}
    /\ pc = "reqbufs" => bufsnr = 0 /\ i = 0
    /\ pc # "crashed" =>
          InSeq(queue) \cup InSeq(done) \cup failed \cup ({v} \ {None}) = 0..(Known - 1)

(* The copy on the heap is the one frame_ptr points to, of the picture that*)
(* was dequeued last.                                                      *)
Copies ==
    /\ heap \subseteq {frame_ptr} \ {0}
    /\ frame_ptr \in {0, taken}
    /\ pc \in {"reqbufs", "buffers", "streamon", "uvcOpen", "select", "dequeue", "copy"}
          => heap = {}
    /\ pc \in {"dequeue", "copy"} => frame_ptr = 0
    /\ pc \in {"send", "free"} => frame_ptr # 0
    /\ pc = "copy" => content[v] = taken /\ taken # 0

(* The filled buffers hold later pictures than the one taken last, in      *)
(* order; that one was not sent before it gets to SEND_TO_CHN2.            *)
Order ==
    /\ \A k \in 1..Len(done) :
          taken < content[done[k]] /\ content[done[k]] <= picture
    /\ \A k, l \in 1..Len(done) : k < l => content[done[k]] < content[done[l]]
    /\ taken <= picture
    /\ ~opened => frame = 0
    /\ pc \in {"reqbufs", "buffers", "streamon", "uvcOpen"} => frame = 0
    /\ pc = "send" /\ opened => frame = taken
    /\ \A k \in 1..Len(sent) : sent[k] <= taken
    /\ pc = "copy" \/ (pc \in {"requeue", "check", "send"} /\ frame_ptr # 0) =>
          \A k \in 1..Len(sent) : sent[k] < taken
    /\ SentInOrder

IInv == TypeOK /\ Places /\ Copies /\ Order

-----------------------------------------------------------------------------
(* Types.                                                                  *)

LEMMA Ranges ==
    /\ MaxBufs \in Nat /\ 0 \in 0..MaxPictures /\ None \notin Bufs
    /\ \A p \in 0..MaxPictures : p \in Int /\ (p # 0 <=> p \in Pictures)
    /\ Pictures \subseteq 0..MaxPictures
    /\ \A n \in 0..MaxBufs : 0..(n - 1) \subseteq Bufs
BY BufsAssumption, PicturesAssumption DEF Bufs, Pictures, None

(* The index of the buffer that v4l2_reqbufs is at.                        *)
LEMMA NextIndex ==
    ASSUME TypeOK, i < bufsnr
    PROVE  i \in 0..(bufsnr - 1) /\ i \in Bufs /\ i \in Nat
<1>1. bufsnr \in 0..MaxBufs /\ i \in 0..bufsnr
  BY DEF TypeOK
<1>2. bufsnr \in Nat /\ i \in Nat /\ bufsnr <= MaxBufs
  BY <1>1, BufsAssumption
<1>3. i \in 0..(bufsnr - 1)
  BY <1>2
<1>4. i \in Bufs
  BY <1>2, BufsAssumption DEF Bufs
<1> QED
  BY <1>2, <1>3, <1>4

LEMMA TypeInit == Init => TypeOK
<1> SUFFICES ASSUME Init PROVE TypeOK
  OBVIOUS
<1>1. <<>> \in Seq(Bufs) /\ <<>> \in Seq(Pictures)
  OBVIOUS
<1>2. content \in [Bufs -> 0..MaxPictures]
  BY Ranges DEF Init
<1>3. bufsnr \in 0..MaxBufs /\ i \in 0..bufsnr
  BY Ranges DEF Init
<1> QED
  BY <1>1, <1>2, <1>3, Ranges DEF Init, TypeOK

LEMMA TypeStep == IInv /\ [Next]_vars => TypeOK'
<1> SUFFICES ASSUME IInv, [Next]_vars PROVE TypeOK'
  OBVIOUS
<1> USE Ranges DEF IInv, TypeOK, driverVars, setupVars, frameVars
<1>1. CASE UNCHANGED vars
  BY <1>1 DEF vars
<1>2. CASE Reqbufs
  <2>1. bufsnr' \in 0..MaxBufs /\ i' \in 0..bufsnr'
    BY <1>2 DEF Reqbufs, Places
  <2> QED
    BY <1>2, <2>1 DEF Reqbufs
<1>3. CASE NextBuffer
  <2>1. i \in 0..(bufsnr - 1) /\ i + 1 \in 0..bufsnr
    BY <1>3 DEF NextBuffer
  <2>2. i \in Bufs
    BY <2>1
  <2>3. Append(queue, i) \in Seq(Bufs)
    BY <2>2, AppendFacts
  <2>4. failed' \subseteq Bufs /\ mapped' \subseteq Bufs
    BY <1>3, <2>2 DEF NextBuffer
  <2> QED
    BY <1>3, <2>1, <2>3, <2>4 DEF NextBuffer
<1>4. CASE BuffersDone \/ StreamOn \/ UvcOpen
  BY <1>4 DEF BuffersDone, StreamOn, UvcOpen
<1>5. CASE QuerybufFails
  <2>1. i..(bufsnr - 1) \subseteq 0..(bufsnr - 1)
    OBVIOUS
  <2>2. i..(bufsnr - 1) \subseteq Bufs
    BY <2>1
  <2> QED
    BY <1>5, <2>2 DEF QuerybufFails
<1>6. CASE Select \/ SelectFails
  BY <1>6 DEF Select, SelectFails
<1>7. CASE DequeueFails \/ CopyCrashes
  BY <1>7 DEF DequeueFails, CopyCrashes
<1>8. CASE Dequeue
  BY <1>8, TailFacts DEF Dequeue
<1>9. CASE Copy
  <2>1. content[v] \in Pictures /\ frame_ptr' \in 0..MaxPictures
    BY <1>9 DEF Copy, Places, Copies, Holding
  <2> QED
    BY <1>9, <2>1 DEF Copy
<1>10. CASE MallocFails
  <2>1. taken \in Pictures
    BY <1>10 DEF MallocFails, Copies
  <2> QED
    BY <1>10, <2>1 DEF MallocFails
<1>11. CASE Requeue
  <2>1. v \in Bufs
    BY <1>11 DEF Requeue, Places, Holding
  <2> QED
    BY <1>11, <2>1, AppendFacts DEF Requeue
<1>12. CASE RequeueFails
  <2>1. v \in Bufs
    BY <1>12 DEF RequeueFails, Places, Holding
  <2> QED
    BY <1>12, <2>1 DEF RequeueFails
<1>13. CASE NoFrame \/ UvcCb \/ Free
  BY <1>13 DEF NoFrame, UvcCb, Free
<1>14. CASE SendToChn2
  BY <1>14, AppendFacts DEF SendToChn2
<1>15. CASE Fill
  <2>1. Head(queue) \in Bufs /\ Tail(queue) \in Seq(Bufs)
    BY <1>15, TailFacts DEF Fill
  <2>2. done' \in Seq(Bufs)
    BY <1>15, <2>1, AppendFacts DEF Fill
  <2>3. picture + 1 \in 0..MaxPictures
    BY <1>15, PicturesAssumption DEF Fill
  <2>4. content' \in [Bufs -> 0..MaxPictures]
    BY <1>15, <2>3 DEF Fill
  <2> QED
    BY <1>15, <2>1, <2>2, <2>3, <2>4 DEF Fill
<1> QED
  BY <1>1, <1>2, <1>3, <1>4, <1>5, <1>6, <1>7, <1>8, <1>9, <1>10, <1>11, <1>12,
     <1>13, <1>14, <1>15 DEF Next, run

-----------------------------------------------------------------------------
(* Where the buffers are.                                                  *)

LEMMA EmptyIn == InSeq(<<>>) = {} /\ Distinct(<<>>)
BY DEF InSeq, Distinct

LEMMA PlacesInit == Init => Places
BY Ranges, EmptyIn DEF Init, Places, Known, Holding, None

(* A step that moves no buffer.                                            *)
LEMMA PlacesStay ==
    ASSUME TypeOK, Places, UNCHANGED <<queue, done, v, failed, bufsnr, i>>,
           pc' = "crashed" \/ (pc' # "reqbufs" /\ Known' = Known
                               /\ (pc' \in Holding <=> pc \in Holding) /\ pc # "crashed")
    PROVE  Places'
BY DEF Places, Known, Holding

LEMMA PlacesStep == IInv /\ [Next]_vars => Places'
<1> SUFFICES ASSUME IInv, [Next]_vars PROVE Places'
  OBVIOUS
<1> USE DEF IInv, driverVars, setupVars, frameVars
<1>1. CASE UNCHANGED vars
  BY <1>1 DEF vars, Places, Known, Holding
<1>2. CASE Reqbufs
  <2>1. InSeq(queue) \cup InSeq(done) \cup failed = {} /\ v = None
    BY <1>2 DEF Reqbufs, Places, Known, Holding
  <2>2. bufsnr' \in 0..MaxBufs /\ i = 0
    BY <1>2, Ranges DEF Reqbufs, Places
  <2> QED
    BY <1>2, <2>1, <2>2 DEF Reqbufs, Places, Known, Holding
<1>3. CASE NextBuffer
  <2>0. TypeOK /\ i < bufsnr
    BY <1>3 DEF NextBuffer
  <2>1. i \in 0..(bufsnr - 1) /\ i \in Bufs /\ i \in Nat
    BY ONLY <2>0, NextIndex
  <2>2. InSeq(queue) \cup InSeq(done) \cup failed = 0..(i - 1) /\ v = None
    BY <1>3 DEF NextBuffer, Places, Known, Holding
  <2>3. i \notin InSeq(queue) \cup InSeq(done) \cup failed /\ i # None
    BY <2>1, <2>2, Ranges
  <2>4. InSeq(Append(queue, i)) = InSeq(queue) \cup {i} /\ Distinct(Append(queue, i))
    BY <2>1, <2>3, AppendIn, AppendDistinct DEF TypeOK, Places
  <2>5. 0..(i' - 1) = 0..(i - 1) \cup {i}
    BY <1>3, <2>1 DEF NextBuffer
  <2>6. pc = "buffers" /\ UNCHANGED <<pc, done, v, bufsnr>> /\ i' - 1 = i
    BY <1>3, <2>1 DEF NextBuffer
  <2>7. InSeq(queue)' \cup InSeq(done) \cup failed' = 0..(i' - 1)
    BY <1>3, <2>2, <2>4, <2>5 DEF NextBuffer
  <2>8. CASE queue' = Append(queue, i) /\ failed' = failed
    BY <2>2, <2>3, <2>4, <2>6, <2>7, <2>8 DEF Places, Known, Holding
  <2>9. CASE queue' = queue /\ failed' = failed \cup {i}
    BY <2>2, <2>3, <2>6, <2>7, <2>9 DEF Places, Known, Holding
  <2> QED
    BY <1>3, <2>8, <2>9 DEF NextBuffer
<1>4. CASE BuffersDone
  BY <1>4, PlacesStay DEF BuffersDone, Known, Holding
<1>5. CASE QuerybufFails
  <2>1. InSeq(queue) \cup InSeq(done) \cup failed = 0..(i - 1) /\ v = None
    BY <1>5 DEF QuerybufFails, Places, Known, Holding
  <2>2. 0..(bufsnr - 1) = 0..(i - 1) \cup i..(bufsnr - 1)
    BY <1>5 DEF QuerybufFails, TypeOK
  <2>3. 0..(i - 1) \cap i..(bufsnr - 1) = {} /\ None \notin i..(bufsnr - 1)
    BY DEF TypeOK, None
  <2> QED
    BY <1>5, <2>1, <2>2, <2>3 DEF QuerybufFails, Places, Known, Holding
<1>6. CASE StreamOn \/ UvcOpen
  BY <1>6, PlacesStay DEF StreamOn, UvcOpen, Known, Holding
<1>7. CASE Select \/ SelectFails \/ DequeueFails
  BY <1>7, PlacesStay DEF Select, SelectFails, DequeueFails, Known, Holding
<1>8. CASE Dequeue
  <2>1. /\ Head(done) \in Bufs /\ Head(done) # None
        /\ InSeq(done) = InSeq(Tail(done)) \cup {Head(done)}
        /\ Head(done) \notin InSeq(Tail(done)) /\ Distinct(Tail(done))
    BY <1>8, TailFacts, TailIn, Ranges DEF Dequeue, TypeOK, Places
  <2> QED
    BY <1>8, <2>1 DEF Dequeue, Places, Known, Holding
<1>9. CASE Copy \/ MallocFails \/ CopyCrashes
  BY <1>9, PlacesStay DEF Copy, MallocFails, CopyCrashes, Known, Holding
<1>10. CASE Requeue
  <2>1. v \in Bufs /\ v # None
    BY <1>10, Ranges DEF Requeue, Places, Holding
  <2>2. InSeq(Append(queue, v)) = InSeq(queue) \cup {v} /\ Distinct(Append(queue, v))
    BY <2>1, AppendIn, AppendDistinct DEF TypeOK, Places
  <2>3. None \notin InSeq(queue) \cup InSeq(done) \cup failed
    <3>1. 0..(Known - 1) \subseteq Bufs
      BY <1>10, Ranges DEF Requeue, Known, TypeOK
    <3> QED
      BY <1>10, <3>1, Ranges DEF Requeue, Places
  <2> QED
    BY <1>10, <2>1, <2>2, <2>3 DEF Requeue, Places, Known, Holding
<1>11. CASE RequeueFails
  <2>1. v \in Bufs /\ v # None
    BY <1>11, Ranges DEF RequeueFails, Places, Holding
  <2>2. None \notin InSeq(queue) \cup InSeq(done) \cup failed
    <3>1. 0..(Known - 1) \subseteq Bufs
      BY <1>11, Ranges DEF RequeueFails, Known, TypeOK
    <3> QED
      BY <1>11, <3>1, Ranges DEF RequeueFails, Places
  <2> QED
    BY <1>11, <2>1, <2>2 DEF RequeueFails, Places, Known, Holding
<1>12. CASE NoFrame \/ UvcCb \/ SendToChn2 \/ Free
  BY <1>12, PlacesStay DEF NoFrame, UvcCb, SendToChn2, Free, Known, Holding
<1>13. CASE Fill
  <2>1. /\ Head(queue) \in Bufs
        /\ InSeq(queue) = InSeq(Tail(queue)) \cup {Head(queue)}
        /\ Head(queue) \notin InSeq(Tail(queue)) /\ Distinct(Tail(queue))
    BY <1>13, TailFacts, TailIn DEF Fill, TypeOK, Places
  <2>2. /\ InSeq(Append(done, Head(queue))) = InSeq(done) \cup {Head(queue)}
        /\ Distinct(Append(done, Head(queue)))
    BY <2>1, AppendIn, AppendDistinct DEF TypeOK, Places
  <2> QED
    BY <1>13, <2>1, <2>2 DEF Fill, Places, Known, Holding
<1> QED
  BY <1>1, <1>2, <1>3, <1>4, <1>5, <1>6, <1>7, <1>8, <1>9, <1>10, <1>11, <1>12,
     <1>13 DEF Next, run

-----------------------------------------------------------------------------
(* The copy.                                                               *)

LEMMA CopiesInit == Init => Copies
BY DEF Init, Copies

LEMMA CopiesStep == IInv /\ [Next]_vars => Copies'
<1> SUFFICES ASSUME IInv, [Next]_vars PROVE Copies'
  OBVIOUS
<1> USE DEF IInv, Copies, driverVars, setupVars, frameVars
<1>1. CASE UNCHANGED vars
  BY <1>1 DEF vars
<1>2. CASE Reqbufs \/ NextBuffer \/ BuffersDone \/ QuerybufFails
  BY <1>2 DEF Reqbufs, NextBuffer, BuffersDone, QuerybufFails
<1>3. CASE StreamOn \/ UvcOpen
  BY <1>3 DEF StreamOn, UvcOpen
<1>4. CASE Select \/ SelectFails \/ DequeueFails
  BY <1>4 DEF Select, SelectFails, DequeueFails
<1>5. CASE Dequeue
  <2>1. taken < content[done[1]] /\ Head(done) = done[1] /\ taken \in Nat
    BY <1>5, TailFacts DEF Dequeue, Order, TypeOK
  <2>2. content[done[1]] \in Int /\ content[done[1]] # 0
    BY <1>5, <2>1, TailFacts, Ranges DEF Dequeue, TypeOK
  <2> QED
    BY <1>5, <2>1, <2>2 DEF Dequeue
<1>6. CASE Copy
  BY <1>6 DEF Copy
<1>7. CASE MallocFails \/ CopyCrashes
  BY <1>7 DEF MallocFails, CopyCrashes
<1>8. CASE Requeue \/ RequeueFails
  BY <1>8 DEF Requeue, RequeueFails
<1>9. CASE NoFrame \/ UvcCb \/ SendToChn2
  BY <1>9 DEF NoFrame, UvcCb, SendToChn2
<1>10. CASE Free
  BY <1>10 DEF Free
<1>11. CASE Fill
  <2>1. Head(queue) \in InSeq(queue)
    BY <1>11, TailFacts, TailIn DEF Fill, TypeOK, Places
  <2>2. v # Head(queue)
    BY <2>1 DEF Places
  <2>3. pc = "copy" => v \in Bufs
    BY DEF Places, Holding
  <2> QED
    BY <1>11, <2>2, <2>3 DEF Fill, TypeOK
<1> QED
  BY <1>1, <1>2, <1>3, <1>4, <1>5, <1>6, <1>7, <1>8, <1>9, <1>10, <1>11 DEF Next, run

-----------------------------------------------------------------------------
(* The order of the pictures.                                              *)

LEMMA OrderInit == Init => Order
BY PicturesAssumption DEF Init, Order, SentInOrder

LEMMA OrderStep == IInv /\ [Next]_vars => Order'
<1> SUFFICES ASSUME IInv, [Next]_vars PROVE Order'
  OBVIOUS
<1> USE DEF IInv, driverVars, setupVars, frameVars
<1>1. CASE UNCHANGED vars
  BY <1>1 DEF vars, Order, SentInOrder
<1>2. CASE Reqbufs \/ NextBuffer \/ BuffersDone \/ QuerybufFails \/ StreamOn
  <2>1. /\ UNCHANGED <<done, content, picture, taken, sent, frame, frame_ptr, opened>>
        /\ pc \in {"reqbufs", "buffers", "streamon"}
        /\ pc' \in {"buffers", "streamon", "uvcOpen"}
    BY <1>2 DEF Reqbufs, NextBuffer, BuffersDone, QuerybufFails, StreamOn
  <2> QED
    BY <2>1 DEF Order, SentInOrder
<1>3. CASE UvcOpen
  BY <1>3 DEF UvcOpen, Order, SentInOrder
<1>4. CASE Select \/ SelectFails \/ DequeueFails
  <2>1. /\ UNCHANGED <<done, content, picture, taken, sent, frame, opened>>
        /\ pc' \in {"dequeue", "check"} /\ frame_ptr' = 0
    BY <1>4 DEF Select, SelectFails, DequeueFails, Copies
  <2> QED
    BY <2>1 DEF Order, SentInOrder
<1>5. CASE Dequeue
  <2>1. /\ Len(done) \in Nat \ {0} /\ Head(done) = done[1]
        /\ Len(done') = Len(done) - 1
        /\ \A k \in 1..(Len(done) - 1) : done'[k] = done[k + 1]
    BY <1>5, TailFacts DEF Dequeue, TypeOK
  <2>2. taken' = content[done[1]] /\ taken < taken' /\ taken' <= picture
    BY <1>5, <2>1 DEF Dequeue, Order
  <2>3. taken \in Int /\ taken' \in Int
    BY <1>5, <2>1, TailFacts, Ranges DEF Dequeue, TypeOK
  <2>4. \A k \in 1..Len(done') :
           taken' < content[done'[k]] /\ content[done'[k]] <= picture
    BY <2>1, <2>2 DEF Order
  <2>5. \A k, l \in 1..Len(done') : k < l => content[done'[k]] < content[done'[l]]
    BY <2>1 DEF Order
  <2>6. \A k \in 1..Len(sent) : sent[k] < taken' /\ sent[k] <= taken'
    <3>1. ASSUME NEW k \in 1..Len(sent) PROVE sent[k] \in Int /\ sent[k] <= taken
      <4>1. sent[k] \in Pictures
        BY DEF TypeOK
      <4> QED
        BY <4>1, Ranges DEF Order
    <3> QED
      BY <2>2, <2>3, <3>1
  <2> QED
    BY <1>5, <2>2, <2>4, <2>5, <2>6 DEF Dequeue, Order, SentInOrder
<1>6. CASE Copy \/ MallocFails \/ CopyCrashes
  <2>1. /\ UNCHANGED <<done, content, picture, taken, sent, frame, opened>>
        /\ pc = "copy" /\ pc' \in {"requeue", "crashed"}
    BY <1>6 DEF Copy, MallocFails, CopyCrashes
  <2> QED
    BY <2>1 DEF Order, SentInOrder
<1>7. CASE Requeue \/ RequeueFails
  <2>1. /\ UNCHANGED <<done, content, picture, taken, sent, frame, opened, frame_ptr>>
        /\ pc = "requeue" /\ pc' = "check"
    BY <1>7 DEF Requeue, RequeueFails
  <2> QED
    BY <2>1 DEF Order, SentInOrder
<1>8. CASE NoFrame
  BY <1>8 DEF NoFrame, Order, SentInOrder
<1>9. CASE UvcCb
  BY <1>9 DEF UvcCb, Order, SentInOrder, Copies
<1>10. CASE SendToChn2
  <2>1. UNCHANGED <<done, content, picture, taken, frame, opened>> /\ pc' = "free"
    BY <1>10 DEF SendToChn2
  <2>2. CASE frame = 0
    BY <1>10, <2>1, <2>2 DEF SendToChn2, Order, SentInOrder
  <2>3. CASE frame # 0
    <3>1. frame = taken /\ taken \in Pictures /\ taken \in Int
      BY <1>10, <2>3, Ranges DEF SendToChn2, Order, TypeOK
    <3>2. /\ Len(sent') = Len(sent) + 1 /\ Len(sent) \in Nat
          /\ \A k \in 1..Len(sent) : sent'[k] = sent[k]
          /\ sent'[Len(sent) + 1] = taken
      BY <1>10, <2>3, <3>1, AppendFacts DEF SendToChn2, TypeOK
    <3>3. DOMAIN sent = 1..Len(sent) /\ DOMAIN sent' = 1..Len(sent')
      BY <1>10, <2>3 DEF SendToChn2, TypeOK
    <3>4. \A k \in 1..Len(sent) : sent[k] < taken
      BY <1>10 DEF SendToChn2, Order, Copies
    <3>5. SentInOrder'
      BY <3>2, <3>3, <3>4 DEF Order, SentInOrder
    <3>6. \A k \in 1..Len(sent') : sent'[k] <= taken
      BY <3>1, <3>2, <3>4 DEF Order
    <3> QED
      BY <2>1, <3>5, <3>6 DEF Order
  <2> QED
    BY <2>2, <2>3
<1>11. CASE Free
  BY <1>11 DEF Free, Order, SentInOrder
<1>12. CASE Fill
  <2>1. /\ UNCHANGED <<pc, taken, sent, frame, opened, frame_ptr>>
        /\ picture' = picture + 1 /\ picture \in Int
    BY <1>12, Ranges DEF Fill, TypeOK
  <2>2. Head(queue) \in Bufs /\ Head(queue) \in InSeq(queue)
    BY <1>12, TailFacts, TailIn DEF Fill, TypeOK, Places
  <2>3. /\ Len(done') = Len(done) + 1 /\ Len(done) \in Nat
        /\ \A k \in 1..Len(done) : done'[k] = done[k]
        /\ done'[Len(done) + 1] = Head(queue)
    BY <1>12, <2>2, AppendFacts DEF Fill, TypeOK
  <2>4. content'[Head(queue)] = picture + 1
    BY <1>12, <2>2 DEF Fill, TypeOK
  <2>5. \A k \in 1..Len(done) : content'[done[k]] = content[done[k]]
    <3>1. ASSUME NEW k \in 1..Len(done) PROVE done[k] \in Bufs /\ done[k] # Head(queue)
      <4>1. done[k] \in InSeq(done) /\ done[k] \in Bufs
        BY <3>1 DEF InSeq, TypeOK
      <4> QED
        BY <2>2, <4>1 DEF Places
    <3> QED
      BY <1>12, <3>1 DEF Fill, TypeOK
  <2>6. \A k \in 1..Len(done) : content[done[k]] \in Int
    BY Ranges DEF TypeOK
  <2>7. taken \in Int /\ taken <= picture
    BY Ranges DEF Order, TypeOK
  <2>8. \A k \in 1..Len(done') :
           taken < content'[done'[k]] /\ content'[done'[k]] <= picture'
    BY <2>1, <2>3, <2>4, <2>5, <2>6, <2>7 DEF Order
  <2>9. ASSUME NEW k \in 1..Len(done'), NEW l \in 1..Len(done'), k < l
        PROVE  content'[done'[k]] < content'[done'[l]]
    <3>1. k \in 1..Len(done) /\ content'[done'[k]] = content[done[k]]
      BY <2>3, <2>5, <2>9
    <3>2. CASE l = Len(done) + 1
      <4>1. content'[done'[l]] = picture + 1 /\ content[done[k]] <= picture
        BY <2>3, <2>4, <3>1, <3>2 DEF Order
      <4> QED
        BY <2>1, <2>6, <3>1, <4>1
    <3>3. CASE l # Len(done) + 1
      <4>1. l \in 1..Len(done) /\ content'[done'[l]] = content[done[l]]
        BY <2>3, <2>5, <3>3
      <4> QED
        BY <2>9, <3>1, <4>1 DEF Order
    <3> QED
      BY <3>2, <3>3
  <2> QED
    BY <2>1, <2>7, <2>8, <2>9 DEF Order, SentInOrder
<1> QED
  BY <1>1, <1>2, <1>3, <1>4, <1>5, <1>6, <1>7, <1>8, <1>9, <1>10, <1>11, <1>12 DEF Next, run

-----------------------------------------------------------------------------
THEOREM Invariant == Spec => []IInv
<1>1. Init => IInv
  BY TypeInit, PlacesInit, CopiesInit, OrderInit DEF IInv
<1>2. IInv /\ [Next]_vars => IInv'
  BY TypeStep, PlacesStep, CopiesStep, OrderStep DEF IInv
<1> QED
  BY <1>1, <1>2, PTL DEF Spec

(* Types, and the loop of v4l2_reqbufs within the buffers granted.         *)
THEOREM TypeCorrect == Spec => []TypeOK
<1>1. IInv => TypeOK
  BY DEF IInv
<1> QED
  BY Invariant, <1>1, PTL

(* The driver never writes into a buffer that is being copied.             *)
THEOREM CopiesAreWhole == Spec => []CopyIsOfTheFrame
<1>1. IInv => CopyIsOfTheFrame
  BY DEF IInv, Copies, CopyIsOfTheFrame
<1> QED
  BY Invariant, <1>1, PTL

(* Whatever calls failed, no copy and no buffer is left over when the next *)
(* frame is waited for.                                                    *)
THEOREM AllIsGivenBack == Spec => []NothingLeftOver
<1>1. IInv => NothingLeftOver
  <2> SUFFICES ASSUME IInv, pc = "select"
               PROVE  /\ heap = {}
                      /\ InSeq(queue) \cup InSeq(done) = 0..(bufsnr - 1) \ failed
                      /\ InSeq(queue) \cap InSeq(done) = {}
    BY DEF NothingLeftOver
  <2>1. v = None /\ Known = bufsnr
    BY DEF IInv, Places, Holding, Known
  <2>2. InSeq(queue) \cup InSeq(done) \cup failed = 0..(bufsnr - 1)
    BY <2>1 DEF IInv, Places
  <2> QED
    BY <2>2 DEF IInv, Places, Copies
<1> QED
  BY Invariant, <1>1, PTL

(* Pictures are sent in the order they were taken, each at most once.      *)
THEOREM OrderIsKept == Spec => []SentInOrder
<1>1. IInv => SentInOrder
  BY DEF IInv, Order
<1> QED
  BY Invariant, <1>1, PTL
=============================================================================
