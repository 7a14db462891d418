------------------------ MODULE ThermalFramesProofs ------------------------
(***************************************************************************)
(* Theorems about ThermalFrames for pictures of any size and a ring of any *)
(* length.                                                                 *)
(***************************************************************************)
EXTENDS ThermalFrames, TLAPS

(* Which buffers exist, and how long they are.  After a failed change of   *)
(* format a picture buffer that is left still belongs to pixelFmt.         *)
FitInv ==
    /\ ~opened => ptr = AllNull
    /\ opened =>
          /\ width \in Widths /\ height \in Heights
          /\ \A s \in Slots : s[1] # "frame" => ptr[s] = height * Line(2, width)
    /\ \A i \in Sides : ptr[<<"frame", i>>] # NULL =>
          /\ bytesPerLine[i] = Line(BytesPerPixel(pixelFmt), width)
          /\ ptr[<<"frame", i>>] = height * bytesPerLine[i]

-----------------------------------------------------------------------------
(* A line is rounded up to what its pixels need.                           *)
LEMMA LineFits ==
    ASSUME NEW b \in 2..4, NEW w \in Nat
    PROVE  Line(b, w) \in Nat /\ Line(b, w) >= w * b
<1>1. CASE b = 2
  BY <1>1 DEF Line
<1>2. CASE b = 3
  BY <1>2 DEF Line
<1>3. CASE b = 4
  BY <1>3 DEF Line
<1> QED
  BY <1>1, <1>2, <1>3

LEMMA PixelBytes == \A f \in Formats : BytesPerPixel(f) \in {3, 4}
BY DEF Formats, BytesPerPixel

LEMMA ProductNat == \A m, n \in Nat : m * n \in Nat
OBVIOUS

(* A buffer of h lines holds its last line.                                *)
LEMMA LastLineFits ==
    ASSUME NEW h \in Nat \ {0}, NEW l \in Nat, NEW n \in Nat, l >= n
    PROVE  h * l >= (h - 1) * l + n
<1>1. h * l = (h - 1) * l + l
  OBVIOUS
<1>2. (h - 1) * l \in Int
  OBVIOUS
<1> QED
  BY <1>1, <1>2

LEMMA SlotsOf ==
    /\ \A i \in Sides : <<"frame", i>> \in Slots
    /\ Results \subseteq Slots /\ Pictures \subseteq Slots
    /\ Results \cap Pictures = {}
    /\ \A s \in Slots : s \in Pictures <=> s[1] = "frame"
    /\ \A i \in Sides :
          \A s \in (Raws \X {i}) \union ({"filter"} \X Ring) :
             s \in Slots /\ s[1] # "frame"
    /\ \A s \in Slots : s[1] = "frame" => s[2] \in Sides /\ s = <<"frame", s[2]>>
BY DEF Slots, Results, Pictures, Raws

-----------------------------------------------------------------------------
LEMMA TypeInit == Init => TypeOK
<1> SUFFICES ASSUME Init PROVE TypeOK
  OBVIOUS
<1>1. ptr \in [Slots -> Nat \union {NULL}] /\ bytesPerLine \in [Sides -> Nat]
  BY DEF Init, AllNull
<1>2. frameIndex \in Sides /\ frameCnt \in Ring /\ blocks \in [Slots -> 0..MaxBlocks]
  BY RingAssumption, HeapAssumption DEF Init, Sides, Ring
<1> QED
  BY <1>1, <1>2 DEF Init, TypeOK, Formats

LEMMA SizesNat ==
    ASSUME NEW w \in Nat, NEW h \in Nat, NEW f \in Formats
    PROVE  /\ Line(BytesPerPixel(f), w) \in Nat
           /\ h * Line(BytesPerPixel(f), w) \in Nat
           /\ Sizes(w, h, f) \in [Slots -> Nat]
           /\ Sizes(w, h, f) \in [Slots -> Nat \union {NULL}]
<1>1. Line(BytesPerPixel(f), w) \in Nat /\ Line(2, w) \in Nat
  <2>1. BytesPerPixel(f) \in 2..4 /\ 2 \in 2..4
    BY PixelBytes
  <2> QED
    BY ONLY <2>1, LineFits, w \in Nat
<1>2. \A s \in Slots :
         h * Line(IF s[1] = "frame" THEN BytesPerPixel(f) ELSE 2, w) \in Nat
  BY <1>1, ProductNat
<1> QED
  BY <1>1, <1>2, ProductNat DEF Sizes

(* What is freed and allocated: each slot loses the block it points to and *)
(* gains one if its malloc succeeds.                                       *)
LEMMA HeapOperators ==
    ASSUME NEW b \in [Slots -> Int], NEW p \in [Slots -> Nat \union {NULL}], NEW S
    PROVE  /\ Freed(b, p, S) \in [Slots -> Int] /\ Given(b, S) \in [Slots -> Int]
           /\ \A s \in Slots :
                 /\ Freed(b, p, S)[s] = IF s \in S /\ p[s] # NULL THEN b[s] - 1 ELSE b[s]
                 /\ Given(b, S)[s] = IF s \in S THEN b[s] + 1 ELSE b[s]
BY DEF Freed, Given

LEMMA HeapInit == Init => PointersMatchHeap
BY DEF Init, AllNull, PointersMatchHeap

LEMMA HeapStep ==
    TypeOK /\ PointersMatchHeap /\ [Next]_vars
    => PointersMatchHeap' /\ blocks' \in [Slots -> 0..MaxBlocks]
<1> SUFFICES ASSUME TypeOK, PointersMatchHeap, [Next]_vars
             PROVE  PointersMatchHeap' /\ blocks' \in [Slots -> 0..MaxBlocks]
  OBVIOUS
<1>a. /\ ptr \in [Slots -> Nat \union {NULL}] /\ blocks \in [Slots -> 0..MaxBlocks]
      /\ blocks \in [Slots -> Int] /\ MaxBlocks \in Nat \ {0}
  BY HeapAssumption DEF TypeOK
<1>b. \A s \in Slots :
         /\ blocks[s] \in 0..MaxBlocks
         /\ ptr[s] # NULL => blocks[s] > 0
         /\ s \notin Results => blocks[s] = IF ptr[s] = NULL THEN 0 ELSE 1
  BY <1>a DEF PointersMatchHeap
<1> DEFINE F == Freed(blocks, ptr, Slots)
<1>c. /\ F \in [Slots -> Int]
      /\ \A s \in Slots : F[s] = IF ptr[s] # NULL THEN blocks[s] - 1 ELSE blocks[s]
  BY <1>a, HeapOperators
<1>d. \A s \in Slots : F[s] \in 0..MaxBlocks /\ (s \notin Results => F[s] = 0)
  BY <1>a, <1>b, <1>c
<1>1. ASSUME NEW w \in Widths, NEW h \in Heights, OpenOk(w, h)
      PROVE  PointersMatchHeap' /\ blocks' \in [Slots -> 0..MaxBlocks]
  <2>1. /\ blocks' \in [Slots -> Int]
        /\ \A s \in Slots : blocks'[s] = F[s] + 1 /\ F[s] < MaxBlocks
    BY <1>1, <1>a, <1>c, HeapOperators DEF OpenOk
  <2>2. Sizes(w, h, pixelFmt) \in [Slots -> Nat]
    BY SizesNat, SizesAssumption DEF TypeOK
  <2>3. \A s \in Slots : ptr'[s] # NULL
    BY <1>1, <2>2, NULLAssumption DEF OpenOk
  <2>4. blocks' \in [Slots -> 0..MaxBlocks]
    BY <1>a, <1>d, <2>1
  <2> QED
    BY <1>d, <2>1, <2>3, <2>4 DEF PointersMatchHeap
<1>2. ASSUME NEW w \in Widths, NEW h \in Heights, OpenFails(w, h)
      PROVE  PointersMatchHeap' /\ blocks' \in [Slots -> 0..MaxBlocks]
  <2>1. PICK m \in 0..8, n \in 0..T_SIZE :
           blocks' = Freed(Given(F, Allocated(m, n)),
                           [s \in Slots |-> IF s \in Allocated(m, n)
                                               THEN Sizes(w, h, pixelFmt)[s] ELSE NULL],
                           Slots)
    BY <1>2 DEF OpenFails
  <2> DEFINE got == Allocated(m, n)
             ps == [s \in Slots |-> IF s \in got THEN Sizes(w, h, pixelFmt)[s] ELSE NULL]
  <2>2. Sizes(w, h, pixelFmt) \in [Slots -> Nat]
    BY SizesNat, SizesAssumption DEF TypeOK
  <2>3. ps \in [Slots -> Nat \union {NULL}] /\ \A s \in Slots : ps[s] # NULL <=> s \in got
    BY <2>2, NULLAssumption
  <2>4. /\ Given(F, got) \in [Slots -> Int]
        /\ \A s \in Slots : Given(F, got)[s] = IF s \in got THEN F[s] + 1 ELSE F[s]
    BY <1>a, <1>c, HeapOperators
  <2>5. /\ blocks' \in [Slots -> Int]
        /\ \A s \in Slots :
              blocks'[s] = IF ps[s] # NULL THEN Given(F, got)[s] - 1 ELSE Given(F, got)[s]
    BY <2>1, <2>3, <2>4, HeapOperators
  <2>6. \A s \in Slots : blocks'[s] = F[s]
    BY <1>c, <2>3, <2>4, <2>5
  <2>7. \A s \in Slots : ptr'[s] = NULL
    BY <1>2 DEF OpenFails, AllNull
  <2> QED
    BY <1>d, <2>5, <2>6, <2>7 DEF PointersMatchHeap
<1>3. CASE uvcClose
  <2>1. /\ blocks' \in [Slots -> Int]
        /\ \A s \in Slots : blocks'[s] = IF s \in Slots \ Results /\ ptr[s] # NULL
                                           THEN blocks[s] - 1 ELSE blocks[s]
    BY <1>3, <1>a, HeapOperators DEF uvcClose
  <2>2. \A s \in Slots : ptr'[s] = NULL
    BY <1>3 DEF uvcClose, AllNull
  <2>3. \A s \in Slots : blocks'[s] \in 0..MaxBlocks /\ (s \notin Results => blocks'[s] = 0)
    BY <1>a, <1>b, <2>1
  <2> QED
    BY <2>1, <2>2, <2>3 DEF PointersMatchHeap
<1>4. ASSUME NEW f \in Formats, SetPixelFormatOk(f) \/ SetPixelFormatFails(f)
      PROVE  PointersMatchHeap' /\ blocks' \in [Slots -> 0..MaxBlocks]
  <2> DEFINE line == Line(BytesPerPixel(f), width)
             new == WithPictures([i \in Sides |-> height * line])
             P == Freed(blocks, ptr, Pictures)
  <2>1. line \in Nat /\ height * line \in Nat
    BY SizesNat, SizesAssumption DEF TypeOK
  <2>2. \A ps : \A s \in Slots :
           WithPictures(ps)[s] = IF s[1] = "frame" THEN ps[s[2]] ELSE ptr[s]
    BY DEF WithPictures
  <2>3. \A s \in Pictures : s \in Slots /\ s \notin Results /\ s[1] = "frame" /\ s[2] \in Sides
    BY SlotsOf
  <2>4. /\ P \in [Slots -> Int]
        /\ \A s \in Slots : P[s] = IF s \in Pictures THEN 0 ELSE blocks[s]
    <3>1. /\ P \in [Slots -> Int]
          /\ \A s \in Slots : P[s] = IF s \in Pictures /\ ptr[s] # NULL
                                      THEN blocks[s] - 1 ELSE blocks[s]
      BY <1>a, HeapOperators
    <3> QED
      BY <1>b, <2>3, <3>1
  <2>5. CASE SetPixelFormatOk(f)
    <3>1. /\ blocks' \in [Slots -> Int]
          /\ \A s \in Slots : blocks'[s] = IF s \in Pictures THEN P[s] + 1 ELSE P[s]
      BY <1>a, <2>4, <2>5, HeapOperators DEF SetPixelFormatOk
    <3>2. \A s \in Slots : ptr'[s] = IF s \in Pictures THEN height * line ELSE ptr[s]
      BY <2>2, <2>3, <2>5, SlotsOf DEF SetPixelFormatOk
    <3>3. \A s \in Slots : blocks'[s] = IF s \in Pictures THEN 1 ELSE blocks[s]
      BY <2>4, <3>1
    <3>4. height * line # NULL
      BY <2>1, NULLAssumption
    <3>5. \A s \in Slots : blocks'[s] \in 0..MaxBlocks
      BY <1>a, <1>b, <3>3
    <3> QED
      BY <1>b, <2>3, <3>1, <3>2, <3>3, <3>4, <3>5 DEF PointersMatchHeap
  <2>6. CASE SetPixelFormatFails(f) /\ FirstFails(line)
    <3> DEFINE s0 == <<"frame", 0>>
               s1 == <<"frame", 1>>
    <3>0. s0 \in Pictures /\ s1 \in Pictures /\ \A s \in Pictures : s = s0 \/ s = s1
      BY DEF Pictures, Sides
    <3>1. /\ blocks' \in [Slots -> Int]
          /\ \A s \in Slots : blocks'[s] = IF s \in {s0} /\ ptr[s] # NULL
                                             THEN blocks[s] - 1 ELSE blocks[s]
      BY <1>a, <2>6, HeapOperators DEF FirstFails
    <3>2. \A s \in Slots : ptr'[s] = IF s = s0 THEN NULL ELSE ptr[s]
      <4>1. ptr' = WithPictures([i \in Sides |-> IF i = 0 THEN NULL ELSE ptr[s1]])
        BY <2>6 DEF FirstFails
      <4> QED
        BY <2>2, <2>3, <3>0, <4>1, SlotsOf DEF Sides
    <3>3. \A s \in Slots : blocks'[s] = IF s = s0 THEN 0 ELSE blocks[s]
      BY <1>b, <2>3, <3>0, <3>1
    <3>4. \A s \in Slots : blocks'[s] \in 0..MaxBlocks
      BY <1>a, <1>b, <3>3
    <3> QED
      BY <1>b, <2>3, <3>0, <3>1, <3>2, <3>3, <3>4 DEF PointersMatchHeap
  <2>7. CASE SetPixelFormatFails(f) /\ SecondFails(line)
    <3> DEFINE s0 == <<"frame", 0>>
               G == Given(P, {s0})
    <3>0. s0 \in Pictures
      BY DEF Pictures, Sides
    <3>1. new \in [Slots -> Nat \union {NULL}] /\ new[s0] # NULL
      <4>1. new[s0] = height * line
        BY <2>2, <2>3, <3>0 DEF Sides
      <4>2. \A s \in Slots : new[s] \in Nat \union {NULL}
        BY <1>a, <2>1, <2>2, SlotsOf
      <4> QED
        BY <2>1, <4>1, <4>2, NULLAssumption DEF WithPictures
    <3>2. /\ G \in [Slots -> Int]
          /\ \A s \in Slots : G[s] = IF s \in {s0} THEN P[s] + 1 ELSE P[s]
      BY <1>a, <2>4, HeapOperators
    <3>3. blocks' = Freed(G, new, {s0})
      BY <2>7 DEF SecondFails
    <3>4. /\ blocks' \in [Slots -> Int]
          /\ \A s \in Slots : blocks'[s] = IF s \in {s0} /\ new[s] # NULL
                                             THEN G[s] - 1 ELSE G[s]
      BY <3>1, <3>2, <3>3, HeapOperators
    <3>5. \A s \in Slots : blocks'[s] = P[s]
      BY <2>4, <3>1, <3>2, <3>4
    <3>6. \A s \in Slots : ptr'[s] = IF s \in Pictures THEN NULL ELSE ptr[s]
      BY <2>2, <2>3, <2>7, SlotsOf DEF SecondFails
    <3>7. \A s \in Slots : blocks'[s] \in 0..MaxBlocks
      BY <1>a, <1>b, <2>4, <3>5
    <3> QED
      BY <1>b, <2>3, <2>4, <3>4, <3>5, <3>6, <3>7 DEF PointersMatchHeap
  <2> QED
    BY <1>4, <2>5, <2>6, <2>7 DEF SetPixelFormatFails
<1>5. CASE uvc_cb \/ UNCHANGED vars
  BY <1>5, <1>a DEF uvc_cb, vars, PointersMatchHeap
<1> QED
  BY <1>1, <1>2, <1>3, <1>4, <1>5 DEF Next, uvcOpen, setPixelFormat

LEMMA TypeStep == TypeOK /\ FitInv /\ PointersMatchHeap /\ [Next]_vars => TypeOK'
<1> SUFFICES ASSUME TypeOK, FitInv, PointersMatchHeap, Next PROVE TypeOK'
  BY DEF TypeOK, vars, geometry, turn
<1>0. blocks' \in [Slots -> 0..MaxBlocks]
  BY HeapStep
<1> USE SizesAssumption, RingAssumption, <1>0 DEF TypeOK
<1>1. ASSUME NEW w \in Widths, NEW h \in Heights, OpenOk(w, h) PROVE TypeOK'
  <2>0. w \in Nat /\ h \in Nat /\ pixelFmt \in Formats
    OBVIOUS
  <2>1. /\ Line(BytesPerPixel(pixelFmt), w) \in Nat
        /\ Sizes(w, h, pixelFmt) \in [Slots -> Nat \union {NULL}]
    BY <2>0, SizesNat
  <2> QED
    BY <1>1, <2>0, <2>1 DEF OpenOk, Geometry, turn, Ring
<1>2. ASSUME NEW w \in Widths, NEW h \in Heights, OpenFails(w, h) PROVE TypeOK'
  <2>0. w \in Nat /\ h \in Nat /\ pixelFmt \in Formats
    OBVIOUS
  <2>1. Line(BytesPerPixel(pixelFmt), w) \in Nat
    BY <2>0, SizesNat
  <2> QED
    BY <1>2, <2>0, <2>1 DEF OpenFails, Geometry, turn, AllNull, Ring
<1>3. CASE uvcClose
  <2>2. ptr' \in [Slots -> Nat \union {NULL}] /\ bytesPerLine' \in [Sides -> Nat]
    BY <1>3 DEF uvcClose, AllNull
  <2> QED
    BY <1>3, <2>2 DEF uvcClose, turn
<1>4. ASSUME NEW f \in Formats, SetPixelFormatOk(f) \/ SetPixelFormatFails(f)
      PROVE  TypeOK'
  <2> DEFINE line == Line(BytesPerPixel(f), width)
  <2>1. line \in Nat /\ height * line \in Nat
    BY SizesNat
  <2>2. /\ \A k : WithLines(line, k) \in [Sides -> Nat]
        /\ \A ps \in [Sides -> Nat \union {NULL}] :
              WithPictures(ps) \in [Slots -> Nat \union {NULL}]
    BY <2>1, SlotsOf DEF WithLines, WithPictures
  <2>3. /\ [i \in Sides |-> height * line] \in [Sides -> Nat \union {NULL}]
        /\ [i \in Sides |-> NULL] \in [Sides -> Nat \union {NULL}]
        /\ [i \in Sides |-> IF i = 0 THEN NULL ELSE ptr[<<"frame", 1>>]]
              \in [Sides -> Nat \union {NULL}]
    BY <2>1, SlotsOf DEF Sides
  <2>4. CASE SetPixelFormatOk(f)
    <3>1. /\ ptr' = WithPictures([i \in Sides |-> height * line])
          /\ bytesPerLine' = WithLines(line, 2)
      BY <2>4 DEF SetPixelFormatOk
    <3>2. /\ ptr' \in [Slots -> Nat \union {NULL}]
          /\ bytesPerLine' \in [Sides -> Nat]
      BY <2>2, <2>3, <3>1
    <3> QED
      BY <2>4, <3>2 DEF SetPixelFormatOk, turn
  <2>5. CASE SetPixelFormatFails(f)
    <3>1. \/ /\ ptr' = WithPictures([i \in Sides |->
                           IF i = 0 THEN NULL ELSE ptr[<<"frame", 1>>]])
             /\ bytesPerLine' = WithLines(line, 1)
          \/ /\ ptr' = WithPictures([i \in Sides |-> NULL])
             /\ bytesPerLine' = WithLines(line, 2)
      BY <2>5 DEF SetPixelFormatFails, FirstFails, SecondFails
    <3>2. /\ ptr' \in [Slots -> Nat \union {NULL}]
          /\ bytesPerLine' \in [Sides -> Nat]
      BY <2>2, <2>3, <3>1
    <3> QED
      BY <2>5, <3>2 DEF SetPixelFormatFails, turn
  <2> QED
    BY <1>4, <2>4, <2>5
<1>5. CASE uvc_cb
  BY <1>5 DEF uvc_cb, geometry, NextInRing, Ring, Sides
<1> QED
  BY <1>1, <1>2, <1>3, <1>4, <1>5 DEF Next, uvcOpen, setPixelFormat

-----------------------------------------------------------------------------
LEMMA FitInit == Init => FitInv
BY SlotsOf DEF Init, FitInv, AllNull

LEMMA FitStep == TypeOK /\ FitInv /\ [Next]_vars => FitInv'
<1> SUFFICES ASSUME TypeOK, FitInv, Next PROVE FitInv'
  BY DEF FitInv, AllNull, vars, geometry, turn
<1>1. ASSUME NEW w \in Widths, NEW h \in Heights, OpenOk(w, h) PROVE FitInv'
  BY <1>1, SlotsOf DEF OpenOk, Geometry, Sizes, FitInv
<1>2. ASSUME NEW w \in Widths, NEW h \in Heights, OpenFails(w, h) PROVE FitInv'
  BY <1>2, SlotsOf DEF OpenFails, FitInv, AllNull
<1>3. CASE uvcClose
  BY <1>3, SlotsOf DEF uvcClose, FitInv, AllNull
<1>4. ASSUME opened, NEW f \in Formats, SetPixelFormatOk(f) \/ SetPixelFormatFails(f)
      PROVE  FitInv'
  <2> DEFINE line == Line(BytesPerPixel(f), width)
  <2>1. \A ps : \A s \in Slots :
           WithPictures(ps)[s] = IF s[1] = "frame" THEN ps[s[2]] ELSE ptr[s]
    BY DEF WithPictures
  <2>2. /\ \A ps : \A i \in Sides : WithPictures(ps)[<<"frame", i>>] = ps[i]
        /\ \A k : \A i \in Sides :
              WithLines(line, k)[i] = IF i < k THEN line ELSE bytesPerLine[i]
    BY <2>1, SlotsOf DEF WithLines
  <2>3. CASE SetPixelFormatOk(f)
    <3>1. /\ ptr' = WithPictures([i \in Sides |-> height * line])
          /\ bytesPerLine' = WithLines(line, 2)
          /\ pixelFmt' = f /\ opened' = opened /\ width' = width /\ height' = height
      BY <2>3 DEF SetPixelFormatOk
    <3>2. \A i \in Sides : bytesPerLine'[i] = line /\ ptr'[<<"frame", i>>] = height * line
      BY <2>2, <3>1 DEF Sides
    <3>3. \A s \in Slots : s[1] # "frame" => ptr'[s] = ptr[s]
      BY <2>1, <3>1
    <3> QED
      BY <1>4, <3>1, <3>2, <3>3 DEF FitInv
  <2>4. CASE SetPixelFormatFails(f)
    <3>1. /\ pixelFmt' = pixelFmt /\ opened' = opened
          /\ width' = width /\ height' = height
      BY <2>4 DEF SetPixelFormatFails
    <3>2. CASE /\ ptr' = WithPictures([i \in Sides |->
                             IF i = 0 THEN NULL ELSE ptr[<<"frame", 1>>]])
               /\ bytesPerLine' = WithLines(line, 1)
      <4>1. /\ ptr'[<<"frame", 0>>] = NULL
            /\ ptr'[<<"frame", 1>>] = ptr[<<"frame", 1>>]
            /\ bytesPerLine'[1] = bytesPerLine[1]
        BY <2>2, <3>2 DEF Sides
      <4>2. \A s \in Slots : s[1] # "frame" => ptr'[s] = ptr[s]
        BY <2>1, <3>2
      <4> QED
        BY <1>4, <3>1, <4>1, <4>2 DEF FitInv, Sides
    <3>3. CASE /\ ptr' = WithPictures([i \in Sides |-> NULL])
               /\ bytesPerLine' = WithLines(line, 2)
      <4>1. \A i \in Sides : ptr'[<<"frame", i>>] = NULL
        BY <2>2, <3>3
      <4>2. \A s \in Slots : s[1] # "frame" => ptr'[s] = ptr[s]
        BY <2>1, <3>3
      <4> QED
        BY <1>4, <3>1, <4>1, <4>2 DEF FitInv
    <3> QED
      BY <2>4, <3>2, <3>3 DEF SetPixelFormatFails, FirstFails, SecondFails
  <2> QED
    BY <1>4, <2>3, <2>4
<1>5. CASE uvc_cb
  BY <1>5 DEF uvc_cb, FitInv, geometry, AllNull
<1> QED
  BY <1>1, <1>2, <1>3, <1>4, <1>5 DEF Next, uvcOpen, setPixelFormat

-----------------------------------------------------------------------------
LEMMA InvariantStep ==
    TypeOK /\ FitInv /\ PointersMatchHeap /\ [Next]_vars
    => (TypeOK /\ FitInv /\ PointersMatchHeap)'
<1>1. TypeOK /\ FitInv /\ PointersMatchHeap /\ [Next]_vars => TypeOK'
  BY TypeStep
<1>2. TypeOK /\ FitInv /\ [Next]_vars => FitInv'
  BY FitStep
<1>3. TypeOK /\ PointersMatchHeap /\ [Next]_vars => PointersMatchHeap'
  BY HeapStep
<1> QED
  BY <1>1, <1>2, <1>3

(* Types, with both indices within their arrays.                           *)
THEOREM TypeCorrect == Spec => []TypeOK
BY InvariantStep, TypeInit, FitInit, HeapInit, PTL DEF Spec

(* uvc_cb writes within its buffers, for pictures of any size and whatever *)
(* allocations failed.                                                     *)
THEOREM BuffersSuffice == Spec => []WritesFit
<1>1. ASSUME TypeOK, FitInv PROVE WritesFit
  <2> SUFFICES ASSUME ptr[<<"frame", frameIndex>>] # NULL PROVE WritesFit
    BY DEF WritesFit
  <2>1. opened /\ frameIndex \in Sides
    BY <1>1, SlotsOf DEF FitInv, AllNull, TypeOK
  <2>2. width \in Nat /\ height \in Nat \ {0}
    BY <1>1, <2>1, SizesAssumption DEF FitInv
  <2>3. ptr[<<"frame", frameIndex>>]
           >= (height - 1) * bytesPerLine[frameIndex] + width * BytesPerPixel(pixelFmt)
    <3>1. BytesPerPixel(pixelFmt) \in 2..4
      BY <1>1, PixelBytes DEF TypeOK
    <3>2. width * BytesPerPixel(pixelFmt) \in Nat
      BY <2>2, <3>1, ProductNat
    <3>3. /\ bytesPerLine[frameIndex] \in Nat
          /\ bytesPerLine[frameIndex] >= width * BytesPerPixel(pixelFmt)
          /\ ptr[<<"frame", frameIndex>>] = height * bytesPerLine[frameIndex]
      BY <1>1, <2>1, <2>2, <3>1, LineFits DEF FitInv
    <3> QED
      BY <2>2, <3>2, <3>3, LastLineFits
  <2>4. ASSUME NEW s \in (Raws \X {frameIndex}) \union ({"filter"} \X Ring)
        PROVE  /\ ptr[s] # NULL
               /\ ptr[s] >= (height - 1) * Line(2, width) + width * 2
    <3>1. s \in Slots /\ s[1] # "frame"
      BY <2>1, SlotsOf
    <3>2. ptr[s] = height * Line(2, width)
      BY <1>1, <2>1, <3>1 DEF FitInv
    <3>3. Line(2, width) \in Nat /\ Line(2, width) >= width * 2
      BY ONLY <2>2, LineFits, 2 \in 2..4
    <3>4. width * 2 \in Nat /\ height * Line(2, width) \in Nat
      BY <2>2, <3>3, ProductNat
    <3>5. height * Line(2, width) >= (height - 1) * Line(2, width) + width * 2
      BY ONLY <2>2, <3>3, <3>4, LastLineFits
    <3> QED
      BY ONLY <3>2, <3>4, <3>5, NULLAssumption
  <2> QED
    BY <2>1, <2>3, <2>4 DEF WritesFit
<1> QED
  BY InvariantStep, TypeInit, FitInit, HeapInit, <1>1, PTL DEF Spec

(* Wherever opens and changes of format fail, and however often: nothing   *)
(* is freed twice, and only the result buffers are ever forgotten.         *)
THEOREM NothingElseForgotten == Spec => []PointersMatchHeap
BY InvariantStep, TypeInit, FitInit, HeapInit, PTL DEF Spec
=============================================================================
