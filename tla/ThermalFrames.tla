--------------------------- MODULE ThermalFrames ---------------------------
(***************************************************************************)
(* The frame buffers of thermalUsb (thermalUsb.cpp): four pairs of buffers *)
(* (the picture, the raw temperatures, the raw picture, the temperatures), *)
(* used in turn, and a ring of T_SIZE buffers the temperatures are         *)
(* averaged over.  uvcOpen allocates them, uvc_cb fills them from a camera *)
(* frame, setPixelFormat replaces the picture buffers, close frees them.   *)
(* One thread calls all of them.                                           *)
(*                                                                         *)
(* A pointer is NULL or the number of bytes it points to; blocks counts,   *)
(* for each pointer, the blocks malloc gave for it and free did not take   *)
(* back.  External: malloc may fail.  The caller keeps to what the         *)
(* functions return: the format is changed only between a successful       *)
(* uvcOpen and close, and uvc_cb is given frames of the size that was      *)
(* opened.  rotateMode is never set, so that it is Rotate_0.               *)
(*                                                                         *)
(* What the buffers hold is not modelled.  The filter of processTemperature*)
(* writes neither the outermost columns nor the outermost rows of a buffer *)
(* of the ring, and the average reads column 0 of it only: the result is   *)
(* of memory nobody wrote, however many frames came.                       *)
(***************************************************************************)
EXTENDS Integers

CONSTANTS
    Widths,    \* of the pictures that are opened
    Heights,   \* half of the camera frame, which carries the temperatures too
    T_SIZE,
    MaxBlocks, \* bound: what the heap has room for, for each pointer
    NULL

ASSUME SizesAssumption == Widths \subseteq Nat \ {0} /\ Heights \subseteq Nat \ {0}
ASSUME RingAssumption == T_SIZE \in Nat \ {0}
ASSUME HeapAssumption == MaxBlocks \in Nat \ {0}
ASSUME NULLAssumption == NULL \notin Nat

Sides == {0, 1}
Ring == 0..(T_SIZE - 1)
Raws == {"raw", "img", "result"}      \* the 16-bit pairs

Pictures == {"frame"} \X Sides
Slots == Pictures \union (Raws \X Sides) \union ({"filter"} \X Ring)
Results == {"result"} \X Sides

Formats == {"RGB24", "BGR24", "RGB32", "BGR32"}
BytesPerPixel(f) == IF f \in {"RGB24", "BGR24"} THEN 3 ELSE 4

(* bytesPerLine: a line of w pixels, rounded up to four bytes.             *)
Line(bytes, w) == ((w * bytes + 3) \div 4) * 4

VARIABLES
    ptr,           \* the pointers
    width, height, \* of all buffers
    bytesPerLine,  \* of the two picture buffers; 16-bit lines never change
    pixelFmt,
    frameIndex,    \* which of each pair is in use
    frameCnt,      \* which buffer of the ring is written next
    opened,        \* what the caller knows: uvcOpen succeeded, no close since
    blocks         \* the blocks on the heap, for the pointer they were meant for

geometry == <<width, height, bytesPerLine>>
turn == <<frameIndex, frameCnt>>
vars == <<ptr, geometry, pixelFmt, turn, opened, blocks>>

AllNull == [s \in Slots |-> NULL]

Init ==
    /\ ptr = AllNull
    /\ width = 0 /\ height = 0
    /\ bytesPerLine \in [Sides -> {0}]   \* not initialised, and not used yet
    /\ pixelFmt = "RGB24"
    /\ frameIndex = 0
    /\ frameCnt = 0
    /\ opened = FALSE
    /\ blocks = [s \in Slots |-> 0]

-----------------------------------------------------------------------------
(* `if (ptr != NULL) free(ptr)` for the pointers p of S, and malloc for S. *)
Freed(b, p, S) == [s \in Slots |-> IF s \in S /\ p[s] # NULL THEN b[s] - 1 ELSE b[s]]
Given(b, S) == [s \in Slots |-> IF s \in S THEN b[s] + 1 ELSE b[s]]

(* What myAllocBuffer allocates for pictures of w times h in the format f. *)
Sizes(w, h, f) ==
    [s \in Slots |-> h * Line(IF s[1] = "frame" THEN BytesPerPixel(f) ELSE 2, w)]

Geometry(w, h) ==
    /\ width' = w /\ height' = h
    /\ bytesPerLine' = [i \in Sides |-> Line(BytesPerPixel(pixelFmt), w)]

(* uvcOpen and myAllocBuffer: old buffers are freed first.                 *)
OpenOk(w, h) ==
    /\ \A s \in Slots : Freed(blocks, ptr, Slots)[s] < MaxBlocks
    /\ Geometry(w, h)
    /\ ptr' = Sizes(w, h, pixelFmt)
    /\ blocks' = Given(Freed(blocks, ptr, Slots), Slots)
    /\ opened' = TRUE
    /\ UNCHANGED <<pixelFmt, turn>>

(* The buffers in the order of myAllocBuffer's first loop.                 *)
Rank(s) == 4 * s[2] + CASE s[1] = "frame" -> 0 [] s[1] = "raw" -> 1
                        [] s[1] = "img" -> 2 [] OTHER -> 3

(* A malloc fails in one of the two loops or in both (the first ends at its*)
(* failure, and the second runs all the same), and myFreeBuffer gives back *)
(* what the mallocs before returned.                                       *)
Allocated(m, n) == {s \in Slots : IF s[1] = "filter" THEN s[2] < n ELSE Rank(s) < m}

OpenFails(w, h) ==
    /\ Geometry(w, h)
    /\ \E m \in 0..8, n \in 0..T_SIZE :
          LET got == Allocated(m, n)
              ps == [s \in Slots |-> IF s \in got THEN Sizes(w, h, pixelFmt)[s] ELSE NULL]
          IN  /\ got # Slots
              /\ blocks' = Freed(Given(Freed(blocks, ptr, Slots), got), ps, Slots)
    /\ ptr' = AllNull
    /\ opened' = FALSE
    /\ UNCHANGED <<pixelFmt, turn>>

uvcOpen == \E w \in Widths, h \in Heights : OpenOk(w, h) \/ OpenFails(w, h)

(* The result buffers are forgotten: free is called on imgRawFrame, which  *)
(* was freed and set to NULL just before.  myFreeBuffer, called at the end,*)
(* finds NULL everywhere.                                                  *)
uvcClose ==
    /\ width' = 0 /\ height' = 0
    /\ bytesPerLine' = [i \in Sides |-> 0]
    /\ ptr' = AllNull
    /\ blocks' = Freed(blocks, ptr, Slots \ Results)
    /\ opened' = FALSE
    /\ UNCHANGED <<pixelFmt, turn>>

-----------------------------------------------------------------------------
(* setPixelFormat goes through the two picture buffers; good of the mallocs*)
(* succeed, and one that fails ends it.                                    *)

(* ps are the new pointers of the pictures; the first k lines have length n.*)
WithPictures(ps) ==
    [s \in Slots |-> IF s[1] = "frame" THEN ps[s[2]] ELSE ptr[s]]
WithLines(n, k) == [i \in Sides |-> IF i < k THEN n ELSE bytesPerLine[i]]

SetPixelFormatOk(f) ==
    /\ LET line == Line(BytesPerPixel(f), width) IN
          /\ ptr' = WithPictures([i \in Sides |-> height * line])
          /\ bytesPerLine' = WithLines(line, 2)
    /\ blocks' = Given(Freed(blocks, ptr, Pictures), Pictures)
    /\ pixelFmt' = f
    /\ UNCHANGED <<width, height, turn, opened>>

(* The first malloc fails, and the second buffer stays as it was; or the   *)
(* second fails, and the first is freed.  The line lengths stay changed.   *)
FirstFails(line) ==
    /\ ptr' = WithPictures([i \in Sides |-> IF i = 0 THEN NULL ELSE ptr[<<"frame", 1>>]])
    /\ blocks' = Freed(blocks, ptr, {<<"frame", 0>>})
    /\ bytesPerLine' = WithLines(line, 1)

(* Mutant: the first buffer is not given back.                             *)
SecondFailsKeeps(line) ==
    /\ ptr' = WithPictures([i \in Sides |-> NULL])
    /\ blocks' = Given(Freed(blocks, ptr, Pictures), {<<"frame", 0>>})
    /\ bytesPerLine' = WithLines(line, 2)
SecondFails(line) ==
    /\ ptr' = WithPictures([i \in Sides |-> NULL])
    /\ LET new == WithPictures([i \in Sides |-> height * line]) IN
          blocks' = Freed(Given(Freed(blocks, ptr, Pictures), {<<"frame", 0>>}),
                          new, {<<"frame", 0>>})
    /\ bytesPerLine' = WithLines(line, 2)

(* Mutant: the new format is kept although a malloc failed.                *)
SetPixelFormatFailsSets(f) ==
    /\ LET line == Line(BytesPerPixel(f), width) IN FirstFails(line) \/ SecondFails(line)
    /\ pixelFmt' = f
    /\ UNCHANGED <<width, height, turn, opened>>
SetPixelFormatFails(f) ==
    /\ LET line == Line(BytesPerPixel(f), width) IN FirstFails(line) \/ SecondFails(line)
    /\ UNCHANGED <<width, height, pixelFmt, turn, opened>>

setPixelFormat ==
    /\ opened
    /\ \E f \in Formats \ {pixelFmt} : SetPixelFormatOk(f) \/ SetPixelFormatFails(f)

-----------------------------------------------------------------------------
(* Mutant: the ring is one longer than its array.                          *)
NextInRingLate == IF frameCnt + 1 > T_SIZE THEN 0 ELSE frameCnt + 1
(* processTemperature: the turn of the ring, between filter and average.   *)
NextInRing == IF frameCnt + 1 >= T_SIZE THEN 0 ELSE frameCnt + 1

(* uvc_cb with pseudoColor and processTemperature: the frame is copied,    *)
(* coloured, filtered and averaged in the buffers whose turn it is.        *)
(* Without a picture buffer nothing happens, not even the change of turns. *)
uvc_cb ==
    /\ ptr[<<"frame", frameIndex>>] # NULL
    /\ frameCnt' = NextInRing
    /\ frameIndex' = 1 - frameIndex
    /\ UNCHANGED <<ptr, geometry, pixelFmt, opened, blocks>>

Next == uvcOpen \/ uvcClose \/ setPixelFormat \/ uvc_cb

Spec == Init /\ [][Next]_vars

-----------------------------------------------------------------------------
(* Types, with both ring and pair indices within their arrays.             *)
TypeOK ==
    /\ ptr \in [Slots -> Nat \union {NULL}]
    /\ width \in Widths \union {0} /\ height \in Heights \union {0}
    /\ bytesPerLine \in [Sides -> Nat]
    /\ pixelFmt \in Formats
    /\ frameIndex \in Sides /\ frameCnt \in Ring
    /\ opened \in BOOLEAN
    /\ blocks \in [Slots -> 0..MaxBlocks]

(* uvc_cb tests one pointer and writes through several: with a picture     *)
(* buffer the other buffers of the turn exist, and each is as long as what *)
(* is written to it, whatever allocations failed before.                   *)
WritesFit ==
    ptr[<<"frame", frameIndex>>] # NULL =>
       /\ opened
       /\ ptr[<<"frame", frameIndex>>]
             >= (height - 1) * bytesPerLine[frameIndex] + width * BytesPerPixel(pixelFmt)
       /\ \A s \in (Raws \X {frameIndex}) \union ({"filter"} \X Ring) :
             /\ ptr[s] # NULL
             /\ ptr[s] >= (height - 1) * Line(2, width) + width * 2

(* Heap and pointers agree, after opens and changes of format that failed  *)
(* at any of their mallocs: no pointer is left to a block that was freed   *)
(* (it would be freed again), and no block is left without its pointer --  *)
(* but for the result buffers, which uvcClose does forget.                 *)
PointersMatchHeap ==
    \A s \in Slots :
       /\ ptr[s] # NULL => blocks[s] > 0
       /\ s \notin Results => blocks[s] = IF ptr[s] = NULL THEN 0 ELSE 1
=============================================================================
