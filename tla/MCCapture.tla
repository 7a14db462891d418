----------------------------- MODULE MCCapture -----------------------------
(* TLC instance of Capture.                                                *)
EXTENDS Capture

(* More pictures than buffers: every buffer comes round again.             *)
ASSUME MaxPictures > MaxBufs
=============================================================================
