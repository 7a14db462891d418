----------------------------- MODULE MCRtmpPush -----------------------------
(***************************************************************************)
(* TLC instances of RtmpPush: the video and the audio callback of the      *)
(* encoder.                                                                *)
(***************************************************************************)
EXTENDS RtmpPush
=============================================================================
