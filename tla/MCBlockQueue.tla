---------------------------- MODULE MCBlockQueue ----------------------------
(***************************************************************************)
(* TLC instance of BlockQueue: rivals on both sides.  The program has one  *)
(* receive thread and one consumer thread; two of each, with a queue of    *)
(* two places, let threads overtake each other at every signal.            *)
(***************************************************************************)
EXTENDS BlockQueue

(* Enough addresses that `new` never fails: one per thread and per place.  *)
ASSUME Cardinality(Items) >= Cardinality(Threads) + Cap
=============================================================================
