-------------------------- MODULE MCThermalFrames --------------------------
(***************************************************************************)
(* TLC instance of ThermalFrames: the program's ring of five and widths    *)
(* whose 24-bit lines need rounding.                                       *)
(***************************************************************************)
EXTENDS ThermalFrames
=============================================================================
