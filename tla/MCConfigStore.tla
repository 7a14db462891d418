--------------------------- MODULE MCConfigStore ---------------------------
(***************************************************************************)
(* TLC instance of ConfigStore: two run counts and two settings are enough *)
(* for a record to be mixed from two others.                               *)
(***************************************************************************)
EXTENDS ConfigStore
=============================================================================
