---------------------------- MODULE MCMqttClient ----------------------------
(***************************************************************************)
(* TLC instances of MqttClient: one client thread, the consumer thread as  *)
(* publisher, and two library threads so that a late report of one         *)
(* connection can meet the report of the next.                             *)
(***************************************************************************)
EXTENDS MqttClient
=============================================================================
