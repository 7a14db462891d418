--------------------------- MODULE MCMqttPipeline ---------------------------
(***************************************************************************)
(* TLC instances of MqttPipeline: the program's five threads.              *)
(***************************************************************************)
EXTENDS MqttPipeline

(* Enough objects that `new` never fails: one for each place in the queue, *)
(* one the receive thread is pushing and one the consumer is processing.   *)
ASSUME Cardinality(Items) >= Cap + 2
=============================================================================
