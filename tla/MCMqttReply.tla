---------------------------- MODULE MCMqttReply ----------------------------
(***************************************************************************)
(* MqttReply, which has no constants, as TLC runs it.  It is taken by      *)
(* INSTANCE and under names of its own, so that the proofs can have it     *)
(* beside MqttPipeline.                                                    *)
(***************************************************************************)
VARIABLES rpc, message, heap, k, members, str, published, failed

Reply == INSTANCE MqttReply WITH pc <- rpc

ReplySpec == Reply!Spec

(* Whichever calls of process and xintiao fail, what goes wrong with an    *)
(* answer goes wrong for want of memory, in one of three named cases.      *)
DefectsHaveCauses == Reply!DefectsHaveCauses
=============================================================================
