---------------------------- MODULE MCMqttSession ----------------------------
(* Small instances of MqttSession for TLC.                                   *)
EXTENDS MqttSession, TLC

TopicSymmetry == Permutations(Topic)
=============================================================================
