---------------------------- MODULE MCMqttChannel ----------------------------
(* One account that is started, stopped and started again. *)
EXTENDS MqttChannel
================================================================================
