-------------------------- MODULE MCMqttAuthService --------------------------
(* Small instances of MqttAuthService for TLC. *)
EXTENDS MqttAuthService, TLC

CONSTANTS a1, a2, b1, o1, o2, n1, n2, n3, s1, s2

SameName == [o \in OperatorIds |-> o]
NoNames  == [o \in {} |-> None]

ConnectSymmetry == Permutations({a1, a2}) \cup Permutations(Nonces) \cup Permutations(Slots)
PairSymmetry    == ConnectSymmetry \cup Permutations({o1, o2})
================================================================================
