----------------------------- MODULE MCTransportAcl -----------------------------
(* Small instances of TransportAcl for TLC. *)
EXTENDS TransportAcl, TLC

CONSTANTS a1, a2, b1, b2, o1, o2

\* Both operators list one bot by name.
ListedBot == [o \in OperatorIds |-> {b1}]
AclSymmetry == Permutations({a1, a2}) \cup Permutations({o1, o2})
================================================================================
