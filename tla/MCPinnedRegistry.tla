---------------------------- MODULE MCPinnedRegistry ----------------------------
(* The pinned registry for TLC. *)
EXTENDS PinnedRegistry, TLC

CONSTANTS a1, a2, a3, r1, b1, b2, o1, o2

RegistrySymmetry == Permutations({a1, a2, a3}) \cup Permutations({o1, o2}) \cup Permutations({b1, b2})
================================================================================
