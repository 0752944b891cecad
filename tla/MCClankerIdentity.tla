--------------------------- MODULE MCClankerIdentity ---------------------------
(* Small lineages of registries for TLC. *)
EXTENDS ClankerIdentity, TLC

CONSTANTS a1, a2, r1, r2, r3, b1, o1

LineageSymmetry == Permutations({r1, r2, r3}) \cup Permutations({a1, a2})
================================================================================
