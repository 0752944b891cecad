------------------------------ MODULE MCClankerCli ------------------------------
(* Two terminals of one user with two vendor accounts. *)
EXTENDS ClankerCli

CONSTANTS t1, t2, w1, w2
================================================================================
