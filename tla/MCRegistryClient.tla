---------------------------- MODULE MCRegistryClient ----------------------------
(* A bot that starts and verifies its own messages, for TLC. *)
EXTENDS RegistryClient, TLC

CONSTANTS a1, a2, c1, c2, b1, o1

Own(op) == [op |-> op, bot |-> b1, operator |-> o1, key |-> a1]

CallsMade == c1 :> {Own("verify")} @@ c2 :> {Own("init")}
================================================================================
