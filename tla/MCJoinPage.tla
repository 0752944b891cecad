------------------------------ MODULE MCJoinPage ------------------------------
(* Two addresses, one operator label and one or two bot labels. *)
EXTENDS JoinPage

CONSTANTS a1, a2, o1, b1, b2
================================================================================
