---------------------------- MODULE MCSendSignedDm ----------------------------
(* Three calls of one bot, so that one can fail for a rotated key and the    *)
(* next two show what the failure left behind.                               *)
EXTENDS SendSignedDm

CONSTANT b1

OneBot == [s \in Sends |-> b1]
================================================================================
