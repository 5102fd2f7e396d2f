------------------------------ MODULE MCCtrlSession ------------------------------
(* Three machines and two attempts.                                           *)
EXTENDS CtrlSession

CONSTANTS a0, a1, a2

MCAddr == [m \in 0 .. 2 |-> IF m = 0 THEN a0 ELSE IF m = 1 THEN a1 ELSE a2]
================================================================================
