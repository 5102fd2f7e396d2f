----------------------------- MODULE MCReadTransfer -----------------------------
(* Two machines; r1 fills several pieces, r2 follows it, r3 goes the other way. *)
EXTENDS ReadTransfer

CONSTANTS m0, m1, r1, r2, r3

MCBytes == [k \in Read |-> CASE k = r1 -> 5 [] k = r2 -> 1 [] k = r3 -> 3]
MCSource == [k \in Read |-> IF k = r3 THEN m1 ELSE m0]
================================================================================
