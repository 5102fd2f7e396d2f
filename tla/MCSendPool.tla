------------------------------- MODULE MCSendPool -------------------------------
(* Three callers at a time; the callback of s1 sends r1; one piece of two      *)
(* elements.                                                                   *)
EXTENDS SendPool

CONSTANTS s1, s2, s3, r1, w1

MCReply == [m \in HasCallback |-> IF m = s1 THEN {r1} ELSE {}]
MCElements == [w \in Piece |-> 2]
================================================================================
