---------------------------- MODULE MCWritePipeline ----------------------------
(* Reads of one, one full and several pieces, in buffers of two units; four   *)
(* of them, so that one can be pending while another waits in the current     *)
(* queue behind the record in hand.                                           *)
EXTENDS WritePipeline, TLC

CONSTANTS r1, r2, r3, r4

MCBytes == r1 :> 5 @@ r2 :> 1 @@ r3 :> 2 @@ r4 :> 1
================================================================================
