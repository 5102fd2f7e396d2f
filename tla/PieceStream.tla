------------------------------ MODULE PieceStream ------------------------------
(***************************************************************************)
(* What the writing side of one connection promises to the reading side,   *)
(* without the queues, the handles and the poller that implement it: the   *)
(* requested reads are cut into pieces of at most BufferBytes, the pieces  *)
(* of a read are contiguous, leave in increasing order, reads never        *)
(* overtake each other, and a piece only ever leaves in a buffer that      *)
(* carries no other piece.  A remaining request and a free buffer are      *)
(* enough for the next piece to leave.                                     *)
(***************************************************************************)
EXTENDS Integers, Sequences

CONSTANTS Machine,      \* the machines that write (one helper each)
          Read,         \* the reads a peer may ask for
          Bytes,        \* Bytes[k]: how many bytes read k moves
          BufferBytes,  \* capacity of one registered buffer
          Buffer,       \* ids of the registered buffers
          NoPiece       \* "this buffer carries nothing"

VARIABLES todo,         \* todo[m]: what is still to be cut, oldest first
          outstanding   \* outstanding[m][b]: the piece buffer b carries

vars == <<todo, outstanding>>

Lesser(a, b) == IF a < b THEN a ELSE b

Record(k, o) == [read |-> k, offset |-> o]

PieceOf(r) == [read |-> r.read, offset |-> r.offset,
               bytes |-> Lesser(Bytes[r.read] - r.offset, BufferBytes)]

\* What is left of a request once the piece at its offset has left.
AfterPiece(r) == [r EXCEPT !.offset = @ + PieceOf(r).bytes]

Finished(r) == r.offset >= Bytes[r.read]

Init == /\ todo = [m \in Machine |-> <<>>]
        /\ outstanding = [m \in Machine |-> [b \in Buffer |-> NoPiece]]

Ask(m, k) == /\ todo' = [todo EXCEPT ![m] = Append(@, Record(k, 0))]
             /\ UNCHANGED outstanding

Emit(m, b) ==
  /\ todo[m] # <<>>
  /\ outstanding[m][b] = NoPiece
  /\ outstanding' = [outstanding EXCEPT ![m][b] = PieceOf(Head(todo[m]))]
  /\ LET rest == AfterPiece(Head(todo[m])) IN
       todo' = [todo EXCEPT ![m] = IF Finished(rest) THEN Tail(@)
                                                     ELSE <<rest>> \o Tail(@)]

Return(m, b) == /\ outstanding[m][b] # NoPiece
                /\ outstanding' = [outstanding EXCEPT ![m][b] = NoPiece]
                /\ UNCHANGED todo

Next == \E m \in Machine : \/ \E k \in Read : Ask(m, k)
                           \/ \E b \in Buffer : Emit(m, b) \/ Return(m, b)

Spec == Init /\ [][Next]_vars

\* A machine with pieces to write and a free buffer writes.
Fairness == \A m \in Machine : WF_vars(\E b \in Buffer : Emit(m, b))

FairSpec == Spec /\ Fairness
================================================================================
