----------------------------- MODULE WritePipeline -----------------------------
(***************************************************************************)
(* The write helper driven by its connection: PleaseWrite messages ask for *)
(* reads, PostWriteRequest takes pieces away in buffers, FreeBufferPair    *)
(* messages bring the buffers back.  All of it runs on the thread of the   *)
(* connection's poller, so a message is handled only when the loop of the  *)
(* previous one has ended; messages arrive in any order, and buffers come  *)
(* back in any order (the real connection returns them in the order they   *)
(* left, which is one of these).                                           *)
(***************************************************************************)
EXTENDS WriteHelper, Functions

CONSTANT NoPiece

ASSUME WritePipelineAssumption ==
  /\ \A k \in Read : Bytes[k] > 0
  /\ NoPiece \notin [read : Read, offset : Nat, bytes : Nat]

VARIABLES asked,         \* asked[m]: the reads m has been asked for
          outstanding    \* outstanding[m][b]: the piece buffer b carries

env_vars == <<asked, outstanding>>
vars == <<helper_vars, env_vars>>

Piece == [read : Read, offset : Nat, bytes : Nat]

Init == /\ HelperInit
        /\ asked = [m \in Machine |-> {}]
        /\ outstanding = [m \in Machine |-> [b \in Buffer |-> NoPiece]]

\* RecvDone, kPleaseWrite: each read is asked for once.
RecvPleaseWrite(m, k) ==
  /\ k \notin asked[m]
  /\ asked' = [asked EXCEPT ![m] = @ \cup {k}]
  /\ AsyncWrite(m, WorkRecord(k, 0))
  /\ UNCHANGED outstanding

\* RecvDone, kFreeBufferPair: the reader has copied the piece out.
RecvFreeBufferPair(m, b) ==
  /\ outstanding[m][b] # NoPiece
  /\ outstanding' = [outstanding EXCEPT ![m][b] = NoPiece]
  /\ FreeBuffer(m, b)
  /\ UNCHANGED asked

\* DoCurWrite with the PostWriteRequest it ends in.
WritePiece(m) ==
  /\ DoCurWrite(m)
  /\ outstanding' = [outstanding EXCEPT ![m][buffer_id[m]] = CurPiece(m)]
  /\ UNCHANGED asked

NextHandle(m) == \/ InitWriteHandle(m) /\ UNCHANGED env_vars
                 \/ RequestBuffer(m) /\ UNCHANGED env_vars
                 \/ WritePiece(m)

Next == \E m \in Machine :
          \/ \E k \in Read : RecvPleaseWrite(m, k)
          \/ \E b \in Buffer : RecvFreeBufferPair(m, b)
          \/ NextHandle(m)

Spec == Init /\ [][Next]_vars

\* The loop is a while on a live thread; a reader that lives frees every
\* buffer it has copied.
FairSpec == /\ Spec
            /\ \A m \in Machine :
                 /\ WF_vars(NextHandle(m))
                 /\ \A b \in Buffer : SF_vars(RecvFreeBufferPair(m, b))
--------------------------------------------------------------------------------
\* Types.  cur_record and buffer_id mean something only once they are assigned.
TypeOK ==
  /\ pending_record_queue \in [Machine -> Seq(Record)]
  /\ cur_record_queue \in [Machine -> Seq(Record)]
  /\ idle_buffer_queue \in [Machine -> Seq(Buffer)]
  /\ cur_write_handle \in [Machine -> Handle]
  /\ cur_record \in [Machine -> Record \cup {NoRecord}]
  /\ buffer_id \in [Machine -> Buffer \cup {NoBuffer}]
  /\ writing \in [Machine -> BOOLEAN]
  /\ asked \in [Machine -> SUBSET Read]
  /\ outstanding \in [Machine -> [Buffer -> Piece \cup {NoPiece}]]

Held(m) == IF cur_write_handle[m] = "DoCurWrite" THEN {buffer_id[m]} ELSE {}
Out(m) == {b \in Buffer : outstanding[m][b] # NoPiece}

\* Every buffer is in exactly one place - once in the idle queue, taken for
\* the piece being cut, or carrying a piece the reader has not copied - so
\* none is filled while its content is still needed, and none is lost.
BufferOwnership ==
  \A m \in Machine :
    LET idle == Range(idle_buffer_queue[m]) IN
      /\ IsInjective(idle_buffer_queue[m])
      /\ idle \cap Out(m) = {}
      /\ Held(m) \cap (idle \cup Out(m)) = {}
      /\ idle \cup Held(m) \cup Out(m) = Buffer

\* No wake-up is lost: when the loop has ended and some record is not written
\* to its end, every buffer is out, so a FreeBufferPair that restarts the loop
\* is still to come.
NoLostWakeup ==
  \A m \in Machine :
    /\ ~writing[m]
    /\ \/ cur_write_handle[m] # "InitWriteHandle"
       \/ cur_record_queue[m] # <<>>
       \/ pending_record_queue[m] # <<>>
    => Out(m) = Buffer

\* What is still to be cut: the rest of the current record, then the current
\* queue, then the pending one.
InHand(m) == IF cur_write_handle[m] = "InitWriteHandle" THEN <<>>
                                                        ELSE <<cur_record[m]>>
ToWrite == [m \in Machine |-> InHand(m) \o cur_record_queue[m]
                                        \o pending_record_queue[m]]

Stream == INSTANCE PieceStream WITH todo <- ToWrite

\* The helper implements the stream of pieces: contiguous, in the order asked
\* for, each in a buffer that nothing else is in.
StreamRefinement == Stream!Spec

\* Every read that is asked for is written to its last byte.
EveryReadWritten ==
  \A m \in Machine, k \in Read :
    k \in asked[m] ~> \A i \in DOMAIN ToWrite[m] : ToWrite[m][i].read # k

\* It never rests with a piece to write and a buffer idle: the loop runs on, or
\* the next AsyncWrite or FreeBuffer starts it.
StreamProgress == Stream!Fairness /\ EveryReadWritten
================================================================================
