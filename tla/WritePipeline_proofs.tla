-------------------------- MODULE WritePipeline_proofs --------------------------
(***************************************************************************)
(* Proofs about the write helper, for every set of machines and reads and  *)
(* every size and number of buffers.  The argument is layered: the types   *)
(* and what a handle may count on (TypeInv), then where the buffers are    *)
(* (BufferOwnership), then when the loop may have ended (Parked), each an  *)
(* inductive invariant on top of the previous ones, and last the step by   *)
(* step implementation of PieceStream.                                     *)
(***************************************************************************)
EXTENDS WritePipeline, SequenceTheorems, TLAPS

\* What the handle about to be called counts on: a record in hand has bytes
\* left, a buffer is taken only inside the loop, and queued records are new.
HandleOK ==
  \A m \in Machine :
    /\ cur_write_handle[m] # "InitWriteHandle" =>
         /\ cur_record[m] \in Record
         /\ cur_record[m].offset < Bytes[cur_record[m].read]
    /\ cur_write_handle[m] = "DoCurWrite" => buffer_id[m] \in Buffer /\ writing[m]
    /\ \A i \in DOMAIN pending_record_queue[m] : pending_record_queue[m][i].offset = 0
    /\ \A i \in DOMAIN cur_record_queue[m] : cur_record_queue[m][i].offset = 0

TypeInv == TypeOK /\ HandleOK

\* The loop ends for lack of a buffer or for lack of records, and for nothing
\* else.
Parked ==
  \A m \in Machine :
    ~writing[m] =>
      \/ cur_write_handle[m] = "RequestBuffer" /\ idle_buffer_queue[m] = <<>>
      \/ /\ cur_write_handle[m] = "InitWriteHandle"
         /\ cur_record_queue[m] = <<>>
         /\ pending_record_queue[m] = <<>>

--------------------------------------------------------------------------------
\* What a piece moves: at least one byte, and never past the end of the read.
LEMMA TransferBytesBounds ==
  ASSUME NEW r \in Record, r.offset < Bytes[r.read]
  PROVE  /\ TransferBytes(r) \in Nat \ {0}
         /\ TransferBytes(r) <= BufferBytes
         /\ r.offset + TransferBytes(r) <= Bytes[r.read]
  <1>1. r.offset \in Nat /\ Bytes[r.read] \in Nat /\ BufferBytes \in Nat \ {0}
    BY WriteHelperAssumption DEF Record
  <1> QED BY <1>1 DEF TransferBytes, Lesser

\* The initial idle queue holds each buffer once.
LEMMA InitialIdleQueue ==
  LET q == [i \in 1 .. RegisterBufferNum |-> i - 1]
  IN  q \in Seq(Buffer) /\ IsInjective(q) /\ Range(q) = Buffer
  <1> DEFINE q == [i \in 1 .. RegisterBufferNum |-> i - 1]
  <1>1. RegisterBufferNum \in Nat
    BY WriteHelperAssumption
  <1>2. q \in [1 .. RegisterBufferNum -> Buffer]
    BY <1>1 DEF Buffer
  <1>3. q \in Seq(Buffer)
    BY <1>1, <1>2, SeqDef
  <1>4. IsInjective(q)
    BY <1>1 DEF IsInjective
  <1>5. ASSUME NEW b \in Buffer PROVE b \in Range(q)
    <2>1. b + 1 \in 1 .. RegisterBufferNum /\ q[b + 1] = b
      BY <1>1 DEF Buffer
    <2> QED BY <2>1 DEF Range
  <1>6. Range(q) \subseteq Buffer
    BY <1>2 DEF Range
  <1> QED BY <1>3, <1>4, <1>5, <1>6

\* Returning a buffer that is not in a queue keeps the queue without repeats.
LEMMA AppendOnce ==
  ASSUME NEW S, NEW q \in Seq(S), NEW x \in S,
         IsInjective(q), x \notin Range(q)
  PROVE  /\ IsInjective(Append(q, x))
         /\ Range(Append(q, x)) = Range(q) \cup {x}
  <1> DEFINE r == Append(q, x)
  <1>1. /\ Len(q) \in Nat
        /\ DOMAIN q = 1 .. Len(q)
        /\ DOMAIN r = 1 .. Len(q) + 1
        /\ \A i \in 1 .. Len(q) : r[i] = q[i]
        /\ r[Len(q) + 1] = x
    BY AppendProperties
  <1> HIDE DEF r
  <1>2. IsInjective(r)
    <2> SUFFICES ASSUME NEW i \in DOMAIN r, NEW j \in DOMAIN r, r[i] = r[j]
                 PROVE  i = j
      BY DEF IsInjective
    <2>1. \A k \in 1 .. Len(q) : q[k] # x
      BY <1>1 DEF Range
    <2>2. CASE i \in 1 .. Len(q) /\ j \in 1 .. Len(q)
      BY <2>2, <1>1 DEF IsInjective
    <2>3. CASE i = Len(q) + 1 /\ j \in 1 .. Len(q)
      BY <2>3, <2>1, <1>1
    <2>4. CASE i \in 1 .. Len(q) /\ j = Len(q) + 1
      BY <2>4, <2>1, <1>1
    <2>5. \A k \in DOMAIN r : k \in 1 .. Len(q) \/ k = Len(q) + 1
      BY <1>1
    <2> QED BY <2>2, <2>3, <2>4, <2>5
  <1>3. Range(r) \subseteq Range(q) \cup {x}
    BY <1>1 DEF Range
  <1>4. Range(q) \subseteq Range(r)
    BY <1>1 DEF Range
  <1>5. x \in Range(r)
    BY <1>1 DEF Range
  <1> QED BY <1>2, <1>3, <1>4, <1>5 DEF r

\* Taking the head of a queue without repeats leaves a queue without it.
LEMMA TakeOnce ==
  ASSUME NEW S, NEW q \in Seq(S), q # <<>>, IsInjective(q)
  PROVE  /\ IsInjective(Tail(q))
         /\ Head(q) \in Range(q)
         /\ Range(Tail(q)) = Range(q) \ {Head(q)}
  <1> DEFINE t == Tail(q)
             h == Head(q)
  <1>1. /\ Len(q) \in Nat \ {0}
        /\ DOMAIN q = 1 .. Len(q)
        /\ DOMAIN t = 1 .. Len(q) - 1
        /\ \A i \in 1 .. Len(q) - 1 : t[i] = q[i + 1]
        /\ h = q[1]
    BY HeadTailProperties, EmptySeq, LenProperties
  <1> HIDE DEF t, h
  <1>2. IsInjective(t)
    BY <1>1 DEF IsInjective
  <1>3. h \in Range(q)
    BY <1>1 DEF Range
  <1>4. Range(t) \subseteq Range(q) \ {h}
    BY <1>1 DEF Range, IsInjective
  <1>5. ASSUME NEW y \in Range(q), y # h PROVE y \in Range(t)
    <2>1. PICK i \in 1 .. Len(q) : q[i] = y
      BY <1>1 DEF Range
    <2>2. i - 1 \in 1 .. Len(q) - 1 /\ t[i - 1] = y
      BY <2>1, <1>1, <1>5
    <2> QED BY <2>2, <1>1 DEF Range
  <1> QED BY <1>2, <1>3, <1>4, <1>5 DEF t, h
--------------------------------------------------------------------------------
\* The first layer: types and what the handles count on.
LEMMA TypeInvInit == Init => TypeInv
  <1> SUFFICES ASSUME Init PROVE TypeInv
    OBVIOUS
  <1> USE DEF Init, HelperInit, IdleBuffers
  <1>1. \A m \in Machine : idle_buffer_queue[m] \in Seq(Buffer)
    BY InitialIdleQueue
  <1>2. idle_buffer_queue \in [Machine -> Seq(Buffer)]
    BY <1>1
  <1>3. /\ pending_record_queue \in [Machine -> Seq(Record)]
        /\ cur_record_queue \in [Machine -> Seq(Record)]
    OBVIOUS
  <1>4. outstanding \in [Machine -> [Buffer -> Piece \cup {NoPiece}]]
    OBVIOUS
  <1>5. TypeOK
    BY <1>2, <1>3, <1>4 DEF TypeOK, Handle
  <1>6. HandleOK
    <2>1. \A m \in Machine : /\ cur_write_handle[m] = "InitWriteHandle"
                             /\ pending_record_queue[m] = <<>>
                             /\ cur_record_queue[m] = <<>>
      OBVIOUS
    <2>2. DOMAIN <<>> = {}
      OBVIOUS
    <2> QED BY <2>1, <2>2 DEF HandleOK
  <1> QED BY <1>5, <1>6 DEF TypeInv

LEMMA TypeInvNext == TypeInv /\ [Next]_vars => TypeInv'
  <1> SUFFICES ASSUME TypeInv, [Next]_vars PROVE TypeInv'
    OBVIOUS
  <1> USE DEF TypeInv, Handle
  <1>1. ASSUME NEW m \in Machine, NEW k \in Read, RecvPleaseWrite(m, k)
        PROVE  TypeInv'
    <2> USE DEF RecvPleaseWrite, AsyncWrite, StartWriting, WorkRecord
    <2>1. WorkRecord(k, 0) \in Record
      BY DEF Record
    <2>2. TypeOK'
      BY <1>1, <2>1 DEF TypeOK
    <2>3. \A i \in DOMAIN pending_record_queue'[m] : pending_record_queue'[m][i].offset = 0
      <3> DEFINE p == pending_record_queue[m]
      <3>1. p \in Seq(Record) /\ pending_record_queue'[m] = Append(p, WorkRecord(k, 0))
        BY <1>1 DEF TypeOK
      <3>2. \A i \in DOMAIN p : p[i].offset = 0
        BY DEF HandleOK
      <3> HIDE DEF p
      <3> QED BY <2>1, <3>1, <3>2, AppendProperties
    <2>4. \A n \in Machine : n # m => pending_record_queue'[n] = pending_record_queue[n]
      BY <1>1 DEF TypeOK
    <2>5. HandleOK'
      BY <1>1, <2>3, <2>4 DEF TypeOK, HandleOK
    <2> QED BY <2>2, <2>5
  <1>2. ASSUME NEW m \in Machine, NEW b \in Buffer, RecvFreeBufferPair(m, b)
        PROVE  TypeInv'
    <2> USE DEF RecvFreeBufferPair, FreeBuffer, StartWriting, queues
    <2>1. TypeOK'
      BY <1>2 DEF TypeOK
    <2>2. HandleOK'
      BY <1>2 DEF TypeOK, HandleOK
    <2> QED BY <2>1, <2>2
  <1>3. ASSUME NEW m \in Machine, InitWriteHandle(m), UNCHANGED env_vars
        PROVE  TypeInv'
    <2> DEFINE swap == cur_record_queue[m] = <<>>
               cur  == IF swap THEN pending_record_queue[m] ELSE cur_record_queue[m]
    <2>1. CASE cur = <<>>
      <3>1. /\ UNCHANGED <<queues, cur_write_handle, cur_record, idle_buffer_queue,
                           buffer_id, env_vars>>
            /\ StopWriting(m)
            /\ cur_write_handle[m] = "InitWriteHandle"
        BY <1>3, <2>1 DEF InitWriteHandle, SwapQueues
      <3> QED BY <3>1 DEF queues, env_vars, StopWriting, TypeOK, HandleOK
    <2>2. CASE cur # <<>>
      <3>1. /\ cur_record' = [cur_record EXCEPT ![m] = Head(cur)]
            /\ cur_record_queue' = [cur_record_queue EXCEPT ![m] = Tail(cur)]
            /\ pending_record_queue' =
                 [pending_record_queue EXCEPT ![m] = IF swap THEN <<>> ELSE @]
            /\ cur_write_handle' = [cur_write_handle EXCEPT ![m] = "RequestBuffer"]
            /\ UNCHANGED <<writing, idle_buffer_queue, buffer_id, asked, outstanding>>
        BY <1>3, <2>2 DEF InitWriteHandle, SwapQueues, env_vars
      <3>2. cur \in Seq(Record) /\ \A i \in DOMAIN cur : cur[i].offset = 0
        BY DEF TypeOK, HandleOK
      <3> HIDE DEF cur
      <3>3. /\ Head(cur) \in Record /\ Tail(cur) \in Seq(Record)
            /\ Head(cur).offset = 0
            /\ \A i \in DOMAIN Tail(cur) : Tail(cur)[i].offset = 0
        BY <2>2, <3>2, HeadTailProperties, EmptySeq, LenProperties
      <3>4. Bytes[Head(cur).read] > 0
        BY <3>3, WritePipelineAssumption DEF Record
      <3>5. TypeOK'
        BY <3>1, <3>3 DEF TypeOK
      <3>6. HandleOK'
        BY <3>1, <3>3, <3>4 DEF TypeOK, HandleOK
      <3> QED BY <3>5, <3>6
    <2> QED BY <2>1, <2>2
  <1>4. ASSUME NEW m \in Machine, RequestBuffer(m), UNCHANGED env_vars
        PROVE  TypeInv'
    <2> USE DEF RequestBuffer, StopWriting, queues, env_vars
    <2>1. CASE idle_buffer_queue[m] = <<>>
      BY <1>4, <2>1 DEF TypeOK, HandleOK
    <2>2. CASE idle_buffer_queue[m] # <<>>
      <3>1. /\ Head(idle_buffer_queue[m]) \in Buffer
            /\ Tail(idle_buffer_queue[m]) \in Seq(Buffer)
        BY <2>2, HeadTailProperties DEF TypeOK
      <3>2. /\ buffer_id' = [buffer_id EXCEPT ![m] = Head(idle_buffer_queue[m])]
            /\ idle_buffer_queue' = [idle_buffer_queue EXCEPT ![m] = Tail(@)]
            /\ cur_write_handle' = [cur_write_handle EXCEPT ![m] = "DoCurWrite"]
            /\ writing[m]
            /\ UNCHANGED <<pending_record_queue, cur_record_queue, cur_record, writing,
                           asked, outstanding>>
        BY <1>4, <2>2
      <3>3. TypeOK'
        BY <3>1, <3>2 DEF TypeOK, Handle
      <3>4. HandleOK'
        BY <1>4, <3>1, <3>2 DEF TypeOK, HandleOK
      <3> QED BY <3>3, <3>4
    <2> QED BY <2>1, <2>2
  <1>5. ASSUME NEW m \in Machine, WritePiece(m)
        PROVE  TypeInv'
    <2> USE DEF WritePiece, DoCurWrite, HandleAfter, queues
    <2>1. /\ cur_record[m] \in Record
          /\ cur_record[m].offset < Bytes[cur_record[m].read]
          /\ buffer_id[m] \in Buffer
      BY <1>5 DEF HandleOK
    <2>2. /\ TransferBytes(cur_record[m]) \in Nat
          /\ cur_record[m].offset + TransferBytes(cur_record[m]) \in Nat
          /\ cur_record[m].read \in Read
          /\ cur_record[m].offset \in Nat
      BY <2>1, TransferBytesBounds DEF Record
    <2>3. CurPiece(m) \in Piece
      BY <2>2 DEF CurPiece, Piece
    <2>4. cur_record'[m] = [read |-> cur_record[m].read,
             offset |-> cur_record[m].offset + TransferBytes(cur_record[m])]
      BY <1>5, <2>1 DEF TypeOK, Record
    <2>5. cur_record' \in [Machine -> Record \cup {NoRecord}]
      BY <1>5, <2>2, <2>4 DEF TypeOK, Record
    <2>6. TypeOK'
      BY <1>5, <2>3, <2>5 DEF TypeOK
    <2>7. HandleOK'
      BY <1>5, <2>1, <2>2, <2>4 DEF TypeOK, HandleOK, Record
    <2> QED BY <2>6, <2>7
  <1>6. CASE UNCHANGED vars
    BY <1>6 DEF vars, helper_vars, queues, env_vars, TypeOK, HandleOK
  <1> QED BY <1>1, <1>2, <1>3, <1>4, <1>5, <1>6 DEF Next, NextHandle

\* The helper's variables always hold values of their types, and every handle
\* finds what it counts on.
LEMMA TypeInvariant == Spec => []TypeInv
  <1> QED BY TypeInvInit, TypeInvNext, PTL DEF Spec

\* Every reachable state of the helper, for any number of machines, reads and
\* buffers, has the types of the C++ declarations.
THEOREM TypeCorrect == Spec => []TypeOK
  <1>1. TypeInv => TypeOK
    BY DEF TypeInv
  <1> QED BY <1>1, TypeInvariant, PTL
--------------------------------------------------------------------------------
\* The second layer: where the buffers are.
Owned(m) == LET idle == Range(idle_buffer_queue[m]) IN
              /\ IsInjective(idle_buffer_queue[m])
              /\ idle \cap Out(m) = {}
              /\ Held(m) \cap (idle \cup Out(m)) = {}
              /\ idle \cup Held(m) \cup Out(m) = Buffer

LEMMA OwnershipInit == Init => BufferOwnership
  <1> SUFFICES ASSUME Init, NEW m \in Machine PROVE Owned(m)
    BY DEF BufferOwnership, Owned
  <1>1. Out(m) = {} /\ Held(m) = {}
    BY DEF Init, HelperInit, IdleBuffers, Out, Held
  <1>2. idle_buffer_queue[m] = [i \in 1 .. RegisterBufferNum |-> i - 1]
    BY DEF Init, HelperInit, IdleBuffers
  <1> QED BY <1>1, <1>2, InitialIdleQueue DEF Owned

LEMMA OwnershipNext == TypeInv /\ BufferOwnership /\ [Next]_vars => BufferOwnership'
  <1> SUFFICES ASSUME TypeInv, [Next]_vars, NEW n \in Machine, Owned(n)
               PROVE  Owned(n)'
    BY DEF BufferOwnership, Owned
  <1> USE DEF TypeInv
  <1>1. ASSUME NEW m \in Machine, NEW k \in Read, RecvPleaseWrite(m, k)
        PROVE  Owned(n)'
    BY <1>1 DEF RecvPleaseWrite, AsyncWrite, Owned, Out, Held
  <1>2. ASSUME NEW m \in Machine, NEW b \in Buffer, RecvFreeBufferPair(m, b)
        PROVE  Owned(n)'
    <2> USE DEF RecvFreeBufferPair, FreeBuffer, queues
    <2>1. CASE n # m
      BY <1>2, <2>1 DEF Owned, Out, Held, TypeOK
    <2>2. CASE n = m
      <3>1. idle_buffer_queue[m] \in Seq(Buffer) /\ b \in Out(m)
        BY <1>2 DEF TypeOK, Out
      <3>2. idle_buffer_queue'[m] = Append(idle_buffer_queue[m], b)
        BY <1>2 DEF TypeOK
      <3>3. /\ IsInjective(idle_buffer_queue'[m])
            /\ Range(idle_buffer_queue'[m]) = Range(idle_buffer_queue[m]) \cup {b}
        BY <2>2, <3>1, <3>2, AppendOnce DEF Owned
      <3>4. Out(m)' = Out(m) \ {b}
        BY <1>2 DEF Out, TypeOK
      <3>5. Held(m)' = Held(m)
        BY <1>2 DEF Held
      <3> QED BY <2>2, <3>1, <3>3, <3>4, <3>5 DEF Owned
    <2> QED BY <2>1, <2>2
  <1>3. ASSUME NEW m \in Machine, InitWriteHandle(m), UNCHANGED env_vars
        PROVE  Owned(n)'
    <2>1. UNCHANGED <<idle_buffer_queue, buffer_id, outstanding>>
      BY <1>3 DEF InitWriteHandle, SwapQueues, env_vars
    <2>2. /\ cur_write_handle[m] = "InitWriteHandle"
          /\ \/ cur_write_handle' = cur_write_handle
             \/ cur_write_handle' = [cur_write_handle EXCEPT ![m] = "RequestBuffer"]
      BY <1>3 DEF InitWriteHandle, SwapQueues
    <2>3. Held(n)' = Held(n)
      BY <2>1, <2>2 DEF Held, TypeOK
    <2> QED BY <2>1, <2>3 DEF Owned, Out
  <1>4. ASSUME NEW m \in Machine, RequestBuffer(m), UNCHANGED env_vars
        PROVE  Owned(n)'
    <2> USE DEF RequestBuffer, env_vars
    <2>1. CASE n # m \/ idle_buffer_queue[m] = <<>>
      BY <1>4, <2>1 DEF Owned, Out, Held, TypeOK
    <2>2. CASE n = m /\ idle_buffer_queue[m] # <<>>
      <3>1. idle_buffer_queue[m] \in Seq(Buffer)
        BY DEF TypeOK
      <3>2. /\ idle_buffer_queue'[m] = Tail(idle_buffer_queue[m])
            /\ buffer_id'[m] = Head(idle_buffer_queue[m])
            /\ cur_write_handle'[m] = "DoCurWrite"
            /\ cur_write_handle[m] = "RequestBuffer"
        BY <1>4, <2>2 DEF TypeOK
      <3>3. /\ IsInjective(idle_buffer_queue'[m])
            /\ Head(idle_buffer_queue[m]) \in Range(idle_buffer_queue[m])
            /\ Range(idle_buffer_queue'[m])
                 = Range(idle_buffer_queue[m]) \ {Head(idle_buffer_queue[m])}
        BY <2>2, <3>1, <3>2, TakeOnce DEF Owned
      <3>4. /\ Held(m) = {}
            /\ Held(m)' = {Head(idle_buffer_queue[m])}
            /\ Out(m)' = Out(m)
        BY <1>4, <3>2 DEF Held, Out
      <3> QED BY <2>2, <3>3, <3>4 DEF Owned
    <2> QED BY <2>1, <2>2
  <1>5. ASSUME NEW m \in Machine, WritePiece(m)
        PROVE  Owned(n)'
    <2> USE DEF WritePiece, DoCurWrite, HandleAfter
    <2>1. CASE n # m
      BY <1>5, <2>1 DEF Owned, Out, Held, TypeOK
    <2>2. CASE n = m
      <3>1. buffer_id[m] \in Buffer /\ cur_record[m] \in Record
        BY <1>5 DEF HandleOK
      <3>2. CurPiece(m) # NoPiece
        <4>1. CurPiece(m) \in [read : Read, offset : Nat, bytes : Nat]
          BY <1>5, <3>1, TransferBytesBounds DEF CurPiece, HandleOK, Record
        <4> QED BY <4>1, WritePipelineAssumption
      <3>3. Out(m)' = Out(m) \cup {buffer_id[m]}
        BY <1>5, <3>1, <3>2 DEF Out, TypeOK
      <3>4. Held(m) = {buffer_id[m]} /\ Held(m)' = {}
        BY <1>5 DEF Held, TypeOK
      <3>5. idle_buffer_queue' = idle_buffer_queue
        BY <1>5
      <3> QED BY <2>2, <3>1, <3>3, <3>4, <3>5 DEF Owned
    <2> QED BY <2>1, <2>2
  <1>6. CASE UNCHANGED vars
    BY <1>6 DEF vars, helper_vars, env_vars, Owned, Out, Held
  <1> QED BY <1>1, <1>2, <1>3, <1>4, <1>5, <1>6 DEF Next, NextHandle

\* A registered buffer is never filled while the reader may still copy from
\* it, and none is lost, whatever the order in which they come back.
THEOREM BuffersOwned == Spec => []BufferOwnership
  <1> QED BY TypeInvariant, OwnershipInit, OwnershipNext, PTL DEF Spec
--------------------------------------------------------------------------------
\* The third layer: why the loop may have ended.
LEMMA ParkedInit == Init => Parked
  BY DEF Init, HelperInit, IdleBuffers, Parked

LEMMA ParkedNext == TypeInv /\ Parked /\ [Next]_vars => Parked'
  <1> SUFFICES ASSUME TypeInv, Parked, [Next]_vars PROVE Parked'
    OBVIOUS
  <1> USE DEF TypeInv, Parked
  \* A push onto a queue that was not empty leaves the helper waiting for a
  \* buffer; onto an empty one it starts the loop.
  <1>1. ASSUME NEW m \in Machine, NEW k \in Read, RecvPleaseWrite(m, k)
        PROVE  Parked'
    BY <1>1 DEF RecvPleaseWrite, AsyncWrite, StartWriting, TypeOK
  <1>2. ASSUME NEW m \in Machine, NEW b \in Buffer, RecvFreeBufferPair(m, b)
        PROVE  Parked'
    BY <1>2 DEF RecvFreeBufferPair, FreeBuffer, StartWriting, queues, TypeOK
  <1>3. ASSUME NEW m \in Machine, InitWriteHandle(m)
        PROVE  Parked'
    BY <1>3 DEF InitWriteHandle, SwapQueues, StopWriting, queues, TypeOK
  <1>4. ASSUME NEW m \in Machine, RequestBuffer(m)
        PROVE  Parked'
    BY <1>4 DEF RequestBuffer, StopWriting, queues, TypeOK
  <1>5. ASSUME NEW m \in Machine, WritePiece(m)
        PROVE  Parked'
    BY <1>5 DEF WritePiece, DoCurWrite, HandleAfter, queues, TypeOK
  <1>6. CASE UNCHANGED vars
    BY <1>6 DEF vars, helper_vars
  <1> QED BY <1>1, <1>2, <1>3, <1>4, <1>5, <1>6 DEF Next, NextHandle

LEMMA ParkedNoLostWakeup == TypeInv /\ BufferOwnership /\ Parked => NoLostWakeup
  <1> SUFFICES ASSUME TypeInv, BufferOwnership, Parked, NEW m \in Machine, ~writing[m],
                      \/ cur_write_handle[m] # "InitWriteHandle"
                      \/ cur_record_queue[m] # <<>>
                      \/ pending_record_queue[m] # <<>>
               PROVE  Out(m) = Buffer
    BY DEF NoLostWakeup
  <1>1. cur_write_handle[m] = "RequestBuffer" /\ idle_buffer_queue[m] = <<>>
    BY DEF Parked
  <1>2. Range(idle_buffer_queue[m]) = {} /\ Held(m) = {}
    BY <1>1 DEF Range, Held
  <1> QED BY <1>2 DEF BufferOwnership

\* No wake-up is lost: a helper that sleeps with work left has every buffer
\* out, so a FreeBufferPair that wakes it is on its way.
THEOREM NoWakeupLost == Spec => []NoLostWakeup
  <1>1. Spec => []Parked
    BY TypeInvariant, ParkedInit, ParkedNext, PTL DEF Spec
  <1> QED BY <1>1, TypeInvariant, BuffersOwned, ParkedNoLostWakeup, PTL
--------------------------------------------------------------------------------
\* Sequences of what is left to cut: an append goes to the far end of the
\* three parts, and the first element of a non-empty part is the first of all.
LEMMA AppendToParts ==
  ASSUME NEW S, NEW s \in Seq(S), NEW t \in Seq(S), NEW u \in Seq(S), NEW x \in S
  PROVE  s \o t \o Append(u, x) = Append(s \o t \o u, x)
  <1>1. <<x>> \in Seq(S)
    OBVIOUS
  <1>2. s \o t \in Seq(S) /\ s \o t \o u \in Seq(S)
    BY ConcatProperties
  <1>3. Append(u, x) = u \o <<x>> /\ Append(s \o t \o u, x) = (s \o t \o u) \o <<x>>
    BY <1>2, AppendIsConcat
  <1> QED BY <1>1, <1>2, <1>3, ConcatAssociative

LEMMA HeadAndTail ==
  ASSUME NEW S, NEW s \in Seq(S), s # <<>>
  PROVE  <<Head(s)>> \o Tail(s) = s
  <1> DEFINE r == <<Head(s)>> \o Tail(s)
  <1>1. /\ Head(s) \in S /\ Tail(s) \in Seq(S) /\ Head(s) = s[1]
        /\ Len(s) \in Nat \ {0}
        /\ Len(Tail(s)) = Len(s) - 1
        /\ \A i \in 1 .. Len(Tail(s)) : Tail(s)[i] = s[i + 1]
    BY HeadTailProperties, EmptySeq
  <1>2. <<Head(s)>> \in Seq(S) /\ Len(<<Head(s)>>) = 1 /\ <<Head(s)>>[1] = s[1]
    BY <1>1
  <1>3. /\ r \in Seq(S) /\ Len(r) = Len(s)
        /\ \A i \in 1 .. Len(r) : r[i] = IF i <= 1 THEN s[1] ELSE Tail(s)[i - 1]
    BY <1>1, <1>2, ConcatProperties
  <1> HIDE DEF r
  <1>4. \A i \in 1 .. Len(r) : r[i] = s[i]
    BY <1>1, <1>3
  <1>5. r = s
    BY <1>3, <1>4, SeqEqual
  <1> QED BY <1>5 DEF r

LEMMA ConsParts ==
  ASSUME NEW S, NEW s \in Seq(S), NEW x \in S
  PROVE  /\ <<x>> \o s \in Seq(S)
         /\ <<x>> \o s # <<>>
         /\ Head(<<x>> \o s) = x
         /\ Tail(<<x>> \o s) = s
  <1> DEFINE r == <<x>> \o s
  <1>1. <<x>> \in Seq(S) /\ Len(<<x>>) = 1 /\ <<x>>[1] = x
    OBVIOUS
  <1>2. Len(s) \in Nat
    BY LenProperties
  <1>3. /\ r \in Seq(S) /\ Len(r) = Len(s) + 1
        /\ \A i \in 1 .. Len(s) + 1 : r[i] = IF i <= 1 THEN x ELSE s[i - 1]
    BY <1>1, <1>2, ConcatProperties
  <1> HIDE DEF r
  <1>4. r # <<>> /\ r[1] = x
    BY <1>2, <1>3, EmptySeq
  <1>5. /\ Head(r) = x /\ Tail(r) \in Seq(S)
        /\ Len(Tail(r)) = Len(s)
        /\ \A i \in 1 .. Len(Tail(r)) : Tail(r)[i] = r[i + 1]
    BY <1>2, <1>3, <1>4, HeadTailProperties
  <1>6. \A i \in 1 .. Len(Tail(r)) : Tail(r)[i] = s[i]
    BY <1>2, <1>3, <1>5
  <1>7. Tail(r) = s
    BY <1>5, <1>6, SeqEqual
  <1> QED BY <1>3, <1>4, <1>5, <1>7 DEF r

LEMMA ConsAssociative ==
  ASSUME NEW S, NEW s \in Seq(S), NEW t \in Seq(S), NEW x \in S
  PROVE  <<x>> \o s \o t = <<x>> \o (s \o t)
  <1>1. <<x>> \in Seq(S)
    OBVIOUS
  <1> QED BY <1>1, ConcatAssociative

LEMMA ToWriteType == TypeInv => /\ ToWrite \in [Machine -> Seq(Record)]
                                /\ \A m \in Machine : InHand(m) \in Seq(Record)
  <1> SUFFICES ASSUME TypeInv, NEW m \in Machine
               PROVE  InHand(m) \in Seq(Record) /\ ToWrite[m] \in Seq(Record)
    BY DEF ToWrite
  <1>1. InHand(m) \in Seq(Record)
    <2>1. CASE cur_write_handle[m] = "InitWriteHandle"
      BY <2>1 DEF InHand
    <2>2. CASE cur_write_handle[m] # "InitWriteHandle"
      BY <2>2 DEF InHand, TypeInv, HandleOK
    <2> QED BY <2>1, <2>2
  <1>2. /\ cur_record_queue[m] \in Seq(Record)
        /\ pending_record_queue[m] \in Seq(Record)
    BY DEF TypeInv, TypeOK
  <1> QED BY <1>1, <1>2, ConcatProperties DEF ToWrite

LEMMA StreamInit == Init => Stream!Init
  <1> SUFFICES ASSUME Init PROVE Stream!Init
    OBVIOUS
  <1>1. ASSUME NEW m \in Machine PROVE ToWrite[m] = <<>>
    BY <<>> \in Seq(Record), ConcatEmptySeq DEF Init, HelperInit, IdleBuffers, ToWrite, InHand
  <1>2. ToWrite = [m \in Machine |-> <<>>]
    BY <1>1 DEF ToWrite
  <1> QED BY <1>2 DEF Init, Stream!Init

\* A machine whose helper only moves records between its queues and its hand
\* leaves the stream as it is.
LEMMA StreamStutter ==
  ASSUME NEW m \in Machine,
         InHand(m)' \o cur_record_queue'[m] \o pending_record_queue'[m]
           = InHand(m) \o cur_record_queue[m] \o pending_record_queue[m],
         \A n \in Machine : n # m =>
            /\ InHand(n)' = InHand(n)
            /\ cur_record_queue'[n] = cur_record_queue[n]
            /\ pending_record_queue'[n] = pending_record_queue[n]
  PROVE  ToWrite' = ToWrite
  <1>1. \A n \in Machine : ToWrite'[n] = ToWrite[n]
    BY DEF ToWrite
  <1> QED BY <1>1 DEF ToWrite

LEMMA StreamNext == TypeInv /\ BufferOwnership /\ [Next]_vars => [Stream!Next]_(Stream!vars)
  <1> SUFFICES ASSUME TypeInv, BufferOwnership, [Next]_vars
               PROVE  [Stream!Next]_(Stream!vars)
    OBVIOUS
  <1> USE DEF TypeInv
  <1>t. /\ ToWrite \in [Machine -> Seq(Record)]
        /\ \A m \in Machine : InHand(m) \in Seq(Record)
    BY ToWriteType
  <1>1. ASSUME NEW m \in Machine, NEW k \in Read, RecvPleaseWrite(m, k)
        PROVE  Stream!Ask(m, k)
    <2> USE DEF RecvPleaseWrite, AsyncWrite
    <2> DEFINE w == WorkRecord(k, 0)
    <2>1. w \in Record /\ w = Stream!Record(k, 0)
      BY DEF WorkRecord, Record, Stream!Record
    <2>2. \A n \in Machine : InHand(n)' = InHand(n)
      BY <1>1 DEF InHand
    <2>3. pending_record_queue'[m] = Append(pending_record_queue[m], w)
      BY <1>1 DEF TypeOK
    <2>4. ToWrite'[m] = Append(ToWrite[m], w)
      <3>1. /\ InHand(m) \in Seq(Record)
            /\ cur_record_queue[m] \in Seq(Record)
            /\ pending_record_queue[m] \in Seq(Record)
        BY <1>t DEF TypeOK
      <3>2. ToWrite'[m] = InHand(m) \o cur_record_queue[m] \o Append(pending_record_queue[m], w)
        BY <1>1, <2>2, <2>3 DEF ToWrite
      <3>3. ToWrite[m] = InHand(m) \o cur_record_queue[m] \o pending_record_queue[m]
        BY DEF ToWrite
      <3> HIDE DEF w
      <3>4. InHand(m) \o cur_record_queue[m] \o Append(pending_record_queue[m], w)
             = Append(InHand(m) \o cur_record_queue[m] \o pending_record_queue[m], w)
        <4> DEFINE s == InHand(m)
                   t == cur_record_queue[m]
                   u == pending_record_queue[m]
        <4>1. s \in Seq(Record) /\ t \in Seq(Record) /\ u \in Seq(Record) /\ w \in Record
          BY <2>1, <3>1
        <4> HIDE DEF s, t, u
        <4>2. s \o t \o Append(u, w) = Append(s \o t \o u, w)
          BY <4>1, AppendToParts
        <4> QED BY <4>2 DEF s, t, u
      <3> QED BY <3>2, <3>3, <3>4
    <2>5. \A n \in Machine : n # m => ToWrite'[n] = ToWrite[n]
      BY <1>1, <2>2 DEF ToWrite, TypeOK
    <2>6. ToWrite' = [n \in Machine |-> ToWrite'[n]]
      BY DEF ToWrite
    <2> HIDE DEF w
    <2>7. ToWrite' = [ToWrite EXCEPT ![m] = Append(@, w)]
      BY <1>t, <2>4, <2>5, <2>6
    <2> QED BY <1>1, <2>1, <2>7 DEF Stream!Ask
  <1>2. ASSUME NEW m \in Machine, NEW b \in Buffer, RecvFreeBufferPair(m, b)
        PROVE  Stream!Return(m, b)
    BY <1>2 DEF RecvFreeBufferPair, FreeBuffer, queues, ToWrite, InHand, Stream!Return
  <1>3. ASSUME NEW m \in Machine, InitWriteHandle(m), UNCHANGED env_vars
        PROVE  UNCHANGED Stream!vars
    <2>1. ToWrite' = ToWrite
      <3> DEFINE swap == cur_record_queue[m] = <<>>
                 cur  == IF swap THEN pending_record_queue[m] ELSE cur_record_queue[m]
      <3>0. /\ cur_record_queue[m] \in Seq(Record)
            /\ pending_record_queue[m] \in Seq(Record)
            /\ <<>> \in Seq(Record)
        BY DEF TypeOK
      <3>1. CASE cur = <<>>
        BY <1>3, <3>1 DEF InitWriteHandle, SwapQueues, queues, ToWrite, InHand
      <3>2. CASE cur # <<>>
        <4>1. /\ cur_record' = [cur_record EXCEPT ![m] = Head(cur)]
              /\ cur_record_queue' = [cur_record_queue EXCEPT ![m] = Tail(cur)]
              /\ pending_record_queue' =
                   [pending_record_queue EXCEPT ![m] = IF swap THEN <<>> ELSE @]
              /\ cur_write_handle' = [cur_write_handle EXCEPT ![m] = "RequestBuffer"]
              /\ cur_write_handle[m] = "InitWriteHandle"
          BY <1>3, <3>2 DEF InitWriteHandle, SwapQueues
        <4>2. /\ InHand(m) = <<>> /\ InHand(m)' = <<Head(cur)>>
              /\ cur_record_queue'[m] = Tail(cur)
              /\ pending_record_queue'[m] = IF swap THEN <<>> ELSE pending_record_queue[m]
          BY <4>1 DEF InHand, TypeOK
        <4>3. <<Head(cur)>> \o Tail(cur) = cur
          BY <3>0, <3>2, HeadAndTail
        <4>4. InHand(m)' \o cur_record_queue'[m] \o pending_record_queue'[m]
               = IF swap THEN cur \o <<>> ELSE cur \o pending_record_queue[m]
          BY <4>2, <4>3
        <4>5. InHand(m) \o cur_record_queue[m] \o pending_record_queue[m]
               = cur_record_queue[m] \o pending_record_queue[m]
          BY <3>0, <4>2, ConcatEmptySeq
        <4>6. InHand(m)' \o cur_record_queue'[m] \o pending_record_queue'[m]
               = InHand(m) \o cur_record_queue[m] \o pending_record_queue[m]
          BY <3>0, <4>4, <4>5, ConcatEmptySeq
        <4>7. \A n \in Machine : n # m =>
                /\ InHand(n)' = InHand(n)
                /\ cur_record_queue'[n] = cur_record_queue[n]
                /\ pending_record_queue'[n] = pending_record_queue[n]
          BY <4>1 DEF InHand, TypeOK
        <4> QED BY <4>6, <4>7, StreamStutter
      <3> QED BY <3>1, <3>2
    <2> QED BY <1>3, <2>1 DEF env_vars, Stream!vars
  <1>4. ASSUME NEW m \in Machine, RequestBuffer(m), UNCHANGED env_vars
        PROVE  UNCHANGED Stream!vars
    <2>1. \A n \in Machine : InHand(n)' = InHand(n)
      BY <1>4 DEF RequestBuffer, InHand, TypeOK
    <2>2. ToWrite' = ToWrite
      BY <1>4, <2>1 DEF RequestBuffer, queues, ToWrite
    <2> QED BY <1>4, <2>2 DEF env_vars, Stream!vars
  <1>5. ASSUME NEW m \in Machine, WritePiece(m)
        PROVE  Stream!Emit(m, buffer_id[m])
    <2> USE DEF WritePiece, DoCurWrite, HandleAfter, queues
    <2> DEFINE r == cur_record[m]
               left == cur_record_queue[m] \o pending_record_queue[m]
               next == [read |-> r.read, offset |-> r.offset + TransferBytes(r)]
    <2>1. /\ r \in Record /\ r.offset < Bytes[r.read] /\ buffer_id[m] \in Buffer
      BY <1>5 DEF HandleOK
    <2>2. /\ cur_record_queue[m] \in Seq(Record)
          /\ pending_record_queue[m] \in Seq(Record)
          /\ left \in Seq(Record)
          /\ next \in Record
      <3>1. cur_record_queue[m] \in Seq(Record) /\ pending_record_queue[m] \in Seq(Record)
        BY DEF TypeOK
      <3>2. left \in Seq(Record)
        BY <3>1, ConcatProperties
      <3>3. TransferBytes(r) \in Nat
        BY <2>1, TransferBytesBounds
      <3>4. next \in Record
        BY <2>1, <3>3 DEF Record
      <3> QED BY <3>1, <3>2, <3>4
    <2>3. /\ Stream!PieceOf(r) = CurPiece(m)
          /\ Stream!AfterPiece(r) = next
          /\ Stream!Finished(next) <=> ~(next.offset < Bytes[r.read])
      <3>1. Stream!PieceOf(r) = CurPiece(m)
        BY DEF Stream!PieceOf, Stream!Lesser, CurPiece, TransferBytes, Lesser
      <3>2. Stream!PieceOf(r).bytes = TransferBytes(r)
        BY DEF Stream!PieceOf, Stream!Lesser, TransferBytes, Lesser
      <3>3. Stream!AfterPiece(r) = next
        BY <2>1, <3>2 DEF Stream!AfterPiece, Record
      <3>4. Stream!Finished(next) <=> ~(next.offset < Bytes[r.read])
        BY <2>1, <2>2, WriteHelperAssumption DEF Stream!Finished, Record
      <3> QED BY <3>1, <3>3, <3>4
    <2>4. ToWrite[m] = <<r>> \o left
      <3>1. ToWrite[m] = <<r>> \o cur_record_queue[m] \o pending_record_queue[m]
        BY <1>5 DEF ToWrite, InHand
      <3> HIDE DEF r
      <3> QED BY <2>1, <2>2, <3>1, ConsAssociative
    <2>5. ToWrite[m] # <<>> /\ Head(ToWrite[m]) = r /\ Tail(ToWrite[m]) = left
      <3> HIDE DEF r, left
      <3> QED BY <2>1, <2>2, <2>4, ConsParts
    <2>6. outstanding[m][buffer_id[m]] = NoPiece
      BY <1>5, <2>1 DEF BufferOwnership, Held, Out
    <2>7. cur_record'[m] = next
      BY <1>5, <2>1 DEF TypeOK, Record
    <2>8. ToWrite'[m] = IF Stream!Finished(next) THEN left ELSE <<next>> \o left
      <3>1. InHand(m)' = IF Stream!Finished(next) THEN <<>> ELSE <<next>>
        BY <1>5, <2>1, <2>3, <2>7 DEF InHand, TypeOK
      <3>2. ToWrite'[m] = InHand(m)' \o cur_record_queue[m] \o pending_record_queue[m]
        BY <1>5 DEF ToWrite
      <3>3. <<>> \o cur_record_queue[m] \o pending_record_queue[m] = left
        BY <2>2, ConcatEmptySeq
      <3>4. <<next>> \o cur_record_queue[m] \o pending_record_queue[m] = <<next>> \o left
        <4> HIDE DEF next
        <4> QED BY <2>2, ConsAssociative
      <3> QED BY <3>1, <3>2, <3>3, <3>4
    <2>9. \A n \in Machine : n # m => ToWrite'[n] = ToWrite[n]
      BY <1>5 DEF ToWrite, InHand, TypeOK
    <2>10. ToWrite' = [n \in Machine |-> ToWrite'[n]]
      BY DEF ToWrite
    <2>11. outstanding' = [outstanding EXCEPT ![m][buffer_id[m]] = Stream!PieceOf(r)]
      BY <1>5, <2>3
    <2> HIDE DEF r, left, next
    <2>12. ToWrite' = [ToWrite EXCEPT ![m] = IF Stream!Finished(next) THEN left
                                             ELSE <<next>> \o left]
      BY <1>t, <2>8, <2>9, <2>10
    <2> QED BY <2>3, <2>5, <2>6, <2>11, <2>12 DEF Stream!Emit
  <1>6. CASE UNCHANGED vars
    BY <1>6 DEF vars, helper_vars, queues, env_vars, ToWrite, InHand, Stream!vars
  <1>7. ASSUME NEW m \in Machine, NextHandle(m) PROVE [Stream!Next]_(Stream!vars)
    <2>1. CASE InitWriteHandle(m) /\ UNCHANGED env_vars
      BY <1>3, <2>1
    <2>2. CASE RequestBuffer(m) /\ UNCHANGED env_vars
      BY <1>4, <2>2
    <2>3. CASE WritePiece(m)
      <3>1. buffer_id[m] \in Buffer
        BY <2>3 DEF WritePiece, DoCurWrite, HandleAfter, HandleOK
      <3> QED BY <1>5, <2>3, <3>1 DEF Stream!Next
    <2> QED BY <1>7, <2>1, <2>2, <2>3 DEF NextHandle
  <1> QED BY <1>1, <1>2, <1>6, <1>7 DEF Next, Stream!Next

\* Whatever the poller, the queues and the handles do, what leaves the machine
\* is the stream of pieces PieceStream promises: contiguous pieces, in order,
\* read after read, each in a buffer of its own.
THEOREM ImplementsStream == Spec => StreamRefinement
  <1> QED BY TypeInvariant, BuffersOwned, StreamInit, StreamNext,
             PTL DEF Spec, StreamRefinement, Stream!Spec
================================================================================
