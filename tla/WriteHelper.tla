------------------------------ MODULE WriteHelper ------------------------------
(***************************************************************************)
(* IBVerbsWriteHelper (ibverbs/ibverbs_write_helper.cpp): one instance per *)
(* connection, indexed here by the machine that owns it.  AsyncWrite and   *)
(* FreeBuffer queue their argument and start a loop that calls the current *)
(* handle until one returns false; each call of a handle is one step, and  *)
(* writing[m] says that the thread of m's poller is inside that loop.      *)
(*                                                                         *)
(* The module states the operations only: WritePipeline and ReadTransfer   *)
(* close it with an environment.  A WorkRecord is the read it belongs to   *)
(* and its offset: begin_addr, bytes and machine_id are functions of the   *)
(* read.  Bytes are counted in units of one scatter/gather element.        *)
(***************************************************************************)
EXTENDS Integers, Sequences

CONSTANTS Machine,            \* machines, each with one write helper
          Read,               \* reads that may be asked for
          Bytes,              \* Bytes[k]: size of read k
          BufferBytes,        \* size of a registered buffer
          RegisterBufferNum   \* registered buffer pairs per connection

ASSUME WriteHelperAssumption == /\ Bytes \in [Read -> Nat]
                                /\ BufferBytes \in Nat \ {0}
                                /\ RegisterBufferNum \in Nat

VARIABLES pending_record_queue,  \* records queued by AsyncWrite
          cur_record_queue,      \* records being worked off
          idle_buffer_queue,     \* ids of the buffers that may be filled
          cur_write_handle,      \* the next handle to call
          cur_record,            \* the record being cut into pieces
          buffer_id,             \* the buffer taken for the next piece
          writing                \* inside WriteUntilQueueEmptyOrNoBuffer

queues == <<pending_record_queue, cur_record_queue>>
helper_vars == <<pending_record_queue, cur_record_queue, idle_buffer_queue,
                 cur_write_handle, cur_record, buffer_id, writing>>

Buffer == 0 .. RegisterBufferNum - 1

Handle == {"InitWriteHandle", "RequestBuffer", "DoCurWrite"}

Lesser(a, b) == IF a < b THEN a ELSE b

WorkRecord(k, o) == [read |-> k, offset |-> o]

Record == [read : Read, offset : Nat]

\* The first element of these two is never read: cur_record_ and buffer_id_
\* are assigned by InitWriteHandle and RequestBuffer before DoCurWrite runs.
NoRecord == [read |-> "none", offset |-> 0]
NoBuffer == -1

\* Mutant: the buffers are numbered from 1.
IdleBuffersFromOne == [i \in 1 .. RegisterBufferNum |-> i]

\* At the start every buffer is idle.
IdleBuffers == [i \in 1 .. RegisterBufferNum |-> i - 1]

HelperInit ==
  /\ pending_record_queue = [m \in Machine |-> <<>>]
  /\ cur_record_queue = [m \in Machine |-> <<>>]
  /\ idle_buffer_queue = [m \in Machine |-> IdleBuffers]
  /\ cur_write_handle = [m \in Machine |-> "InitWriteHandle"]
  /\ cur_record = [m \in Machine |-> NoRecord]
  /\ buffer_id = [m \in Machine |-> NoBuffer]
  /\ writing = [m \in Machine |-> FALSE]

\* NotifyMeToWrite / WriteUntilQueueEmptyOrNoBuffer: the loop starts when the
\* caller says so and ends when a handle returns false.
StartWriting(m, start) == writing' = [writing EXCEPT ![m] = start]
StopWriting(m) == writing' = [writing EXCEPT ![m] = FALSE]

\* Mutant: the queue is looked at after the push, when it is never empty.
AsyncWriteLate(m, record) ==
  /\ ~writing[m]
  /\ pending_record_queue' = [pending_record_queue EXCEPT ![m] = Append(@, record)]
  /\ StartWriting(m, pending_record_queue'[m] = <<>>)
  /\ UNCHANGED <<cur_record_queue, idle_buffer_queue, cur_write_handle, cur_record, buffer_id>>

\* The loop is entered only if the pending queue was empty before the push.
AsyncWrite(m, record) ==
  /\ ~writing[m]
  /\ pending_record_queue' =
       [pending_record_queue EXCEPT ![m] = Append(@, record)]
  /\ StartWriting(m, pending_record_queue[m] = <<>>)
  /\ UNCHANGED <<cur_record_queue, idle_buffer_queue, cur_write_handle,
                 cur_record, buffer_id>>

FreeBuffer(m, b) ==
  /\ ~writing[m]
  /\ idle_buffer_queue' = [idle_buffer_queue EXCEPT ![m] = Append(@, b)]
  /\ StartWriting(m, TRUE)
  /\ UNCHANGED <<queues, cur_write_handle, cur_record, buffer_id>>

\* Mutant: the queues are swapped whenever a record is pending.
SwapQueuesEagerly(m) == pending_record_queue[m] # <<>>

SwapQueues(m) == cur_record_queue[m] = <<>>

\* Takes the next record; the two queues are swapped when the current one is
\* used up, and the loop ends when there is none in either.
InitWriteHandle(m) ==
  /\ writing[m]
  /\ cur_write_handle[m] = "InitWriteHandle"
  /\ LET swap == SwapQueues(m)
         cur  == IF swap THEN pending_record_queue[m] ELSE cur_record_queue[m]
     IN \/ /\ cur = <<>>
           /\ StopWriting(m)
           /\ UNCHANGED <<queues, cur_write_handle, cur_record>>
        \/ /\ cur # <<>>
           /\ cur_record' = [cur_record EXCEPT ![m] = Head(cur)]
           /\ cur_record_queue' = [cur_record_queue EXCEPT ![m] = Tail(cur)]
           /\ pending_record_queue' =
                [pending_record_queue EXCEPT ![m] = IF swap THEN cur_record_queue[m] ELSE @]
           /\ cur_write_handle' = [cur_write_handle EXCEPT ![m] = "RequestBuffer"]
           /\ UNCHANGED writing
  /\ UNCHANGED <<idle_buffer_queue, buffer_id>>

\* Takes an idle buffer; without one the loop ends and the record waits for
\* the next FreeBuffer.
RequestBuffer(m) ==
  /\ writing[m]
  /\ cur_write_handle[m] = "RequestBuffer"
  /\ \/ /\ idle_buffer_queue[m] = <<>>
        /\ StopWriting(m)
        /\ UNCHANGED <<idle_buffer_queue, buffer_id, cur_write_handle>>
     \/ /\ idle_buffer_queue[m] # <<>>
        /\ buffer_id' = [buffer_id EXCEPT ![m] = Head(idle_buffer_queue[m])]
        /\ idle_buffer_queue' = [idle_buffer_queue EXCEPT ![m] = Tail(@)]
        /\ cur_write_handle' = [cur_write_handle EXCEPT ![m] = "DoCurWrite"]
        /\ UNCHANGED writing
  /\ UNCHANGED <<queues, cur_record>>

\* std::min(bytes - offset, PerRegisterBufferMBytes)
TransferBytes(record) == Lesser(Bytes[record.read] - record.offset, BufferBytes)

\* The piece of the current record that DoCurWrite copies into buffer_id and
\* hands to PostWriteRequest.
CurPiece(m) == [read |-> cur_record[m].read, offset |-> cur_record[m].offset,
                bytes |-> TransferBytes(cur_record[m])]

\* Mutant: a finished record is taken for one more piece.
HandleAfterOffByOne(record) == IF record.offset <= Bytes[record.read]
                                 THEN "RequestBuffer" ELSE "InitWriteHandle"

\* The rest of the record needs another buffer.
HandleAfter(record) == IF record.offset < Bytes[record.read]
                         THEN "RequestBuffer" ELSE "InitWriteHandle"

\* Mutant: the buffer is idle again as soon as its write is posted.
DoCurWriteFreeing(m) ==
  /\ writing[m]
  /\ cur_write_handle[m] = "DoCurWrite"
  /\ cur_record' = [cur_record EXCEPT ![m].offset = @ + TransferBytes(cur_record[m])]
  /\ cur_write_handle' = [cur_write_handle EXCEPT ![m] = HandleAfter(cur_record'[m])]
  /\ idle_buffer_queue' = [idle_buffer_queue EXCEPT ![m] = Append(@, buffer_id[m])]
  /\ UNCHANGED <<queues, buffer_id, writing>>

DoCurWrite(m) ==
  /\ writing[m]
  /\ cur_write_handle[m] = "DoCurWrite"
  /\ LET record == [cur_record[m] EXCEPT !.offset = @ + TransferBytes(cur_record[m])] IN
       /\ cur_record' = [cur_record EXCEPT ![m] = record]
       /\ cur_write_handle' = [cur_write_handle EXCEPT ![m] = HandleAfter(record)]
  /\ UNCHANGED <<queues, idle_buffer_queue, buffer_id, writing>>
================================================================================
