-------------------------------- MODULE Slicing --------------------------------
(***************************************************************************)
(* One read, byte by byte, through one pair of registered buffers: how     *)
(* DoCurWrite slices a piece over the scatter/gather elements of the send  *)
(* buffer, what PostWriteRequest moves, and how SyncRead puts the elements *)
(* of the receive buffer together again.  Both sides compute the slices    *)
(* from the same configuration; the last one may be shorter, and an        *)
(* element is always moved whole.                                          *)
(***************************************************************************)
EXTENDS Integers

CONSTANTS BufferBytes,   \* PerRegisterBufferMBytes, in bytes
          SgeNum,        \* elements a piece is written with, at most
          MaxBytes       \* bound on the size of the read

ASSUME SlicingAssumption == /\ BufferBytes \in Nat /\ SgeNum \in Nat /\ MaxBytes \in Nat
                            /\ SgeNum > 0 /\ SgeNum <= BufferBytes

VARIABLES bytes,            \* size of the read
          offset,           \* bytes of it dealt with by both sides
          phase,            \* "write", "read"
          sge,              \* element the copying loop has reached
          transfer_record,  \* bytes the copying loop has moved
          send_buf, recv_buf, dst

vars == <<bytes, offset, phase, sge, transfer_record, send_buf, recv_buf, dst>>

Lesser(a, b) == IF a < b THEN a ELSE b

\* CommNetConfigDesc::SgeBytes
SgeBytes == BufferBytes \div SgeNum

\* IBVerbsMemDesc: element i covers the bytes from i * SgeBytes on, and the
\* last element what is left over.
Start(i) == i * SgeBytes
Block(i) == Start(i) .. Lesser(Start(i + 1), BufferBytes) - 1

transfer_bytes == Lesser(bytes - offset, BufferBytes)

\* Mutant: a part of an element is not counted.
sge_num_rounded == Lesser(SgeNum, transfer_bytes \div SgeBytes)

\* Elements of the piece, capped by the configured number.
sge_num == Lesser(SgeNum, (transfer_bytes - 1) \div SgeBytes + 1)

\* Mutant: the last element is copied whole.
temp_bytes_whole == SgeBytes

temp_bytes == Lesser(SgeBytes, transfer_bytes - transfer_record)

\* A byte is the position it has in the source; -1 is a byte never written.
Byte == -1 .. MaxBytes - 1
BufferIndex == 0 .. BufferBytes - 1
Fresh == [p \in BufferIndex |-> -1]

Init == /\ bytes \in 1 .. MaxBytes
        /\ offset = 0 /\ phase = "write" /\ sge = 0 /\ transfer_record = 0
        /\ send_buf = Fresh
        /\ recv_buf = Fresh
        /\ dst = [j \in 0 .. MaxBytes - 1 |-> -1]

\* memcpy of one element, in DoCurWrite.
CopyToSend ==
  /\ phase = "write" /\ offset < bytes /\ sge < sge_num
  /\ send_buf' = [p \in BufferIndex |->
                    IF p \in Start(sge) .. Start(sge) + temp_bytes - 1
                      THEN offset + transfer_record + (p - Start(sge)) ELSE send_buf[p]]
  /\ transfer_record' = transfer_record + temp_bytes
  /\ sge' = sge + 1
  /\ UNCHANGED <<bytes, offset, phase, recv_buf, dst>>

\* PostWriteRequest and the arrival of its last element.
WriteElements ==
  /\ phase = "write" /\ offset < bytes /\ sge = sge_num
  /\ recv_buf' = [p \in BufferIndex |-> IF \E i \in 0 .. sge_num - 1 : p \in Block(i)
                                          THEN send_buf[p] ELSE recv_buf[p]]
  /\ phase' = "read" /\ sge' = 0 /\ transfer_record' = 0
  /\ UNCHANGED <<bytes, offset, send_buf, dst>>

\* memcpy of one element, in SyncRead.
CopyToDst ==
  /\ phase = "read" /\ sge < sge_num
  /\ dst' = [j \in DOMAIN dst |->
               IF j \in offset + transfer_record .. offset + transfer_record + temp_bytes - 1
                 THEN recv_buf[Start(sge) + (j - offset - transfer_record)] ELSE dst[j]]
  /\ transfer_record' = transfer_record + temp_bytes
  /\ sge' = sge + 1
  /\ UNCHANGED <<bytes, offset, phase, send_buf, recv_buf>>

\* Both sides move their offset past the piece, copied or not.
NextPiece ==
  /\ phase = "read" /\ sge = sge_num
  /\ offset' = offset + transfer_bytes
  /\ phase' = "write" /\ sge' = 0 /\ transfer_record' = 0
  /\ UNCHANGED <<bytes, send_buf, recv_buf, dst>>

Next == CopyToSend \/ WriteElements \/ CopyToDst \/ NextPiece

Spec == Init /\ [][Next]_vars
--------------------------------------------------------------------------------
\* Types.
TypeOK == /\ bytes \in 1 .. MaxBytes /\ offset \in 0 .. MaxBytes /\ offset <= bytes
          /\ phase \in {"write", "read"}
          /\ sge \in 0 .. SgeNum
          /\ transfer_record \in 0 .. BufferBytes
          /\ send_buf \in [BufferIndex -> Byte]
          /\ recv_buf \in [BufferIndex -> Byte]
          /\ dst \in [0 .. MaxBytes - 1 -> Byte]

\* Every byte both sides have moved past is in its place at the reader: the
\* slices of a piece leave no gap and the two sides agree on them.
PrefixIntact == \A j \in 0 .. offset - 1 : dst[j] = j
================================================================================
