---------------------------- MODULE ReadTransfer_proofs ----------------------------
(***************************************************************************)
(* Proofs about a remote read from end to end, for any reads, buffers and  *)
(* receive requests.                                                       *)
(***************************************************************************)
EXTENDS ReadTransfer, FiniteSetTheorems, SequenceTheorems, TLAPS

\* No read is of zero bytes: one that is takes a buffer and posts nothing.
NoEmptyRead == \A k \in Read : Bytes[k] > 0

\* A reader takes the reads of one source on from one thread: from the poller,
\* or, if there is one read only, from a thread of its own.  Two threads in
\* DoRead can queue their records in one order and ask in the other.
OneThread == \A k \in Deferred, q \in Read : Source[q] = Source[k] => q = k

--------------------------------------------------------------------------------
(* Machines, requests and places.                                          *)

LEMMA Peers ==
  ASSUME NEW m \in Machine
  PROVE  /\ Peer(m) \in Machine /\ Peer(m) # m /\ Peer(Peer(m)) = m
         /\ \A n \in Machine : n = m \/ n = Peer(m)
  <1>1. PICK f : f \in Bijection(1 .. 2, Machine)
    BY FS_CardinalityType, ReadTransferAssumption DEF ExistsBijection
  <1>2. /\ f[1] \in Machine /\ f[2] \in Machine /\ f[1] # f[2]
        /\ \A n \in Machine : \E i \in 1 .. 2 : f[i] = n
    BY <1>1 DEF Bijection, Injection, IsInjective, Surjection
  <1>3. Machine = {f[1], f[2]}
    BY <1>2
  <1>4. ASSUME NEW n \in Machine PROVE Peer(n) \in Machine /\ Peer(n) # n
    <2>1. \E p \in Machine : p # n
      BY <1>2, <1>3
    <2> QED BY <2>1 DEF Peer
  <1> QED BY <1>2, <1>3, <1>4

LEMMA Requests ==
  ASSUME NEW r \in Request
  PROVE  /\ r.op \in {"UserMsg", "PleaseWrite", "FreeBufferPair", "RdmaWrite"}
         /\ r.op \in {"UserMsg", "PleaseWrite"} => r.read \in Read
         /\ r.op = "UserMsg" => r = UserMsg(r.read)
         /\ r.op = "PleaseWrite" => r = PleaseWrite(r.read)
         /\ r.op = "FreeBufferPair" => /\ r.buffer \in Buffer /\ r.last \in BOOLEAN
                                       /\ r = FreeBufferPair(r.buffer, r.last)
         /\ r.op = "RdmaWrite" => /\ r.buffer \in Buffer /\ r.block \in Unit
                                  /\ r.imm \in Buffer \cup {IntMax}
                                  /\ r = RdmaWrite(r.buffer, r.block, r.imm)
  BY DEF Request, UserMsg, PleaseWrite, FreeBufferPair, RdmaWrite

LEMMA IsRequest ==
  /\ \A k \in Read : UserMsg(k) \in Request /\ PleaseWrite(k) \in Request
  /\ \A b \in Buffer, last \in BOOLEAN : FreeBufferPair(b, last) \in Request
  /\ \A b \in Buffer, i \in Unit, imm \in Buffer \cup {IntMax} : RdmaWrite(b, i, imm) \in Request
  BY DEF Request

LEMMA RequestFields ==
  /\ \A k : /\ UserMsg(k).op = "UserMsg" /\ UserMsg(k).read = k
            /\ PleaseWrite(k).op = "PleaseWrite" /\ PleaseWrite(k).read = k
  /\ \A b, last : /\ FreeBufferPair(b, last).op = "FreeBufferPair"
                  /\ FreeBufferPair(b, last).buffer = b /\ FreeBufferPair(b, last).last = last
  /\ \A b, i, imm : /\ RdmaWrite(b, i, imm).op = "RdmaWrite" /\ RdmaWrite(b, i, imm).buffer = b
                    /\ RdmaWrite(b, i, imm).block = i /\ RdmaWrite(b, i, imm).imm = imm
  BY DEF UserMsg, PleaseWrite, FreeBufferPair, RdmaWrite

LEMMA Places ==
  ASSUME NEW x \in Place
  PROVE  /\ x.at \in {"Poll", "PostRecv", "ReadDone", "Dealing", "ReadCb", "PostFree"}
         /\ x.at = "Poll" <=> x = Polling
         /\ x.at = "PostRecv" => x = [at |-> "PostRecv"]
         /\ x.at = "ReadDone" => x = [at |-> "ReadDone"]
         /\ x.at = "Dealing" => x.read \in Read /\ x = [at |-> "Dealing", read |-> x.read]
         /\ x.at \in {"ReadCb", "PostFree"} =>
              /\ x.buffer \in Buffer /\ x.last \in BOOLEAN
              /\ x = [at |-> x.at, buffer |-> x.buffer, last |-> x.last]
              /\ [x EXCEPT !.at = "PostFree"]
                   = [at |-> "PostFree", buffer |-> x.buffer, last |-> x.last]
  BY DEF Place, Polling

LEMMA IsPlace ==
  /\ Polling \in Place /\ [at |-> "PostRecv"] \in Place /\ [at |-> "ReadDone"] \in Place
  /\ \A k \in Read : [at |-> "Dealing", read |-> k] \in Place
  /\ \A a \in {"ReadCb", "PostFree"}, b \in Buffer, last \in BOOLEAN :
       [at |-> a, buffer |-> b, last |-> last] \in Place
  <1> DEFINE Simple == {Polling, [at |-> "PostRecv"], [at |-> "ReadDone"]}
             Reads == {[at |-> "Dealing", read |-> k] : k \in Read}
             Copies == {[at |-> a, buffer |-> b, last |-> last] :
                          a \in {"ReadCb", "PostFree"}, b \in Buffer, last \in BOOLEAN}
  <1>1. Place = Simple \cup Reads \cup Copies
    BY DEF Place
  <1>2. Polling \in Simple /\ [at |-> "PostRecv"] \in Simple /\ [at |-> "ReadDone"] \in Simple
    OBVIOUS
  <1>3. \A k \in Read : [at |-> "Dealing", read |-> k] \in Reads
    OBVIOUS
  <1>4. \A a \in {"ReadCb", "PostFree"}, b \in Buffer, last \in BOOLEAN :
          [at |-> a, buffer |-> b, last |-> last] \in Copies
    OBVIOUS
  <1> HIDE DEF Simple, Reads, Copies
  <1> QED BY <1>1, <1>2, <1>3, <1>4

\* A buffer is never the number that says nothing.
LEMMA BufferNumbers == Buffer \subseteq Nat /\ IntMax \notin Buffer
  BY WriteHelperAssumption, ReadTransferAssumption DEF Buffer, IntMax

\* What a piece moves: never past the end of its read, and a full buffer
\* unless it is the last piece.
LEMMA TransferBounds ==
  ASSUME NEW r \in Record, r.offset <= Bytes[r.read]
  PROVE  /\ TransferBytes(r) \in 0 .. BufferBytes
         /\ r.offset + TransferBytes(r) <= Bytes[r.read]
         /\ r.offset < Bytes[r.read] => TransferBytes(r) > 0
         /\ TransferBytes(r) < BufferBytes => r.offset + TransferBytes(r) = Bytes[r.read]
  <1>1. r.offset \in Nat /\ Bytes[r.read] \in Nat /\ BufferBytes \in Nat \ {0}
    BY WriteHelperAssumption DEF Record
  <1> QED BY <1>1 DEF TransferBytes, Lesser

LEMMA Records ==
  /\ \A k \in Read, o \in Nat : WorkRecord(k, o) \in Record
  /\ \A k, o : WorkRecord(k, o).read = k /\ WorkRecord(k, o).offset = o
  /\ \A r \in Record : r.read \in Read /\ r.offset \in Nat /\ r = WorkRecord(r.read, r.offset)
  BY DEF WorkRecord, Record

--------------------------------------------------------------------------------
(* The first layer: types, and what the handlers count on.                 *)

\* The poller's thread is in a handler: it has taken a completion for which no
\* new receive request is posted yet.
Busy(m) == IF poller[m] = Polling THEN 0 ELSE 1

\* The records in hand lie within their reads, queued ones are new, and every
\* receive request of the start is posted, completed or being handled.
HandlersOK(m) ==
  /\ cur_write_handle[m] # "InitWriteHandle" =>
       /\ cur_record[m] \in Record /\ cur_record[m].offset <= Bytes[cur_record[m].read]
       /\ NoEmptyRead => cur_record[m].offset < Bytes[cur_record[m].read]
  /\ cur_write_handle[m] = "DoCurWrite" => buffer_id[m] \in Buffer /\ writing[m]
  /\ \A i \in DOMAIN pending_record_queue[m] : pending_record_queue[m][i].offset = 0
  /\ \A i \in DOMAIN cur_record_queue[m] : cur_record_queue[m][i].offset = 0
  /\ \A i \in DOMAIN read_queue[m] : read_queue[m][i].offset <= Bytes[read_queue[m][i].read]
  /\ poller[m].at = "ReadCb" => read_queue[m] # <<>> /\ poller[m].last
  /\ recv_wr[m] + Len(cq[m]) + Busy(m) = RecvWrNum

TypeInv == TypeOK /\ \A m \in Machine : HandlersOK(m)

\* What every step of one machine's handlers leaves alone on the other.
LEMMA HandlersKeep ==
  ASSUME NEW m \in Machine, HandlersOK(m),
         UNCHANGED <<cur_write_handle[m], cur_record[m], buffer_id[m], writing[m],
                     pending_record_queue[m], cur_record_queue[m], read_queue[m],
                     poller[m], recv_wr[m], cq[m]>>
  PROVE  HandlersOK(m)'
  BY DEF HandlersOK, Busy, NoEmptyRead

\* The ends of a queue that is not empty.
LEMMA Ends ==
  ASSUME NEW S, NEW q \in Seq(S), q # <<>>
  PROVE  /\ Head(q) \in S /\ Tail(q) \in Seq(S) /\ Len(q) \in Nat \ {0}
         /\ Len(Tail(q)) = Len(q) - 1 /\ Head(q) = q[1]
         /\ DOMAIN q = 1 .. Len(q) /\ DOMAIN Tail(q) = 1 .. Len(q) - 1
         /\ \A i \in DOMAIN Tail(q) : i + 1 \in DOMAIN q /\ Tail(q)[i] = q[i + 1]
  BY HeadTailProperties, LenProperties, EmptySeq

LEMMA Appended ==
  ASSUME NEW S, NEW q \in Seq(S), NEW x \in S
  PROVE  /\ Append(q, x) \in Seq(S) /\ Append(q, x) # <<>>
         /\ Len(q) \in Nat /\ Len(Append(q, x)) = Len(q) + 1
         /\ DOMAIN q = 1 .. Len(q) /\ DOMAIN Append(q, x) = 1 .. Len(q) + 1
         /\ \A i \in DOMAIN q : i \in DOMAIN Append(q, x) /\ Append(q, x)[i] = q[i]
         /\ Append(q, x)[Len(q) + 1] = x
         /\ \A i \in DOMAIN Append(q, x) : i \in DOMAIN q \/ i = Len(q) + 1
  BY AppendProperties, LenProperties

LEMMA TypeInvInit == Init => TypeInv
  <1> SUFFICES ASSUME Init PROVE TypeInv
    OBVIOUS
  <1> USE DEF Init, HelperInit, IdleBuffers
  <1>1. [i \in 1 .. RegisterBufferNum |-> i - 1] \in Seq(Buffer)
    <2>1. RegisterBufferNum \in Nat
      BY WriteHelperAssumption
    <2>2. [i \in 1 .. RegisterBufferNum |-> i - 1] \in [1 .. RegisterBufferNum -> Buffer]
      BY <2>1 DEF Buffer
    <2> QED BY <2>1, <2>2, SeqDef
  <1>2. /\ idle_buffer_queue \in [Machine -> Seq(Buffer)]
        /\ cur_write_handle \in [Machine -> Handle]
        /\ cur_record \in [Machine -> Record \cup {NoRecord}]
        /\ buffer_id \in [Machine -> Buffer \cup {NoBuffer}]
        /\ writing \in [Machine -> BOOLEAN]
    BY <1>1 DEF Handle
  <1>3. /\ pending_record_queue \in [Machine -> Seq(Record)]
        /\ cur_record_queue \in [Machine -> Seq(Record)]
        /\ sq \in [Machine -> Seq(Request)] /\ cq \in [Machine -> Seq(Request)]
        /\ read_queue \in [Machine -> Seq(Record)] /\ read_done_cbs \in [Machine -> Seq(Read)]
    OBVIOUS
  <1>4. Garbage \in Data
    BY DEF Data
  <1>5. /\ Blank \in [Buffer -> [Unit -> Data]]
        /\ DOMAIN dst = Read /\ \A k \in Read : dst[k] \in [0 .. Bytes[k] - 1 -> Data]
    BY <1>4 DEF Blank
  <1>6. /\ recv_wr \in [Machine -> 0 .. RecvWrNum] /\ poller \in [Machine -> Place]
        /\ send_mem \in [Machine -> [Buffer -> [Unit -> Data]]]
        /\ recv_mem \in [Machine -> [Buffer -> [Unit -> Data]]]
    BY <1>5, IsPlace, ReadTransferAssumption
  <1>7. TypeOK
    BY <1>2, <1>3, <1>5, <1>6 DEF TypeOK
  <1>8. ASSUME NEW m \in Machine PROVE HandlersOK(m)
    <2>1. /\ pending_record_queue[m] = <<>> /\ cur_record_queue[m] = <<>> /\ read_queue[m] = <<>>
          /\ cur_write_handle[m] = "InitWriteHandle" /\ poller[m] = Polling
          /\ recv_wr[m] = RecvWrNum /\ cq[m] = <<>>
      OBVIOUS
    <2>2. DOMAIN <<>> = {} /\ Len(<<>>) = 0
      OBVIOUS
    <2> QED BY <2>1, <2>2, ReadTransferAssumption DEF HandlersOK, Busy, Polling
  <1> QED BY <1>7, <1>8 DEF TypeInv

\* A step of m's handlers keeps TypeInv if it keeps the types and what m's own
\* handlers count on.
LEMMA TypeInvStep ==
  ASSUME TypeInv, NEW m \in Machine, TypeOK', HandlersOK(m)',
         \A n \in Machine : n # m =>
           UNCHANGED <<cur_write_handle[n], cur_record[n], buffer_id[n], writing[n],
                       pending_record_queue[n], cur_record_queue[n], read_queue[n],
                       poller[n], recv_wr[n], cq[n]>>
  PROVE  TypeInv'
  BY HandlersKeep DEF TypeInv

all_but_app == <<helper_vars, cq, recv_wr, poller, read_queue, mem_vars, cb_vars, aborted>>

\* What the application's calls leave alone: all but the announcements, the
\* callbacks and the send queue.
LEMMA AppType ==
  ASSUME TypeInv, UNCHANGED all_but_app,
         sq' \in [Machine -> Seq(Request)], read_done_cbs' \in [Machine -> Seq(Read)],
         announcing' \in [Machine -> Read \cup {NoRead}], announced' \subseteq Read,
         deferred' \subseteq Read, dealing' \subseteq Read
  PROVE  TypeInv'
  <1>1. UNCHANGED <<helper_vars, cq, recv_wr, poller, read_queue, mem_vars, cb_vars, aborted>>
    BY DEF all_but_app
  <1>2. TypeOK'
    BY <1>1 DEF TypeInv, TypeOK, helper_vars, mem_vars, cb_vars
  <1>3. \A m \in Machine : HandlersOK(m)'
    BY <1>1, HandlersKeep DEF TypeInv, helper_vars
  <1> QED BY <1>2, <1>3 DEF TypeInv

LEMMA PostType ==
  ASSUME TypeInv, NEW m \in Machine, NEW r \in Seq(Request), Post(m, r)
  PROVE  sq' \in [Machine -> Seq(Request)]
  <1>1. sq[m] \o r \in Seq(Request)
    BY ConcatProperties DEF TypeInv, TypeOK
  <1> QED BY <1>1 DEF TypeInv, TypeOK, Post

LEMMA PostOne ==
  ASSUME TypeInv, NEW m \in Machine, NEW r \in Request, Post(m, <<r>>)
  PROVE  /\ sq' \in [Machine -> Seq(Request)]
         /\ sq'[m] = Append(sq[m], r) /\ \A n \in Machine : n # m => sq'[n] = sq[n]
  <1>1. <<r>> \in Seq(Request) /\ sq[m] \in Seq(Request)
    BY DEF TypeInv, TypeOK
  <1>2. Append(sq[m], r) = sq[m] \o <<r>>
    BY <1>1, AppendIsConcat
  <1> QED BY <1>1, <1>2, PostType DEF TypeInv, TypeOK, Post

LEMMA AnnounceType ==
  ASSUME TypeInv, NEW m \in Machine, NEW k \in Read, Begin(m, k) \/ End(m, k)
  PROVE  announcing' \in [Machine -> Read \cup {NoRead}] /\ announced' \subseteq Read
  <1>1. CASE Begin(m, k)
    BY <1>1 DEF TypeInv, TypeOK, Begin
  <1>2. CASE End(m, k)
    BY <1>2 DEF TypeInv, TypeOK, End
  <1> QED BY <1>1, <1>2

LEMMA RegisterReadDoneCbType ==
  ASSUME TypeInv, NEW m \in Machine, NEW k \in Read, RegisterReadDoneCb(m, k)
  PROVE  TypeInv'
  <1>1. /\ read_done_cbs' = [read_done_cbs EXCEPT ![m] = Append(@, k)]
        /\ UNCHANGED <<helper_vars, net_vars, poller, read_queue, dealing, mem_vars,
                       deferred, cb_vars, aborted>>
        /\ Begin(m, k) \/ End(m, k)
    <2>1. Begin(m, k) \/ End(m, k)
      BY DEF RegisterReadDoneCb
    <2> QED BY <2>1 DEF RegisterReadDoneCb
  <1>2. Append(read_done_cbs[m], k) \in Seq(Read)
    BY AppendProperties DEF TypeInv, TypeOK
  <1>3. /\ announcing' \in [Machine -> Read \cup {NoRead}] /\ announced' \subseteq Read
        /\ read_done_cbs' \in [Machine -> Seq(Read)]
    BY <1>1, <1>2, AnnounceType DEF TypeInv, TypeOK
  <1> QED BY <1>1, <1>3, AppType DEF net_vars, all_but_app, TypeInv, TypeOK

LEMMA SendMsgType ==
  ASSUME TypeInv, NEW m \in Machine, NEW k \in Read, SendMsg(m, k)
  PROVE  TypeInv'
  <1>1. /\ Post(m, <<UserMsg(k)>>)
        /\ UNCHANGED <<helper_vars, cq, recv_wr, poller, qp_vars, mem_vars, deferred, cb_vars,
                       aborted>>
        /\ Begin(m, k) \/ End(m, k)
    <2>1. Begin(m, k) \/ End(m, k)
      BY DEF SendMsg
    <2> QED BY <2>1 DEF SendMsg
  <1>2. sq' \in [Machine -> Seq(Request)]
    BY <1>1, IsRequest, PostOne
  <1>3. announcing' \in [Machine -> Read \cup {NoRead}] /\ announced' \subseteq Read
    BY <1>1, AnnounceType
  <1> QED BY <1>1, <1>2, <1>3, AppType DEF qp_vars, all_but_app, TypeInv, TypeOK

\* Both ways to push a record.
LEMMA PushRecordType ==
  ASSUME TypeInv, NEW m \in Machine, NEW k \in Read, PushRecord(m, k)
  PROVE  /\ read_queue' \in [Machine -> Seq(Record)] /\ dealing' \subseteq Read
         /\ read_done_cbs' = read_done_cbs
         /\ read_queue'[m] = Append(read_queue[m], WorkRecord(k, 0)) /\ read_queue'[m] # <<>>
         /\ \A n \in Machine : n # m => read_queue'[n] = read_queue[n]
         /\ \A i \in DOMAIN read_queue'[m] :
              read_queue'[m][i].offset <= Bytes[read_queue'[m][i].read]
  <1>1. read_queue[m] \in Seq(Record) /\ WorkRecord(k, 0) \in Record
    BY Records DEF TypeInv, TypeOK
  <1>2. /\ Append(read_queue[m], WorkRecord(k, 0)) \in Seq(Record)
        /\ Append(read_queue[m], WorkRecord(k, 0)) # <<>>
    BY <1>1, Appended
  <1>3. /\ read_queue' = [read_queue EXCEPT ![m] = Append(@, WorkRecord(k, 0))]
        /\ dealing' = dealing \cup {k} /\ read_done_cbs' = read_done_cbs
    BY DEF PushRecord
  <1>4. 0 <= Bytes[k]
    BY WriteHelperAssumption
  <1>5. \A i \in DOMAIN Append(read_queue[m], WorkRecord(k, 0)) :
          Append(read_queue[m], WorkRecord(k, 0))[i].offset
            <= Bytes[Append(read_queue[m], WorkRecord(k, 0))[i].read]
    <2>1. \A i \in DOMAIN read_queue[m] : read_queue[m][i].offset <= Bytes[read_queue[m][i].read]
      BY DEF TypeInv, HandlersOK
    <2> DEFINE q == read_queue[m]
    <2> HIDE DEF q
    <2> SUFFICES ASSUME NEW i \in DOMAIN Append(q, WorkRecord(k, 0))
                 PROVE  Append(q, WorkRecord(k, 0))[i].offset
                          <= Bytes[Append(q, WorkRecord(k, 0))[i].read]
      BY DEF q
    <2>2. q \in Seq(Record) /\ (\A j \in DOMAIN q : q[j].offset <= Bytes[q[j].read])
      BY <1>1, <2>1 DEF q
    <2> QED BY <2>2, <1>1, <1>4, Appended, Records
  <1> QED BY <1>1, <1>2, <1>3, <1>5 DEF TypeInv, TypeOK

LEMMA WorkerDoReadType ==
  ASSUME TypeInv, NEW m \in Machine, NEW k \in Read, WorkerDoRead(m, k)
  PROVE  TypeInv'
  <1>1. /\ PushRecord(m, k) /\ deferred' = deferred \ {k}
        /\ UNCHANGED <<helper_vars, net_vars, poller, mem_vars, announcing, announced, cb_vars,
                       aborted>>
    BY DEF WorkerDoRead
  <1>2. /\ read_queue' \in [Machine -> Seq(Record)] /\ dealing' \subseteq Read
        /\ read_done_cbs' = read_done_cbs
        /\ read_queue'[m] # <<>>
        /\ \A n \in Machine : n # m => read_queue'[n] = read_queue[n]
        /\ \A i \in DOMAIN read_queue'[m] :
             read_queue'[m][i].offset <= Bytes[read_queue'[m][i].read]
    BY <1>1, PushRecordType
  <1>3. TypeOK'
    BY <1>1, <1>2 DEF TypeInv, TypeOK, helper_vars, net_vars, mem_vars, cb_vars
  <1>4. UNCHANGED <<cur_write_handle, cur_record, buffer_id, writing, pending_record_queue,
                    cur_record_queue, poller, recv_wr, cq>>
    BY <1>1 DEF helper_vars, net_vars
  <1>6. HandlersOK(m)'
    BY <1>2, <1>4 DEF TypeInv, HandlersOK, Busy, NoEmptyRead
  <1> QED BY <1>2, <1>3, <1>4, <1>6, TypeInvStep

LEMMA PostPleaseWriteType ==
  ASSUME TypeInv, NEW m \in Machine, NEW k \in Read, PostPleaseWrite(m, k)
  PROVE  TypeInv'
  <1>1. /\ Post(m, <<PleaseWrite(k)>>) /\ dealing' = dealing \ {k}
        /\ poller' = IF poller[m] = [at |-> "Dealing", read |-> k]
                       THEN [poller EXCEPT ![m] = [at |-> "PostRecv"]] ELSE poller
        /\ UNCHANGED <<helper_vars, cq, recv_wr, read_queue, read_done_cbs, mem_vars, app_vars,
                       cb_vars, aborted>>
    BY DEF PostPleaseWrite
  <1>2. sq' \in [Machine -> Seq(Request)]
    BY <1>1, IsRequest, PostOne
  <1>3. poller' \in [Machine -> Place]
    BY <1>1, IsPlace DEF TypeInv, TypeOK
  <1>4. TypeOK'
    BY <1>1, <1>2, <1>3 DEF TypeInv, TypeOK, helper_vars, mem_vars, app_vars, cb_vars
  <1>5. /\ \A n \in Machine : n # m => poller'[n] = poller[n]
        /\ Busy(m)' = Busy(m)
        /\ poller'[m].at = "ReadCb" => poller[m].at = "ReadCb" /\ poller'[m] = poller[m]
    BY <1>1 DEF TypeInv, TypeOK, Busy, Polling
  <1>6. UNCHANGED <<cur_write_handle, cur_record, buffer_id, writing, pending_record_queue,
                    cur_record_queue, read_queue, recv_wr, cq>>
    BY <1>1 DEF helper_vars
  <1>7. HandlersOK(m)'
    BY <1>5, <1>6 DEF TypeInv, HandlersOK, NoEmptyRead
  <1> QED BY <1>4, <1>5, <1>6, <1>7, TypeInvStep

\* The start of a handler: the oldest completion is taken, and its receive
\* request is owed.
LEMMA OnRecvType ==
  ASSUME TypeInv, NEW m \in Machine, NEW op, NEW next \in Place, next # Polling,
         OnRecv(m, op, next)
  PROVE  /\ cq[m] \in Seq(Request) /\ cq[m] # <<>> /\ Head(cq[m]) \in Request
         /\ Head(cq[m]).op = op /\ poller[m] = Polling /\ ~aborted[m]
         /\ cq' \in [Machine -> Seq(Request)] /\ cq'[m] = Tail(cq[m])
         /\ poller' \in [Machine -> Place] /\ poller'[m] = next
         /\ \A n \in Machine : n # m => cq'[n] = cq[n] /\ poller'[n] = poller[n]
         /\ recv_wr' = recv_wr /\ aborted' = aborted
         /\ recv_wr'[m] + Len(cq'[m]) + Busy(m)' = RecvWrNum
  <1>1. /\ At(m, "Poll") /\ cq[m] # <<>> /\ Head(cq[m]).op = op
        /\ cq' = [cq EXCEPT ![m] = Tail(@)] /\ poller' = [poller EXCEPT ![m] = next]
        /\ recv_wr' = recv_wr /\ aborted' = aborted
    BY DEF OnRecv
  <1>2. /\ cq \in [Machine -> Seq(Request)] /\ poller \in [Machine -> Place]
        /\ recv_wr[m] + Len(cq[m]) + Busy(m) = RecvWrNum /\ recv_wr[m] \in 0 .. RecvWrNum
    BY DEF TypeInv, TypeOK, HandlersOK
  <1>3. poller[m] = Polling /\ ~aborted[m]
    BY <1>1, <1>2, Places DEF At
  <1>4. /\ Head(cq[m]) \in Request /\ Tail(cq[m]) \in Seq(Request)
        /\ Len(cq[m]) \in Nat \ {0} /\ Len(Tail(cq[m])) = Len(cq[m]) - 1
    BY <1>1, <1>2, Ends
  <1>5. /\ cq' \in [Machine -> Seq(Request)] /\ cq'[m] = Tail(cq[m])
        /\ poller' \in [Machine -> Place] /\ poller'[m] = next
        /\ \A n \in Machine : n # m => cq'[n] = cq[n] /\ poller'[n] = poller[n]
    BY <1>1, <1>2, <1>4
  <1>6. Busy(m) = 0 /\ Busy(m)' = 1
    BY <1>3, <1>5 DEF Busy, Polling
  <1>7. recv_wr'[m] + Len(cq'[m]) + Busy(m)' = RecvWrNum
    BY <1>1, <1>2, <1>4, <1>5, <1>6, ReadTransferAssumption
  <1> QED BY <1>1, <1>2, <1>3, <1>4, <1>5, <1>7

LEMMA RecvUserMsgType ==
  ASSUME TypeInv, NEW m \in Machine, RecvUserMsg(m)
  PROVE  TypeInv'
  <1> DEFINE k == Head(cq[m]).read
  <1>1. /\ UNCHANGED <<helper_vars, sq, mem_vars, announcing, announced, cb_vars>>
        /\ \/ /\ OnRecv(m, "UserMsg", [at |-> "Dealing", read |-> k])
              /\ PushRecord(m, k) /\ UNCHANGED deferred
           \/ /\ OnRecv(m, "UserMsg", [at |-> "PostRecv"])
              /\ deferred' = deferred \cup {k} /\ UNCHANGED qp_vars
    BY DEF RecvUserMsg
  <1>2. k \in Read
    <2>1. cq[m] # <<>> /\ Head(cq[m]).op = "UserMsg"
      BY <1>1 DEF OnRecv
    <2>2. Head(cq[m]) \in Request
      BY <2>1, Ends DEF TypeInv, TypeOK
    <2> QED BY <2>1, <2>2, Requests
  <1> HIDE DEF k
  <1>3. UNCHANGED <<cur_write_handle, cur_record, buffer_id, writing, pending_record_queue,
                    cur_record_queue>>
    BY <1>1 DEF helper_vars
  <1>4. CASE /\ OnRecv(m, "UserMsg", [at |-> "Dealing", read |-> k])
             /\ PushRecord(m, k) /\ UNCHANGED deferred
    <2>1. [at |-> "Dealing", read |-> k] \in Place /\ [at |-> "Dealing", read |-> k] # Polling
      BY <1>2, IsPlace DEF Polling
    <2>2. /\ cq' \in [Machine -> Seq(Request)]
          /\ poller' \in [Machine -> Place] /\ poller'[m] = [at |-> "Dealing", read |-> k]
          /\ \A n \in Machine : n # m => cq'[n] = cq[n] /\ poller'[n] = poller[n]
          /\ recv_wr' = recv_wr /\ aborted' = aborted
          /\ recv_wr'[m] + Len(cq'[m]) + Busy(m)' = RecvWrNum
      BY <1>4, <2>1, OnRecvType
    <2>3. /\ read_queue' \in [Machine -> Seq(Record)] /\ dealing' \subseteq Read
          /\ read_done_cbs' = read_done_cbs
          /\ read_queue'[m] # <<>>
          /\ \A n \in Machine : n # m => read_queue'[n] = read_queue[n]
          /\ \A i \in DOMAIN read_queue'[m] :
               read_queue'[m][i].offset <= Bytes[read_queue'[m][i].read]
      BY <1>2, <1>4, PushRecordType
    <2>4. TypeOK'
      BY <1>1, <1>4, <2>2, <2>3 DEF TypeInv, TypeOK, helper_vars, mem_vars, cb_vars
    <2>5. HandlersOK(m)'
      BY <1>3, <2>2, <2>3 DEF TypeInv, HandlersOK, NoEmptyRead
    <2> QED BY <1>3, <2>2, <2>3, <2>4, <2>5, TypeInvStep
  <1>5. CASE /\ OnRecv(m, "UserMsg", [at |-> "PostRecv"])
             /\ deferred' = deferred \cup {k} /\ UNCHANGED qp_vars
    <2>1. [at |-> "PostRecv"] \in Place /\ [at |-> "PostRecv"] # Polling
      BY IsPlace DEF Polling
    <2>2. /\ cq' \in [Machine -> Seq(Request)]
          /\ poller' \in [Machine -> Place] /\ poller'[m] = [at |-> "PostRecv"]
          /\ \A n \in Machine : n # m => cq'[n] = cq[n] /\ poller'[n] = poller[n]
          /\ recv_wr' = recv_wr /\ aborted' = aborted
          /\ recv_wr'[m] + Len(cq'[m]) + Busy(m)' = RecvWrNum
      BY <1>5, <2>1, OnRecvType
    <2>3. UNCHANGED <<read_queue, read_done_cbs, dealing>>
      BY <1>5 DEF qp_vars
    <2>4. TypeOK'
      BY <1>1, <1>2, <1>5, <2>2, <2>3 DEF TypeInv, TypeOK, helper_vars, mem_vars, cb_vars
    <2>5. HandlersOK(m)'
      BY <1>3, <2>2, <2>3 DEF TypeInv, HandlersOK, NoEmptyRead
    <2> QED BY <1>3, <2>2, <2>3, <2>4, <2>5, TypeInvStep
  <1> QED BY <1>1, <1>4, <1>5 DEF k

LEMMA RecvPleaseWriteType ==
  ASSUME TypeInv, NEW m \in Machine, RecvPleaseWrite(m)
  PROVE  TypeInv'
  <1> DEFINE w == WorkRecord(Head(cq[m]).read, 0)
  <1>1. /\ OnRecv(m, "PleaseWrite", [at |-> "PostRecv"])
        /\ pending_record_queue' = [pending_record_queue EXCEPT ![m] = Append(@, w)]
        /\ writing' = [writing EXCEPT ![m] = (pending_record_queue[m] = <<>>)]
        /\ UNCHANGED <<cur_record_queue, idle_buffer_queue, cur_write_handle, cur_record,
                       buffer_id, sq, qp_vars, mem_vars, app_vars, cb_vars>>
        /\ ~writing[m]
    BY DEF RecvPleaseWrite, AsyncWrite, StartWriting
  <1>2. [at |-> "PostRecv"] \in Place /\ [at |-> "PostRecv"] # Polling
    BY IsPlace DEF Polling
  <1>3. /\ Head(cq[m]) \in Request /\ Head(cq[m]).op = "PleaseWrite"
        /\ cq' \in [Machine -> Seq(Request)]
        /\ poller' \in [Machine -> Place] /\ poller'[m] = [at |-> "PostRecv"]
        /\ \A n \in Machine : n # m => cq'[n] = cq[n] /\ poller'[n] = poller[n]
        /\ recv_wr' = recv_wr /\ aborted' = aborted
        /\ recv_wr'[m] + Len(cq'[m]) + Busy(m)' = RecvWrNum
    BY <1>1, <1>2, OnRecvType
  <1>4. w \in Record /\ w.offset = 0
    BY <1>3, Requests, Records
  <1> HIDE DEF w
  <1>5. /\ Append(pending_record_queue[m], w) \in Seq(Record)
        /\ \A i \in DOMAIN Append(pending_record_queue[m], w) :
             Append(pending_record_queue[m], w)[i].offset = 0
    <2> DEFINE q == pending_record_queue[m]
    <2>1. q \in Seq(Record) /\ \A i \in DOMAIN q : q[i].offset = 0
      BY DEF TypeInv, TypeOK, HandlersOK
    <2> HIDE DEF q
    <2>2. Append(q, w) \in Seq(Record) /\ \A i \in DOMAIN Append(q, w) : Append(q, w)[i].offset = 0
      BY <2>1, <1>4, Appended
    <2> QED BY <2>2 DEF q
  <1>6. /\ pending_record_queue' \in [Machine -> Seq(Record)]
        /\ writing' \in [Machine -> BOOLEAN]
        /\ pending_record_queue'[m] = Append(pending_record_queue[m], w)
        /\ \A n \in Machine : n # m => /\ pending_record_queue'[n] = pending_record_queue[n]
                                       /\ writing'[n] = writing[n]
    BY <1>1, <1>5 DEF TypeInv, TypeOK
  <1>7. TypeOK'
    BY <1>1, <1>3, <1>6 DEF TypeInv, TypeOK, qp_vars, mem_vars, app_vars, cb_vars
  <1>8. read_queue' = read_queue
    BY <1>1 DEF qp_vars
  <1>9. cur_write_handle[m] # "DoCurWrite"
    BY <1>1 DEF TypeInv, HandlersOK
  <1>10. HandlersOK(m)'
    BY <1>1, <1>3, <1>5, <1>6, <1>8, <1>9 DEF TypeInv, HandlersOK, NoEmptyRead
  <1> QED BY <1>1, <1>3, <1>6, <1>7, <1>8, <1>10, TypeInvStep

LEMMA RecvFreeBufferPairType ==
  ASSUME TypeInv, NEW m \in Machine, RecvFreeBufferPair(m)
  PROVE  TypeInv'
  <1> DEFINE wc == Head(cq[m])
             next == [at |-> IF wc.last THEN "ReadDone" ELSE "PostRecv"]
  <1>1. /\ OnRecv(m, "FreeBufferPair", next)
        /\ idle_buffer_queue' = [idle_buffer_queue EXCEPT ![m] = Append(@, wc.buffer)]
        /\ writing' = [writing EXCEPT ![m] = TRUE]
        /\ UNCHANGED <<pending_record_queue, cur_record_queue, cur_write_handle, cur_record,
                       buffer_id, sq, qp_vars, mem_vars, app_vars, cb_vars>>
    BY DEF RecvFreeBufferPair, AfterFree, FreeBuffer, StartWriting, queues
  <1>2. next \in Place /\ next # Polling /\ next.at # "ReadCb"
    BY IsPlace DEF Polling
  <1> HIDE DEF next
  <1>3. /\ wc \in Request /\ wc.op = "FreeBufferPair"
        /\ cq' \in [Machine -> Seq(Request)]
        /\ poller' \in [Machine -> Place] /\ poller'[m] = next
        /\ \A n \in Machine : n # m => cq'[n] = cq[n] /\ poller'[n] = poller[n]
        /\ recv_wr' = recv_wr /\ aborted' = aborted
        /\ recv_wr'[m] + Len(cq'[m]) + Busy(m)' = RecvWrNum
    BY <1>1, <1>2, OnRecvType
  <1>4. Append(idle_buffer_queue[m], wc.buffer) \in Seq(Buffer)
    BY <1>3, Requests, Appended DEF TypeInv, TypeOK
  <1> HIDE DEF wc
  <1>5. /\ idle_buffer_queue' \in [Machine -> Seq(Buffer)]
        /\ writing' \in [Machine -> BOOLEAN] /\ writing'[m]
        /\ \A n \in Machine : n # m => writing'[n] = writing[n]
    BY <1>1, <1>4 DEF TypeInv, TypeOK
  <1>6. TypeOK'
    BY <1>1, <1>3, <1>5 DEF TypeInv, TypeOK, qp_vars, mem_vars, app_vars, cb_vars
  <1>7. read_queue' = read_queue
    BY <1>1 DEF qp_vars
  <1>8. HandlersOK(m)'
    BY <1>1, <1>2, <1>3, <1>5, <1>7 DEF TypeInv, HandlersOK, NoEmptyRead
  <1> QED BY <1>1, <1>3, <1>5, <1>6, <1>7, <1>8, TypeInvStep

all_but_helper == <<net_vars, poller, qp_vars, mem_vars, app_vars, cb_vars, aborted>>

LEMMA HelperType ==
  ASSUME TypeInv, NEW m \in Machine, UNCHANGED all_but_helper,
         pending_record_queue' \in [Machine -> Seq(Record)],
         cur_record_queue' \in [Machine -> Seq(Record)],
         idle_buffer_queue' \in [Machine -> Seq(Buffer)],
         cur_write_handle' \in [Machine -> Handle],
         cur_record' \in [Machine -> Record \cup {NoRecord}],
         buffer_id' \in [Machine -> Buffer \cup {NoBuffer}],
         writing' \in [Machine -> BOOLEAN],
         \A n \in Machine : n # m =>
           UNCHANGED <<cur_write_handle[n], cur_record[n], buffer_id[n], writing[n],
                       pending_record_queue[n], cur_record_queue[n]>>,
         cur_write_handle'[m] # "InitWriteHandle" =>
           /\ cur_record'[m] \in Record
           /\ cur_record'[m].offset <= Bytes[cur_record'[m].read]
           /\ NoEmptyRead => cur_record'[m].offset < Bytes[cur_record'[m].read],
         cur_write_handle'[m] = "DoCurWrite" => buffer_id'[m] \in Buffer /\ writing'[m],
         \A i \in DOMAIN pending_record_queue'[m] : pending_record_queue'[m][i].offset = 0,
         \A i \in DOMAIN cur_record_queue'[m] : cur_record_queue'[m][i].offset = 0
  PROVE  TypeInv'
  <1>1. UNCHANGED <<sq, cq, recv_wr, poller, read_queue, read_done_cbs, dealing, send_mem, recv_mem,
                    dst, announcing, announced, deferred, read_cb, done_cb, aborted>>
    BY DEF all_but_helper, net_vars, qp_vars, mem_vars, app_vars, cb_vars
  <1>2. TypeOK'
    BY <1>1 DEF TypeInv, TypeOK
  <1>3. HandlersOK(m)'
    BY <1>1 DEF TypeInv, HandlersOK, Busy, NoEmptyRead
  <1> QED BY <1>1, <1>2, <1>3, TypeInvStep

LEMMA InitWriteHandleType ==
  ASSUME TypeInv, NEW m \in Machine, InitWriteHandle(m), UNCHANGED all_but_helper
  PROVE  TypeInv'
  <1> DEFINE swap == cur_record_queue[m] = <<>>
             cur  == IF swap THEN pending_record_queue[m] ELSE cur_record_queue[m]
  <1>1. CASE cur = <<>>
    <2>1. /\ UNCHANGED <<pending_record_queue, cur_record_queue, cur_write_handle, cur_record,
                         idle_buffer_queue, buffer_id>>
          /\ writing' = [writing EXCEPT ![m] = FALSE]
          /\ cur_write_handle[m] = "InitWriteHandle"
      BY <1>1 DEF InitWriteHandle, SwapQueues, queues, StopWriting
    <2> QED BY <2>1, HelperType DEF TypeInv, TypeOK, HandlersOK
  <1>2. CASE cur # <<>>
    <2>1. /\ cur_record' = [cur_record EXCEPT ![m] = Head(cur)]
          /\ cur_record_queue' = [cur_record_queue EXCEPT ![m] = Tail(cur)]
          /\ pending_record_queue' =
               [pending_record_queue EXCEPT ![m] = IF swap THEN cur_record_queue[m] ELSE @]
          /\ cur_write_handle' = [cur_write_handle EXCEPT ![m] = "RequestBuffer"]
          /\ UNCHANGED <<writing, idle_buffer_queue, buffer_id>>
      BY <1>2 DEF InitWriteHandle, SwapQueues
    <2>2. cur \in Seq(Record) /\ \A i \in DOMAIN cur : cur[i].offset = 0
      BY DEF TypeInv, TypeOK, HandlersOK
    <2>3. pending_record_queue' = [pending_record_queue EXCEPT ![m] = IF swap THEN <<>> ELSE @]
      BY <2>1
    <2> HIDE DEF cur
    <2>4. /\ Head(cur) \in Record /\ Tail(cur) \in Seq(Record) /\ Head(cur).offset = 0
          /\ \A i \in DOMAIN Tail(cur) : Tail(cur)[i].offset = 0
      BY <1>2, <2>2, Ends
    <2>5. 0 <= Bytes[Head(cur).read] /\ (NoEmptyRead => 0 < Bytes[Head(cur).read])
      BY <2>4, Records, WriteHelperAssumption DEF NoEmptyRead
    <2> HIDE DEF swap
    <2>6. /\ pending_record_queue' \in [Machine -> Seq(Record)]
          /\ \A i \in DOMAIN pending_record_queue'[m] : pending_record_queue'[m][i].offset = 0
      <3>1. pending_record_queue[m] \in Seq(Record) /\ <<>> \in Seq(Record)
        BY DEF TypeInv, TypeOK
      <3>2. /\ pending_record_queue'[m] = <<>> \/ pending_record_queue'[m] = pending_record_queue[m]
            /\ pending_record_queue' \in [Machine -> Seq(Record)]
        BY <2>3, <3>1 DEF TypeInv, TypeOK
      <3>3. \A i \in DOMAIN <<>> : FALSE
        OBVIOUS
      <3> QED BY <3>2, <3>3 DEF TypeInv, HandlersOK
    <2>7. /\ cur_record' \in [Machine -> Record \cup {NoRecord}] /\ cur_record'[m] = Head(cur)
          /\ cur_record_queue' \in [Machine -> Seq(Record)] /\ cur_record_queue'[m] = Tail(cur)
          /\ cur_write_handle' \in [Machine -> Handle] /\ cur_write_handle'[m] = "RequestBuffer"
      BY <2>1, <2>4 DEF TypeInv, TypeOK, Handle
    <2>8. \A n \in Machine : n # m =>
           UNCHANGED <<cur_write_handle[n], cur_record[n], buffer_id[n], writing[n],
                       pending_record_queue[n], cur_record_queue[n]>>
      BY <2>1, <2>3 DEF TypeInv, TypeOK
    <2>9. UNCHANGED <<writing, idle_buffer_queue, buffer_id>>
      BY <2>1
    <2>10. /\ idle_buffer_queue' \in [Machine -> Seq(Buffer)]
           /\ buffer_id' \in [Machine -> Buffer \cup {NoBuffer}]
           /\ writing' \in [Machine -> BOOLEAN]
      BY <2>9 DEF TypeInv, TypeOK
    <2>11. /\ cur_record'[m] \in Record
           /\ cur_record'[m].offset <= Bytes[cur_record'[m].read]
           /\ NoEmptyRead => cur_record'[m].offset < Bytes[cur_record'[m].read]
      BY <2>4, <2>5, <2>7
    <2>12. \A i \in DOMAIN cur_record_queue'[m] : cur_record_queue'[m][i].offset = 0
      BY <2>4, <2>7
    <2>13. cur_write_handle'[m] # "DoCurWrite"
      BY <2>7
    <2> QED BY <2>6, <2>7, <2>8, <2>10, <2>11, <2>12, <2>13, HelperType
  <1> QED BY <1>1, <1>2

LEMMA RequestBufferType ==
  ASSUME TypeInv, NEW m \in Machine, RequestBuffer(m), UNCHANGED all_but_helper
  PROVE  TypeInv'
  <1>1. CASE idle_buffer_queue[m] = <<>>
    <2>1. /\ UNCHANGED <<pending_record_queue, cur_record_queue, cur_write_handle, cur_record,
                         idle_buffer_queue, buffer_id>>
          /\ writing' = [writing EXCEPT ![m] = FALSE]
          /\ cur_write_handle[m] = "RequestBuffer"
      BY <1>1 DEF RequestBuffer, queues, StopWriting
    <2> QED BY <2>1, HelperType DEF TypeInv, TypeOK, HandlersOK
  <1>2. CASE idle_buffer_queue[m] # <<>>
    <2>1. /\ buffer_id' = [buffer_id EXCEPT ![m] = Head(idle_buffer_queue[m])]
          /\ idle_buffer_queue' = [idle_buffer_queue EXCEPT ![m] = Tail(@)]
          /\ cur_write_handle' = [cur_write_handle EXCEPT ![m] = "DoCurWrite"]
          /\ cur_write_handle[m] = "RequestBuffer" /\ writing[m]
          /\ UNCHANGED <<pending_record_queue, cur_record_queue, cur_record, writing>>
      BY <1>2 DEF RequestBuffer, queues
    <2>2. /\ Head(idle_buffer_queue[m]) \in Buffer
          /\ Tail(idle_buffer_queue[m]) \in Seq(Buffer)
      BY <1>2, Ends DEF TypeInv, TypeOK
    <2>3. /\ buffer_id' \in [Machine -> Buffer \cup {NoBuffer}] /\ buffer_id'[m] \in Buffer
          /\ idle_buffer_queue' \in [Machine -> Seq(Buffer)]
          /\ cur_write_handle' \in [Machine -> Handle]
          /\ \A n \in Machine : n # m => UNCHANGED <<cur_write_handle[n], buffer_id[n]>>
      BY <2>1, <2>2 DEF TypeInv, TypeOK, Handle
    <2>4. \A n \in Machine : n # m =>
           UNCHANGED <<cur_write_handle[n], cur_record[n], buffer_id[n], writing[n],
                       pending_record_queue[n], cur_record_queue[n]>>
      BY <2>1, <2>3
    <2>5. /\ cur_record'[m] \in Record
          /\ cur_record'[m].offset <= Bytes[cur_record'[m].read]
          /\ NoEmptyRead => cur_record'[m].offset < Bytes[cur_record'[m].read]
          /\ \A i \in DOMAIN pending_record_queue'[m] : pending_record_queue'[m][i].offset = 0
          /\ \A i \in DOMAIN cur_record_queue'[m] : cur_record_queue'[m][i].offset = 0
          /\ writing'[m]
      BY <2>1 DEF TypeInv, HandlersOK
    <2> QED BY <2>1, <2>3, <2>4, <2>5, HelperType DEF TypeInv, TypeOK
  <1> QED BY <1>1, <1>2

LEMMA WriteLoopType ==
  ASSUME TypeInv, NEW m \in Machine, WriteLoop(m)
  PROVE  TypeInv'
  BY InitWriteHandleType, RequestBufferType DEF WriteLoop, all_but_helper

\* The elements of a piece: as many as it moves, each from its own block.
LEMMA Elements ==
  ASSUME NEW b \in Buffer, NEW n \in 0 .. BufferBytes
  PROVE  /\ PieceRequests(b, n) \in Seq(Request) /\ Len(PieceRequests(b, n)) = n
         /\ DOMAIN PieceRequests(b, n) = 1 .. n
         /\ \A i \in 1 .. n : PieceRequests(b, n)[i]
                                = RdmaWrite(b, i - 1, IF i = n THEN b ELSE IntMax)
  <1>1. BufferBytes \in Nat /\ n \in Nat
    BY WriteHelperAssumption
  <1>2. \A i \in 1 .. n : i - 1 \in Unit
    BY <1>1 DEF Unit
  <1>3. \A i \in 1 .. n : RdmaWrite(b, i - 1, IF i = n THEN b ELSE IntMax) \in Request
    BY <1>2, IsRequest
  <1>4. PieceRequests(b, n) \in [1 .. n -> Request]
    BY <1>3 DEF PieceRequests
  <1>5. PieceRequests(b, n) \in Seq(Request)
    BY <1>1, <1>4, SeqDef
  <1> QED BY <1>1, <1>5 DEF PieceRequests

LEMMA WritePieceType ==
  ASSUME TypeInv, NEW m \in Machine, WritePiece(m)
  PROVE  TypeInv'
  <1> DEFINE r == cur_record[m]
             n == TransferBytes(r)
             b == buffer_id[m]
             rest == [r EXCEPT !.offset = @ + n]
  <1>1. /\ writing[m] /\ cur_write_handle[m] = "DoCurWrite"
        /\ cur_record' = [cur_record EXCEPT ![m] = rest]
        /\ cur_write_handle' = [cur_write_handle EXCEPT ![m] = HandleAfter(rest)]
        /\ send_mem' = [send_mem EXCEPT ![m][b] =
                          [i \in Unit |-> IF i < n THEN SourceData(r.read, r.offset + i)
                                                   ELSE @[i]]]
        /\ Post(m, PieceRequests(b, n))
        /\ UNCHANGED <<pending_record_queue, cur_record_queue, idle_buffer_queue, buffer_id,
                       writing, cq, recv_wr, poller, qp_vars, recv_mem, dst, app_vars, cb_vars,
                       aborted>>
    BY DEF WritePiece, DoCurWrite, SgeCount, queues
  <1>2. r \in Record /\ r.offset <= Bytes[r.read] /\ b \in Buffer
    BY <1>1 DEF TypeInv, HandlersOK
  <1>3. n \in 0 .. BufferBytes /\ n \in Nat /\ r.offset + n <= Bytes[r.read]
    BY <1>2, TransferBounds, WriteHelperAssumption
  <1>4. rest \in Record /\ rest.offset = r.offset + n /\ rest.read = r.read
    BY <1>2, <1>3 DEF Record
  <1> HIDE DEF n, rest
  <1>5. PieceRequests(b, n) \in Seq(Request)
    BY <1>2, <1>3, Elements
  <1> HIDE DEF b
  <1>6. sq' \in [Machine -> Seq(Request)]
    BY <1>1, <1>5, PostType
  <1>7. send_mem' \in [Machine -> [Buffer -> [Unit -> Data]]]
    <2>1. send_mem \in [Machine -> [Buffer -> [Unit -> Data]]]
      BY DEF TypeInv, TypeOK
    <2>2. \A i \in Unit : i \in Nat
      BY WriteHelperAssumption DEF Unit
    <2>3. \A i \in Unit : SourceData(r.read, r.offset + i) \in Data
      <3> SUFFICES ASSUME NEW i \in Unit PROVE SourceData(r.read, r.offset + i) \in Data
        OBVIOUS
      <3>1. r.read \in Read /\ r.offset + i \in Nat
        BY <1>2, <2>2, Records
      <3>2. <<r.read, r.offset + i>> \in Data /\ Garbage \in Data
        BY <3>1 DEF Data
      <3> QED BY <3>2 DEF SourceData
    <2> DEFINE piece == [i \in Unit |-> IF i < n THEN SourceData(r.read, r.offset + i)
                                                 ELSE send_mem[m][b][i]]
    <2>4. piece \in [Unit -> Data]
      BY <1>2, <2>1, <2>3
    <2>5. send_mem' = [send_mem EXCEPT ![m][b] = piece]
      BY <1>1
    <2> HIDE DEF piece
    <2> QED BY <1>2, <2>1, <2>4, <2>5
  <1>8. /\ cur_record' \in [Machine -> Record \cup {NoRecord}] /\ cur_record'[m] = rest
        /\ \A q \in Machine : q # m => UNCHANGED <<cur_record[q], cur_write_handle[q]>>
    BY <1>1, <1>4 DEF TypeInv, TypeOK
  <1>9. /\ cur_write_handle' \in [Machine -> Handle]
        /\ cur_write_handle'[m] \in {"RequestBuffer", "InitWriteHandle"}
        /\ cur_write_handle'[m] = "RequestBuffer" => rest.offset < Bytes[rest.read]
    BY <1>1 DEF TypeInv, TypeOK, Handle, HandleAfter
  <1>10. TypeOK'
    BY <1>1, <1>6, <1>7, <1>8, <1>9 DEF TypeInv, TypeOK, qp_vars, app_vars, cb_vars
  <1>11. read_queue' = read_queue
    BY <1>1 DEF qp_vars
  <1>12. rest.offset <= Bytes[rest.read]
    BY <1>3, <1>4
  <1>13. HandlersOK(m)'
    BY <1>1, <1>4, <1>8, <1>9, <1>11, <1>12 DEF TypeInv, HandlersOK, Busy, NoEmptyRead
  <1> QED BY <1>1, <1>8, <1>10, <1>11, <1>13, TypeInvStep

LEMMA AbortType ==
  ASSUME TypeInv, NEW m \in Machine, Abort(m)
  PROVE  TypeInv'
  <1>1. /\ aborted' = [aborted EXCEPT ![m] = TRUE]
        /\ UNCHANGED <<helper_vars, net_vars, poller, qp_vars, mem_vars, app_vars, cb_vars>>
    BY DEF Abort
  <1>2. TypeOK'
    BY <1>1 DEF TypeInv, TypeOK, helper_vars, net_vars, qp_vars, mem_vars, app_vars, cb_vars
  <1>3. \A n \in Machine : HandlersOK(n)'
    BY <1>1, HandlersKeep DEF TypeInv, helper_vars, net_vars, qp_vars
  <1> QED BY <1>2, <1>3 DEF TypeInv

LEMMA ReadDoneCbType ==
  ASSUME TypeInv, NEW m \in Machine, ReadDoneCb(m)
  PROVE  TypeInv'
  <1>1. CASE Abort(m)
    BY <1>1, AbortType
  <1>2. CASE /\ At(m, "ReadDone") /\ read_done_cbs[m] # <<>>
             /\ done_cb' = done_cb \cup {Head(read_done_cbs[m])}
             /\ read_done_cbs' = [read_done_cbs EXCEPT ![m] = Tail(@)]
             /\ poller' = [poller EXCEPT ![m] = [at |-> "PostRecv"]]
             /\ UNCHANGED <<helper_vars, net_vars, read_queue, dealing, mem_vars, app_vars,
                            read_cb, aborted>>
    <2>1. /\ Head(read_done_cbs[m]) \in Read /\ Tail(read_done_cbs[m]) \in Seq(Read)
      BY <1>2, Ends DEF TypeInv, TypeOK
    <2>2. /\ done_cb' \subseteq Read /\ read_done_cbs' \in [Machine -> Seq(Read)]
          /\ poller' \in [Machine -> Place] /\ poller'[m] = [at |-> "PostRecv"]
          /\ \A n \in Machine : n # m => poller'[n] = poller[n]
      BY <1>2, <2>1, IsPlace DEF TypeInv, TypeOK
    <2>3. TypeOK'
      BY <1>2, <2>2 DEF TypeInv, TypeOK, helper_vars, net_vars, mem_vars, app_vars
    <2>4. Busy(m)' = Busy(m) /\ poller'[m].at # "ReadCb"
      BY <1>2, <2>2 DEF Busy, Polling, At
    <2>5. UNCHANGED <<cur_write_handle, cur_record, buffer_id, writing, pending_record_queue,
                      cur_record_queue, read_queue, recv_wr, cq>>
      BY <1>2 DEF helper_vars, net_vars
    <2>6. HandlersOK(m)'
      BY <2>4, <2>5 DEF TypeInv, HandlersOK, NoEmptyRead
    <2> QED BY <2>2, <2>3, <2>5, <2>6, TypeInvStep
  <1> QED BY <1>1, <1>2 DEF ReadDoneCb

LEMMA RecvElementType ==
  ASSUME TypeInv, NEW m \in Machine, RecvElement(m)
  PROVE  TypeInv'
  <1>1. /\ OnRecv(m, "RdmaWrite", [at |-> "PostRecv"])
        /\ UNCHANGED <<helper_vars, sq, qp_vars, mem_vars, app_vars, cb_vars>>
    BY DEF RecvElement
  <1>2. [at |-> "PostRecv"] \in Place /\ [at |-> "PostRecv"] # Polling
    BY IsPlace DEF Polling
  <1>3. /\ cq' \in [Machine -> Seq(Request)]
        /\ poller' \in [Machine -> Place] /\ poller'[m] = [at |-> "PostRecv"]
        /\ \A n \in Machine : n # m => cq'[n] = cq[n] /\ poller'[n] = poller[n]
        /\ recv_wr' = recv_wr /\ aborted' = aborted
        /\ recv_wr'[m] + Len(cq'[m]) + Busy(m)' = RecvWrNum
    BY <1>1, <1>2, OnRecvType
  <1>4. TypeOK'
    BY <1>1, <1>3 DEF TypeInv, TypeOK, helper_vars, qp_vars, mem_vars, app_vars, cb_vars
  <1>5. UNCHANGED <<cur_write_handle, cur_record, buffer_id, writing, pending_record_queue,
                    cur_record_queue, read_queue>>
    BY <1>1 DEF helper_vars, qp_vars
  <1>6. HandlersOK(m)'
    BY <1>3, <1>5 DEF TypeInv, HandlersOK, NoEmptyRead
  <1> QED BY <1>3, <1>4, <1>5, <1>6, TypeInvStep

LEMMA SyncReadType ==
  ASSUME TypeInv, NEW m \in Machine, SyncRead(m)
  PROVE  TypeInv'
  <1> DEFINE b == Head(cq[m]).imm
             r == Head(read_queue[m])
             t == TransferBytes(r)
             last == r.offset + t >= Bytes[r.read]
             next == [at |-> IF last THEN "ReadCb" ELSE "PostFree", buffer |-> b, last |-> last]
  <1>1. CASE Abort(m)
    BY <1>1, AbortType
  <1>2. CASE /\ read_queue[m] # <<>> /\ OnRecv(m, "RdmaWrite", next)
             /\ dst' = [dst EXCEPT ![r.read] =
                  [i \in DOMAIN @ |-> IF i \in r.offset .. r.offset + t - 1
                                        THEN recv_mem[m][b][i - r.offset] ELSE @[i]]]
             /\ read_queue' = [read_queue EXCEPT ![m][1].offset = @ + t]
             /\ b # IntMax
             /\ UNCHANGED <<helper_vars, sq, read_done_cbs, dealing, send_mem, recv_mem,
                            app_vars, cb_vars>>
    <2>1. /\ read_queue[m] \in Seq(Record) /\ r \in Record /\ r = read_queue[m][1]
          /\ 1 \in DOMAIN read_queue[m] /\ r.offset <= Bytes[r.read]
      <3>1. read_queue[m] \in Seq(Record)
        BY DEF TypeInv, TypeOK
      <3>2. /\ r \in Record /\ r = read_queue[m][1] /\ 1 \in DOMAIN read_queue[m]
        <4>1. read_queue[m] # <<>>
          BY <1>2
        <4> QED BY <3>1, <4>1, Ends
      <3> QED BY <3>1, <3>2 DEF TypeInv, HandlersOK
    <2>2. t \in 0 .. BufferBytes /\ t \in Nat /\ r.offset + t <= Bytes[r.read]
      BY <2>1, TransferBounds, WriteHelperAssumption
    <2>3. last \in BOOLEAN
      OBVIOUS
    <2>4. b \in Buffer
      <3>1. cq[m] # <<>> /\ Head(cq[m]).op = "RdmaWrite"
        BY <1>2 DEF OnRecv
      <3>2. Head(cq[m]) \in Request
        BY <3>1, Ends DEF TypeInv, TypeOK
      <3> QED BY <1>2, <3>1, <3>2, Requests
    <2>5. next \in Place /\ next # Polling /\ (next.at = "ReadCb" => next.last)
      BY <2>3, <2>4, IsPlace DEF Polling
    <2> HIDE DEF next
    <2>6. /\ cq' \in [Machine -> Seq(Request)]
          /\ poller' \in [Machine -> Place] /\ poller'[m] = next
          /\ \A n \in Machine : n # m => cq'[n] = cq[n] /\ poller'[n] = poller[n]
          /\ recv_wr' = recv_wr /\ aborted' = aborted
          /\ recv_wr'[m] + Len(cq'[m]) + Busy(m)' = RecvWrNum
      BY <1>2, <2>5, OnRecvType
    <2> HIDE DEF b
    <2>7. DOMAIN dst' = Read /\ \A k \in Read : dst'[k] \in [0 .. Bytes[k] - 1 -> Data]
      <3>1. r.read \in Read /\ r.offset \in Nat
        BY <2>1, Records
      <3>2. recv_mem[m][b] \in [Unit -> Data]
        BY <2>4 DEF TypeInv, TypeOK
      <3>3. \A i \in r.offset .. r.offset + t - 1 : i - r.offset \in Unit
        BY <2>2, <3>1, WriteHelperAssumption DEF Unit
      <3>4. dst[r.read] \in [0 .. Bytes[r.read] - 1 -> Data]
        BY <3>1 DEF TypeInv, TypeOK
      <3> HIDE DEF t, r
      <3> DEFINE copy == [i \in DOMAIN dst[r.read] |->
                            IF i \in r.offset .. r.offset + t - 1
                              THEN recv_mem[m][b][i - r.offset] ELSE dst[r.read][i]]
      <3>5. copy \in [0 .. Bytes[r.read] - 1 -> Data]
        BY <3>2, <3>3, <3>4
      <3>6. dst' = [dst EXCEPT ![r.read] = copy]
        BY <1>2
      <3> HIDE DEF copy
      <3> QED BY <3>5, <3>6 DEF TypeInv, TypeOK
    <2> HIDE DEF t, r
    <2>8. [r EXCEPT !.offset = @ + t] \in Record /\ [r EXCEPT !.offset = @ + t].read = r.read
          /\ [r EXCEPT !.offset = @ + t].offset = r.offset + t
      BY <2>1, <2>2 DEF Record
    <2>9. /\ read_queue' \in [Machine -> Seq(Record)] /\ read_queue'[m] # <<>>
          /\ \A n \in Machine : n # m => read_queue'[n] = read_queue[n]
          /\ \A i \in DOMAIN read_queue'[m] :
               read_queue'[m][i].offset <= Bytes[read_queue'[m][i].read]
      <3> DEFINE q == read_queue[m]
                 w == [r EXCEPT !.offset = @ + t]
                 v == [q EXCEPT ![1] = w]
      <3>1. q \in Seq(Record) /\ 1 \in 1 .. Len(q) /\ Len(q) \in Nat /\ DOMAIN q = 1 .. Len(q)
        BY <2>1, LenProperties
      <3>2. \A i \in 1 .. Len(q) : q[i].offset <= Bytes[q[i].read]
        BY <3>1 DEF TypeInv, HandlersOK
      <3>3. read_queue' = [read_queue EXCEPT ![m] = v]
        BY <1>2, <2>1 DEF r, TypeInv, TypeOK
      <3>4. w \in Record /\ w.offset <= Bytes[w.read]
        BY <2>2, <2>8
      <3> HIDE DEF q, w
      <3>5. v \in Seq(Record) /\ Len(v) = Len(q) /\ \A j \in 1 .. Len(q) : v[j] = IF j = 1 THEN w ELSE q[j]
        BY <3>1, <3>4, ExceptSeq
      <3> HIDE DEF v
      <3>6. DOMAIN v = 1 .. Len(q) /\ v # <<>>
        BY <3>1, <3>5
      <3>7. \A j \in 1 .. Len(q) : v[j].offset <= Bytes[v[j].read]
        BY <3>2, <3>4, <3>5
      <3>8. /\ read_queue' \in [Machine -> Seq(Record)] /\ read_queue'[m] = v
            /\ \A n \in Machine : n # m => read_queue'[n] = read_queue[n]
        BY <3>3, <3>5 DEF TypeInv, TypeOK
      <3> QED BY <3>6, <3>7, <3>8
    <2>10. TypeOK'
      BY <1>2, <2>6, <2>7, <2>9 DEF TypeInv, TypeOK, helper_vars, app_vars, cb_vars
    <2>11. UNCHANGED <<cur_write_handle, cur_record, buffer_id, writing, pending_record_queue,
                       cur_record_queue>>
      BY <1>2 DEF helper_vars
    <2>12. HandlersOK(m)'
      BY <2>5, <2>6, <2>9, <2>11 DEF TypeInv, HandlersOK, NoEmptyRead
    <2> QED BY <2>6, <2>9, <2>10, <2>11, <2>12, TypeInvStep
  <1> QED BY <1>1, <1>2 DEF SyncRead, SgeCount

LEMMA ReadCbType ==
  ASSUME TypeInv, NEW m \in Machine, ReadCb(m)
  PROVE  TypeInv'
  <1>1. /\ poller[m].at = "ReadCb"
        /\ read_cb' = read_cb \cup {Head(read_queue[m]).read}
        /\ read_queue' = [read_queue EXCEPT ![m] = Tail(@)]
        /\ poller' = [poller EXCEPT ![m].at = "PostFree"]
        /\ UNCHANGED <<helper_vars, net_vars, read_done_cbs, dealing, mem_vars, app_vars, done_cb,
                       aborted>>
    BY DEF ReadCb, At
  <1>2. read_queue[m] # <<>> /\ read_queue[m] \in Seq(Record) /\ poller[m] \in Place
    BY <1>1 DEF TypeInv, TypeOK, HandlersOK
  <1>3. /\ Head(read_queue[m]) \in Record /\ Tail(read_queue[m]) \in Seq(Record)
        /\ \A i \in DOMAIN Tail(read_queue[m]) :
             Tail(read_queue[m])[i].offset <= Bytes[Tail(read_queue[m])[i].read]
    BY <1>2, Ends DEF TypeInv, HandlersOK
  <1>4. poller'[m] = [at |-> "PostFree", buffer |-> poller[m].buffer, last |-> poller[m].last]
    BY <1>1, <1>2, Places DEF TypeInv, TypeOK
  <1>5. poller'[m] \in Place
    BY <1>1, <1>2, <1>4, Places, IsPlace
  <1>6. /\ poller' \in [Machine -> Place] /\ read_queue' \in [Machine -> Seq(Record)]
        /\ read_cb' \subseteq Read /\ read_queue'[m] = Tail(read_queue[m])
        /\ \A n \in Machine : n # m => poller'[n] = poller[n] /\ read_queue'[n] = read_queue[n]
    BY <1>1, <1>3, <1>5, Records DEF TypeInv, TypeOK
  <1>7. TypeOK'
    BY <1>1, <1>6 DEF TypeInv, TypeOK, helper_vars, net_vars, mem_vars, app_vars
  <1>8. Busy(m)' = Busy(m) /\ poller'[m].at # "ReadCb"
    BY <1>1, <1>4 DEF Busy, Polling
  <1>9. UNCHANGED <<cur_write_handle, cur_record, buffer_id, writing, pending_record_queue,
                    cur_record_queue, recv_wr, cq>>
    BY <1>1 DEF helper_vars, net_vars
  <1>10. HandlersOK(m)'
    BY <1>3, <1>6, <1>8, <1>9 DEF TypeInv, HandlersOK, NoEmptyRead
  <1> QED BY <1>6, <1>7, <1>9, <1>10, TypeInvStep

LEMMA PostFreeBufferPairType ==
  ASSUME TypeInv, NEW m \in Machine, PostFreeBufferPair(m)
  PROVE  TypeInv'
  <1>1. /\ poller[m].at = "PostFree"
        /\ Post(m, <<FreeBufferPair(poller[m].buffer, poller[m].last)>>)
        /\ poller' = [poller EXCEPT ![m] = [at |-> "PostRecv"]]
        /\ UNCHANGED <<helper_vars, cq, recv_wr, qp_vars, mem_vars, app_vars, cb_vars, aborted>>
    BY DEF PostFreeBufferPair, At
  <1>2. poller[m] \in Place
    BY DEF TypeInv, TypeOK
  <1>3. FreeBufferPair(poller[m].buffer, poller[m].last) \in Request
    BY <1>1, <1>2, Places, IsRequest
  <1>4. sq' \in [Machine -> Seq(Request)]
    BY <1>1, <1>3, PostOne
  <1>5. /\ poller' \in [Machine -> Place] /\ poller'[m] = [at |-> "PostRecv"]
        /\ \A n \in Machine : n # m => poller'[n] = poller[n]
    BY <1>1, IsPlace DEF TypeInv, TypeOK
  <1>6. TypeOK'
    BY <1>1, <1>4, <1>5 DEF TypeInv, TypeOK, helper_vars, qp_vars, mem_vars, app_vars, cb_vars
  <1>7. Busy(m)' = Busy(m) /\ poller'[m].at # "ReadCb"
    BY <1>1, <1>5 DEF Busy, Polling
  <1>8. UNCHANGED <<cur_write_handle, cur_record, buffer_id, writing, pending_record_queue,
                    cur_record_queue, read_queue, recv_wr, cq>>
    BY <1>1 DEF helper_vars, qp_vars
  <1>9. HandlersOK(m)'
    BY <1>7, <1>8 DEF TypeInv, HandlersOK, NoEmptyRead
  <1> QED BY <1>5, <1>6, <1>8, <1>9, TypeInvStep

LEMMA PostRecvRequestType ==
  ASSUME TypeInv, NEW m \in Machine, PostRecvRequest(m)
  PROVE  TypeInv'
  <1>1. /\ poller[m].at = "PostRecv"
        /\ recv_wr' = [recv_wr EXCEPT ![m] = @ + 1]
        /\ poller' = [poller EXCEPT ![m] = Polling]
        /\ UNCHANGED <<helper_vars, sq, cq, qp_vars, mem_vars, app_vars, cb_vars, aborted>>
    BY DEF PostRecvRequest, At
  <1>2. /\ Busy(m) = 1 /\ recv_wr[m] \in 0 .. RecvWrNum /\ Len(cq[m]) \in Nat
        /\ recv_wr[m] + Len(cq[m]) + Busy(m) = RecvWrNum
    BY <1>1, LenProperties DEF TypeInv, TypeOK, HandlersOK, Busy, Polling
  <1>3. /\ poller' \in [Machine -> Place] /\ poller'[m] = Polling
        /\ \A n \in Machine : n # m => poller'[n] = poller[n] /\ recv_wr'[n] = recv_wr[n]
        /\ recv_wr'[m] = recv_wr[m] + 1
    BY <1>1, IsPlace DEF TypeInv, TypeOK
  <1>4. recv_wr[m] + 1 \in 0 .. RecvWrNum
    BY <1>2, ReadTransferAssumption
  <1>5. recv_wr' \in [Machine -> 0 .. RecvWrNum]
    BY <1>1, <1>4 DEF TypeInv, TypeOK
  <1>6. TypeOK'
    BY <1>1, <1>3, <1>5 DEF TypeInv, TypeOK, helper_vars, qp_vars, mem_vars, app_vars, cb_vars
  <1>7. Busy(m)' = 0 /\ poller'[m].at # "ReadCb"
    BY <1>3 DEF Busy, Polling
  <1>8. UNCHANGED <<cur_write_handle, cur_record, buffer_id, writing, pending_record_queue,
                    cur_record_queue, read_queue, cq>>
    BY <1>1 DEF helper_vars, qp_vars
  <1>9. recv_wr'[m] + Len(cq'[m]) + Busy(m)' = RecvWrNum
    BY <1>2, <1>3, <1>7, <1>8, ReadTransferAssumption
  <1>10. HandlersOK(m)'
    BY <1>7, <1>8, <1>9 DEF TypeInv, HandlersOK, NoEmptyRead
  <1> QED BY <1>3, <1>6, <1>8, <1>10, TypeInvStep

LEMMA DeliverType ==
  ASSUME TypeInv, NEW m \in Machine, Deliver(m)
  PROVE  TypeInv'
  <1> DEFINE p == Peer(m)
             wr == Head(sq[m])
  <1>1. /\ sq[m] # <<>> /\ recv_wr[p] > 0
        /\ recv_mem' = IF wr.op # "RdmaWrite" THEN recv_mem
                       ELSE [recv_mem EXCEPT ![p][wr.buffer][wr.block] =
                               send_mem[m][wr.buffer][wr.block]]
        /\ cq' = [cq EXCEPT ![p] = Append(@, wr)]
        /\ sq' = [sq EXCEPT ![m] = Tail(@)]
        /\ recv_wr' = [recv_wr EXCEPT ![p] = @ - 1]
        /\ UNCHANGED <<helper_vars, poller, qp_vars, send_mem, dst, app_vars, cb_vars, aborted>>
    BY DEF Deliver
  <1>2. p \in Machine /\ p # m
    BY Peers
  <1>3. wr \in Request /\ Tail(sq[m]) \in Seq(Request)
    BY <1>1, Ends DEF TypeInv, TypeOK
  <1>4. /\ Append(cq[p], wr) \in Seq(Request) /\ Len(cq[p]) \in Nat
        /\ Len(Append(cq[p], wr)) = Len(cq[p]) + 1
    BY <1>2, <1>3, Appended DEF TypeInv, TypeOK
  <1>5. recv_mem' \in [Machine -> [Buffer -> [Unit -> Data]]]
    <2>1. CASE wr.op # "RdmaWrite"
      BY <1>1, <2>1 DEF TypeInv, TypeOK
    <2>2. CASE wr.op = "RdmaWrite"
      <3>1. wr.buffer \in Buffer /\ wr.block \in Unit
        BY <1>3, <2>2, Requests
      <3>2. send_mem[m][wr.buffer][wr.block] \in Data
        BY <3>1 DEF TypeInv, TypeOK
      <3> DEFINE old == recv_mem[p][wr.buffer]
                 x == send_mem[m][wr.buffer][wr.block]
      <3>3. old \in [Unit -> Data] /\ recv_mem[p] \in [Buffer -> [Unit -> Data]]
        <4>1. recv_mem \in [Machine -> [Buffer -> [Unit -> Data]]]
          BY DEF TypeInv, TypeOK
        <4> QED BY <1>2, <3>1, <4>1
      <3>4. recv_mem' = [recv_mem EXCEPT ![p] = [@ EXCEPT ![wr.buffer] = [old EXCEPT ![wr.block] = x]]]
        BY <1>1, <1>2, <2>2, <3>1 DEF TypeInv, TypeOK
      <3> HIDE DEF old, x
      <3>5. [old EXCEPT ![wr.block] = x] \in [Unit -> Data]
        BY <3>1, <3>2, <3>3 DEF x
      <3>6. [recv_mem[p] EXCEPT ![wr.buffer] = [old EXCEPT ![wr.block] = x]]
              \in [Buffer -> [Unit -> Data]]
        BY <3>1, <3>3, <3>5
      <3> QED BY <1>2, <3>4, <3>6 DEF TypeInv, TypeOK
    <2> QED BY <2>1, <2>2
  <1> HIDE DEF p, wr
  <1>6. /\ sq' \in [Machine -> Seq(Request)] /\ cq' \in [Machine -> Seq(Request)]
        /\ cq'[p] = Append(cq[p], wr) /\ recv_wr'[p] = recv_wr[p] - 1
        /\ \A n \in Machine : n # p => cq'[n] = cq[n] /\ recv_wr'[n] = recv_wr[n]
    BY <1>1, <1>2, <1>3, <1>4 DEF TypeInv, TypeOK
  <1>7. recv_wr[p] \in 0 .. RecvWrNum /\ recv_wr[p] - 1 \in 0 .. RecvWrNum
    <2>1. recv_wr[p] \in 0 .. RecvWrNum
      BY <1>2 DEF TypeInv, TypeOK
    <2> QED BY <1>1, <2>1, ReadTransferAssumption
  <1>8. recv_wr' \in [Machine -> 0 .. RecvWrNum]
    BY <1>1, <1>7 DEF TypeInv, TypeOK
  <1>9. TypeOK'
    BY <1>1, <1>5, <1>6, <1>8 DEF TypeInv, TypeOK, helper_vars, qp_vars, app_vars, cb_vars
  <1>10. UNCHANGED <<cur_write_handle, cur_record, buffer_id, writing, pending_record_queue,
                     cur_record_queue, read_queue, poller>>
    BY <1>1 DEF helper_vars, qp_vars
  <1>11. recv_wr'[p] + Len(cq'[p]) + Busy(p)' = RecvWrNum
    <2>1. recv_wr[p] + Len(cq[p]) + Busy(p) = RecvWrNum /\ Busy(p)' = Busy(p) /\ Busy(p) \in {0, 1}
      BY <1>2, <1>10 DEF TypeInv, HandlersOK, Busy
    <2>2. Len(cq'[p]) = Len(cq[p]) + 1
      BY <1>4, <1>6
    <2>3. recv_wr[p] \in Int /\ Len(cq[p]) \in Int /\ Busy(p) \in Int /\ RecvWrNum \in Int
      BY <1>4, <1>7, <2>1, ReadTransferAssumption
    <2>4. recv_wr'[p] = recv_wr[p] - 1
      BY <1>6
    <2> QED BY <2>1, <2>2, <2>3, <2>4
  <1>12. HandlersOK(p)'
    BY <1>2, <1>10, <1>11 DEF TypeInv, HandlersOK, NoEmptyRead
  <1> QED BY <1>2, <1>6, <1>9, <1>10, <1>12, TypeInvStep

LEMMA TypeInvNext == TypeInv /\ [Next]_vars => TypeInv'
  <1> SUFFICES ASSUME TypeInv, [Next]_vars PROVE TypeInv'
    OBVIOUS
  <1>1. ASSUME NEW m \in Machine, PollCQ(m) PROVE TypeInv'
    BY <1>1, RecvUserMsgType, RecvPleaseWriteType, RecvFreeBufferPairType, RecvElementType,
       SyncReadType, WriteLoopType, WritePieceType, ReadDoneCbType, ReadCbType,
       PostFreeBufferPairType, PostRecvRequestType DEF PollCQ
  <1>2. ASSUME NEW m \in Machine, NEW k \in Read,
               \/ RegisterReadDoneCb(m, k) \/ SendMsg(m, k)
               \/ WorkerDoRead(m, k) \/ PostPleaseWrite(m, k)
        PROVE  TypeInv'
    BY <1>2, RegisterReadDoneCbType, SendMsgType, WorkerDoReadType, PostPleaseWriteType
  <1>3. CASE UNCHANGED vars
    <2>1. UNCHANGED all_but_app /\ UNCHANGED <<sq, read_done_cbs, announcing, announced,
                                              deferred, dealing>>
      BY <1>3 DEF vars, all_but_app, net_vars, qp_vars, app_vars
    <2> QED BY <2>1, AppType DEF TypeInv, TypeOK
  <1> QED BY <1>1, <1>2, <1>3, DeliverType DEF Next

\* The variables always hold values of their types, with every handler finding
\* what it counts on, and no more receive requests than were posted at first.
LEMMA TypeInvariant == Spec => []TypeInv
  <1> QED BY TypeInvInit, TypeInvNext, PTL DEF Spec

\* Every reachable state, for any reads and buffers, has the types of the C++
\* declarations, and a connection never holds more receive requests than
\* PostAllRecvRequest posted.
THEOREM TypeCorrect == Spec => []TypeOK
  <1>1. TypeInv => TypeOK
    BY DEF TypeInv
  <1> QED BY <1>1, TypeInvariant, PTL
--------------------------------------------------------------------------------
(* The second layer: where the buffers are.                                *)

\* What carries buffer b to the reader, and back.
Writes(b) == {r \in Request : r.op = "RdmaWrite" /\ r.imm = b}
Frees(b) == {r \in Request : r.op = "FreeBufferPair" /\ r.buffer = b}

\* The members of T in a queue: one of them, none, and a change of the queue
\* that makes no difference.
Where(q, T) == {i \in DOMAIN q : q[i] \in T}
OneOf(q, T) == \E i : Where(q, T) = {i}
NoneOf(q, T) == Where(q, T) = {}
Steady(q, r, T) == (OneOf(q, T) => OneOf(r, T)) /\ (NoneOf(q, T) => NoneOf(r, T))

Held(m, b) == cur_write_handle[m] = "DoCurWrite" /\ buffer_id[m] = b
Copied(m, b) == poller[m].at \in {"ReadCb", "PostFree"} /\ poller[m].buffer = b

\* Buffer b of source m is at l and nowhere else.
HeldAt(m, b, l) ==
  /\ IF l = "idle" THEN OneOf(idle_buffer_queue[m], {b}) ELSE NoneOf(idle_buffer_queue[m], {b})
  /\ Held(m, b) <=> l = "held"
  /\ IF l = "write" THEN OneOf(sq[m], Writes(b)) ELSE NoneOf(sq[m], Writes(b))
  /\ IF l = "arrived" THEN OneOf(cq[Peer(m)], Writes(b)) ELSE NoneOf(cq[Peer(m)], Writes(b))
  /\ Copied(Peer(m), b) <=> l = "copied"
  /\ IF l = "free" THEN OneOf(sq[Peer(m)], Frees(b)) ELSE NoneOf(sq[Peer(m)], Frees(b))
  /\ IF l = "freed" THEN OneOf(cq[m], Frees(b)) ELSE NoneOf(cq[m], Frees(b))

Somewhere(m, b) ==
  \E l \in {"idle", "held", "write", "arrived", "copied", "free", "freed"} : HeldAt(m, b, l)

HeldOnce == \A m \in Machine, b \in Buffer : Somewhere(m, b)

LEMMA SteadySame == \A q, T : Steady(q, q, T)
  BY DEF Steady

LEMMA SteadyAppend ==
  ASSUME NEW S, NEW q \in Seq(S), NEW x \in S, NEW T
  PROVE  /\ x \notin T => Steady(q, Append(q, x), T)
         /\ x \in T /\ NoneOf(q, T) => OneOf(Append(q, x), T)
  <1> DEFINE r == Append(q, x)
  <1>1. /\ Len(q) \in Nat /\ DOMAIN q = 1 .. Len(q) /\ DOMAIN r = 1 .. Len(q) + 1
        /\ \A i \in 1 .. Len(q) : r[i] = q[i]
        /\ r[Len(q) + 1] = x
    BY AppendProperties, LenProperties
  <1> HIDE DEF r
  <1>2. x \notin T => Where(r, T) = Where(q, T)
    BY <1>1 DEF Where
  <1>3. x \in T /\ Where(q, T) = {} => Where(r, T) = {Len(q) + 1}
    BY <1>1 DEF Where
  <1> QED BY <1>2, <1>3 DEF Steady, OneOf, NoneOf, r

LEMMA SteadyTail ==
  ASSUME NEW S, NEW q \in Seq(S), q # <<>>, NEW T
  PROVE  /\ Head(q) \notin T => Steady(q, Tail(q), T)
         /\ Head(q) \in T => ~NoneOf(q, T) /\ (OneOf(q, T) => NoneOf(Tail(q), T))
  <1> DEFINE t == Tail(q)
  <1>1. /\ Len(q) \in Nat \ {0} /\ DOMAIN q = 1 .. Len(q) /\ DOMAIN t = 1 .. Len(q) - 1
        /\ \A i \in 1 .. Len(q) - 1 : t[i] = q[i + 1]
        /\ Head(q) = q[1]
    BY Ends
  <1> HIDE DEF t
  <1>2. \A i : i \in Where(t, T) => i \in Nat /\ i + 1 \in Where(q, T)
    BY <1>1 DEF Where
  <1>3. \A i : i \in Where(q, T) => i = 1 \/ (i - 1 \in Where(t, T) /\ i - 1 \in Nat)
    BY <1>1 DEF Where
  <1>4. 1 \in Where(q, T) <=> Head(q) \in T
    BY <1>1 DEF Where
  <1>5. \A i : i \in Where(t, T) => i \in 1 .. Len(q) - 1
    BY <1>1 DEF Where
  <1>6. ASSUME Head(q) \notin T, NEW i, Where(q, T) = {i} PROVE \E j : Where(t, T) = {j}
    <2>1. i - 1 \in Where(t, T) /\ i - 1 \in Nat
      BY <1>3, <1>4, <1>6
    <2>2. \A j \in Where(t, T) : j \in Nat /\ j + 1 = i
      BY <1>2, <1>6
    <2>3. \A j \in Where(t, T) : j = i - 1
      BY <2>2
    <2> QED BY <2>1, <2>3
  <1>7. Head(q) \notin T /\ Where(q, T) = {} => Where(t, T) = {}
    BY <1>2
  <1>8. ASSUME Head(q) \in T, NEW i, Where(q, T) = {i} PROVE Where(t, T) = {}
    <2>1. i = 1
      BY <1>4, <1>8
    <2>2. \A j \in Where(t, T) : j + 1 = 1 /\ j \in 1 .. Len(q) - 1
      BY <1>2, <1>5, <1>8, <2>1
    <2>3. \A j \in Where(t, T) : FALSE
      BY <2>2
    <2> QED BY <2>3
  <1> QED BY <1>4, <1>6, <1>7, <1>8 DEF Steady, OneOf, NoneOf, t

\* A piece posted in buffer b carries b once and no other buffer.
LEMMA PiecePosted ==
  ASSUME NEW q \in Seq(Request), NEW b \in Buffer, NEW n \in 1 .. BufferBytes, NEW c \in Buffer
  PROVE  /\ b # c => Steady(q, q \o PieceRequests(b, n), Writes(c))
         /\ NoneOf(q, Writes(b)) => OneOf(q \o PieceRequests(b, n), Writes(b))
         /\ Steady(q, q \o PieceRequests(b, n), Frees(c))
  <1> DEFINE e == PieceRequests(b, n)
             r == q \o e
  <1>1. n \in 0 .. BufferBytes /\ n \in Nat \ {0}
    BY WriteHelperAssumption
  <1>2. /\ e \in Seq(Request) /\ Len(e) = n
        /\ \A i \in 1 .. n : e[i] = RdmaWrite(b, i - 1, IF i = n THEN b ELSE IntMax)
    BY <1>1, Elements
  <1> HIDE DEF e
  <1>3. /\ Len(q) \in Nat /\ DOMAIN q = 1 .. Len(q) /\ DOMAIN r = 1 .. Len(q) + n
        /\ \A i \in 1 .. Len(q) + n : r[i] = IF i <= Len(q) THEN q[i] ELSE e[i - Len(q)]
    <2>1. /\ r \in Seq(Request) /\ Len(r) = Len(q) + n
          /\ \A i \in 1 .. Len(q) + n : r[i] = IF i <= Len(q) THEN q[i] ELSE e[i - Len(q)]
      BY <1>2, ConcatProperties
    <2> QED BY <2>1, LenProperties
  <1> HIDE DEF r
  <1>4. \A i \in 1 .. n : e[i] \in Request /\ e[i].op = "RdmaWrite"
                          /\ e[i].imm = IF i = n THEN b ELSE IntMax
    BY <1>2, RequestFields, ElementOfSeq
  <1>5. \A i \in 1 .. n : e[i] \notin Frees(c) /\ (e[i] \in Writes(c) <=> i = n /\ b = c)
                          /\ (e[i] \in Writes(b) <=> i = n)
    BY <1>4, BufferNumbers DEF Frees, Writes
  <1>6. \A i \in DOMAIN r : \/ i \in DOMAIN q /\ r[i] = q[i]
                            \/ i - Len(q) \in 1 .. n /\ r[i] = e[i - Len(q)]
    BY <1>1, <1>3
  <1>7. \A i \in DOMAIN q : i \in DOMAIN r /\ r[i] = q[i]
    BY <1>1, <1>3
  <1>8. Where(r, Frees(c)) = Where(q, Frees(c))
    BY <1>5, <1>6, <1>7 DEF Where
  <1>9. b # c => Where(r, Writes(c)) = Where(q, Writes(c))
    BY <1>5, <1>6, <1>7 DEF Where
  <1>10. Where(q, Writes(b)) = {} => Where(r, Writes(b)) = {Len(q) + n}
    <2> SUFFICES ASSUME Where(q, Writes(b)) = {}
                 PROVE  Where(r, Writes(b)) = {Len(q) + n}
      OBVIOUS
    <2>1. Len(q) + n \in DOMAIN r /\ r[Len(q) + n] = e[n]
      BY <1>1, <1>3
    <2>2. Len(q) + n \in Where(r, Writes(b))
      BY <2>1, <1>1, <1>5 DEF Where
    <2>3. \A i \in Where(r, Writes(b)) : i \in Int /\ i - Len(q) = n
      BY <1>3, <1>5, <1>6 DEF Where
    <2> QED BY <2>2, <2>3, <1>3, <1>1
  <1>11. /\ b # c => Steady(q, r, Writes(c))
         /\ Steady(q, r, Frees(c))
    BY <1>8, <1>9 DEF Steady, OneOf, NoneOf
  <1>12. NoneOf(q, Writes(b)) => OneOf(r, Writes(b))
    BY <1>10 DEF NoneOf, OneOf
  <1> QED BY <1>11, <1>12 DEF r, e

\* A step that makes no difference to any place of a buffer.
LEMMA Stays ==
  ASSUME NEW m \in Machine, NEW b \in Buffer, Somewhere(m, b),
         Steady(idle_buffer_queue[m], idle_buffer_queue'[m], {b}),
         Held(m, b)' <=> Held(m, b),
         Steady(sq[m], sq'[m], Writes(b)),
         Steady(cq[Peer(m)], cq'[Peer(m)], Writes(b)),
         Copied(Peer(m), b)' <=> Copied(Peer(m), b),
         Steady(sq[Peer(m)], sq'[Peer(m)], Frees(b)),
         Steady(cq[m], cq'[m], Frees(b))
  PROVE  Somewhere(m, b)'
  BY DEF Somewhere, HeldAt, Steady

\* Messages that carry no buffer.
LEMMA CarryNothing ==
  ASSUME NEW r, r.op \notin {"RdmaWrite", "FreeBufferPair"}
  PROVE  \A b : r \notin Writes(b) /\ r \notin Frees(b)
  BY DEF Writes, Frees

LEMMA SendMsgHolders ==
  ASSUME TypeInv, HeldOnce, NEW m \in Machine, NEW r \in Request,
         r.op \notin {"RdmaWrite", "FreeBufferPair"}, Post(m, <<r>>),
         UNCHANGED <<cq, idle_buffer_queue, cur_write_handle, buffer_id>>,
         \A n \in Machine, b \in Buffer : Copied(n, b)' <=> Copied(n, b)
  PROVE  HeldOnce'
  <1> SUFFICES ASSUME NEW n \in Machine, NEW b \in Buffer PROVE Somewhere(n, b)'
    BY DEF HeldOnce
  <1>1. /\ sq'[m] = Append(sq[m], r) /\ sq[m] \in Seq(Request)
        /\ \A q \in Machine : q # m => sq'[q] = sq[q]
    BY PostOne DEF TypeInv, TypeOK
  <1>2. \A q \in Machine : Steady(sq[q], sq'[q], Writes(b)) /\ Steady(sq[q], sq'[q], Frees(b))
    BY <1>1, CarryNothing, SteadyAppend, SteadySame
  <1>3. Somewhere(n, b) /\ Peer(n) \in Machine
    BY Peers DEF HeldOnce
  <1> QED BY <1>2, <1>3, Stays, SteadySame DEF Held

\* A completion that carries no buffer is handled.
LEMMA RecvHolders ==
  ASSUME TypeInv, HeldOnce, NEW m \in Machine, NEW op, NEW next \in Place, OnRecv(m, op, next),
         next # Polling, \A b \in Buffer : Head(cq[m]) \notin Writes(b) /\ Head(cq[m]) \notin Frees(b),
         next.at \notin {"ReadCb", "PostFree"},
         UNCHANGED <<sq, idle_buffer_queue, cur_write_handle, buffer_id>>
  PROVE  HeldOnce'
  <1> SUFFICES ASSUME NEW n \in Machine, NEW b \in Buffer PROVE Somewhere(n, b)'
    BY DEF HeldOnce
  <1>1. /\ cq[m] \in Seq(Request) /\ cq[m] # <<>> /\ cq'[m] = Tail(cq[m])
        /\ poller[m] = Polling /\ poller'[m] = next
        /\ \A q \in Machine : q # m => cq'[q] = cq[q] /\ poller'[q] = poller[q]
    BY OnRecvType
  <1>2. \A q \in Machine : Steady(cq[q], cq'[q], Writes(b)) /\ Steady(cq[q], cq'[q], Frees(b))
    BY <1>1, SteadyTail, SteadySame
  <1>3. \A q \in Machine : Copied(q, b)' <=> Copied(q, b)
    BY <1>1 DEF Copied, Polling
  <1>4. Somewhere(n, b) /\ Peer(n) \in Machine
    BY Peers DEF HeldOnce
  <1> QED BY <1>2, <1>3, <1>4, Stays, SteadySame DEF Held

\* Steps that touch neither the network nor the buffers.
LEMMA QuietHolders ==
  ASSUME HeldOnce,
         UNCHANGED <<sq, cq, idle_buffer_queue>>,
         \A n \in Machine, b \in Buffer : /\ Held(n, b)' <=> Held(n, b)
                                          /\ Copied(n, b)' <=> Copied(n, b)
  PROVE  HeldOnce'
  <1> SUFFICES ASSUME NEW n \in Machine, NEW b \in Buffer PROVE Somewhere(n, b)'
    BY DEF HeldOnce
  <1>1. Somewhere(n, b) /\ Peer(n) \in Machine
    BY Peers DEF HeldOnce
  <1> QED BY <1>1, Stays, SteadySame

LEMMA RecvFreeHolders ==
  ASSUME TypeInv, HeldOnce, NEW m \in Machine, RecvFreeBufferPair(m)
  PROVE  HeldOnce'
  <1> SUFFICES ASSUME NEW n \in Machine, NEW b \in Buffer PROVE Somewhere(n, b)'
    BY DEF HeldOnce
  <1> DEFINE wc == Head(cq[m])
             next == [at |-> IF wc.last THEN "ReadDone" ELSE "PostRecv"]
  <1>1. /\ OnRecv(m, "FreeBufferPair", next)
        /\ idle_buffer_queue' = [idle_buffer_queue EXCEPT ![m] = Append(@, wc.buffer)]
        /\ UNCHANGED <<cur_write_handle, buffer_id, sq>>
    BY DEF RecvFreeBufferPair, AfterFree, FreeBuffer, queues
  <1>2. next \in Place /\ next # Polling /\ next.at \notin {"ReadCb", "PostFree"}
    BY IsPlace DEF Polling
  <1> HIDE DEF next
  <1>3. /\ cq[m] \in Seq(Request) /\ cq[m] # <<>> /\ cq'[m] = Tail(cq[m])
        /\ wc \in Request /\ wc.op = "FreeBufferPair"
        /\ poller[m] = Polling /\ poller'[m] = next
        /\ \A q \in Machine : q # m => cq'[q] = cq[q] /\ poller'[q] = poller[q]
    BY <1>1, <1>2, OnRecvType
  <1>4. wc.buffer \in Buffer
    BY <1>3, Requests
  <1>5. /\ idle_buffer_queue'[m] = Append(idle_buffer_queue[m], wc.buffer)
        /\ idle_buffer_queue[m] \in Seq(Buffer)
        /\ \A q \in Machine : q # m => idle_buffer_queue'[q] = idle_buffer_queue[q]
    BY <1>1 DEF TypeInv, TypeOK
  <1>6. wc \notin Writes(b) /\ (wc \in Frees(b) <=> wc.buffer = b)
    BY <1>3 DEF Writes, Frees
  <1>7. \A q \in Machine : Copied(q, b)' <=> Copied(q, b)
    BY <1>2, <1>3 DEF Copied, Polling
  <1>8. Held(n, b)' <=> Held(n, b)
    BY <1>1 DEF Held
  <1>9. Somewhere(n, b) /\ Peer(n) \in Machine /\ Peer(n) # n
    BY Peers DEF HeldOnce
  <1> HIDE DEF wc
  <1>10. \A q \in Machine : Steady(cq[q], cq'[q], Writes(b))
    BY <1>3, <1>6, SteadyTail, SteadySame DEF wc
  <1>11. CASE n = m /\ wc.buffer = b
    <2>1. ~NoneOf(cq[m], Frees(b)) /\ (OneOf(cq[m], Frees(b)) => NoneOf(cq'[m], Frees(b)))
      BY <1>3, <1>6, <1>11, SteadyTail DEF wc
    <2>2. HeldAt(n, b, "freed")
      BY <1>9, <1>11, <2>1 DEF Somewhere, HeldAt
    <2>3. OneOf(idle_buffer_queue'[m], {b})
      BY <1>4, <1>5, <1>11, <2>2, SteadyAppend DEF HeldAt
    <2>4. NoneOf(cq'[m], Frees(b))
      BY <1>11, <2>1, <2>2 DEF HeldAt
    <2>5. cq'[Peer(n)] = cq[Peer(n)] /\ sq' = sq
      BY <1>1, <1>3, <1>9, <1>11
    <2>6. HeldAt(n, b, "idle")'
      BY <1>7, <1>8, <1>9, <1>11, <2>2, <2>3, <2>4, <2>5 DEF HeldAt
    <2> QED BY <2>6 DEF Somewhere
  <1>12. CASE ~(n = m /\ wc.buffer = b)
    <2>1. Steady(idle_buffer_queue[n], idle_buffer_queue'[n], {b})
      BY <1>4, <1>5, <1>12, SteadyAppend, SteadySame
    <2>2. Steady(cq[n], cq'[n], Frees(b))
      BY <1>3, <1>6, <1>12, SteadyTail, SteadySame DEF wc
    <2> QED BY <1>1, <1>7, <1>8, <1>9, <1>10, <2>1, <2>2, Stays, SteadySame
  <1> QED BY <1>11, <1>12

LEMMA RequestBufferHolders ==
  ASSUME TypeInv, HeldOnce, NEW m \in Machine, RequestBuffer(m), UNCHANGED all_but_helper
  PROVE  HeldOnce'
  <1>1. UNCHANGED <<sq, cq, poller>>
    BY DEF all_but_helper, net_vars
  <1>2. CASE idle_buffer_queue[m] = <<>>
    <2>1. UNCHANGED <<idle_buffer_queue, cur_write_handle, buffer_id>>
      BY <1>2 DEF RequestBuffer
    <2> QED BY <1>1, <2>1, QuietHolders DEF Held, Copied
  <1>3. CASE idle_buffer_queue[m] # <<>>
    <2> DEFINE h == Head(idle_buffer_queue[m])
    <2>1. /\ buffer_id'[m] = h /\ idle_buffer_queue'[m] = Tail(idle_buffer_queue[m])
          /\ cur_write_handle'[m] = "DoCurWrite" /\ cur_write_handle[m] = "RequestBuffer"
          /\ idle_buffer_queue[m] \in Seq(Buffer)
          /\ \A q \in Machine : q # m => UNCHANGED <<cur_write_handle[q], buffer_id[q],
                                                     idle_buffer_queue[q]>>
      BY <1>3 DEF RequestBuffer, TypeInv, TypeOK
    <2> SUFFICES ASSUME NEW n \in Machine, NEW b \in Buffer PROVE Somewhere(n, b)'
      BY DEF HeldOnce
    <2>2. Somewhere(n, b)
      BY DEF HeldOnce
    <2>3. CASE n = m /\ b = h
      <3>1. /\ ~NoneOf(idle_buffer_queue[m], {b})
            /\ OneOf(idle_buffer_queue[m], {b}) => NoneOf(idle_buffer_queue'[m], {b})
        BY <1>3, <2>1, <2>3, SteadyTail
      <3>2. HeldAt(n, b, "idle")
        BY <2>2, <2>3, <3>1 DEF Somewhere, HeldAt
      <3>3. NoneOf(idle_buffer_queue'[n], {b}) /\ Held(n, b)'
        BY <2>1, <2>3, <3>1, <3>2 DEF HeldAt, Held
      <3>4. HeldAt(n, b, "held")'
        BY <1>1, <3>2, <3>3 DEF HeldAt, Copied
      <3> QED BY <3>4 DEF Somewhere
    <2>4. CASE ~(n = m /\ b = h)
      <3>1. Steady(idle_buffer_queue[n], idle_buffer_queue'[n], {b})
        BY <1>3, <2>1, <2>4, SteadyTail, SteadySame
      <3>2. Held(n, b)' <=> Held(n, b)
        BY <2>1, <2>4 DEF Held
      <3> QED BY <1>1, <2>2, <3>1, <3>2, Stays, SteadySame DEF Copied
    <2> QED BY <2>3, <2>4
  <1> QED BY <1>2, <1>3

LEMMA WritePieceHolders ==
  ASSUME TypeInv, HeldOnce, NoEmptyRead, NEW m \in Machine, WritePiece(m)
  PROVE  HeldOnce'
  <1> SUFFICES ASSUME NEW n \in Machine, NEW c \in Buffer PROVE Somewhere(n, c)'
    BY DEF HeldOnce
  <1> DEFINE r == cur_record[m]
             t == TransferBytes(r)
             b == buffer_id[m]
             rest == [r EXCEPT !.offset = @ + t]
  <1>1. /\ cur_write_handle[m] = "DoCurWrite"
        /\ cur_write_handle' = [cur_write_handle EXCEPT ![m] = HandleAfter(rest)]
        /\ Post(m, PieceRequests(b, t))
        /\ UNCHANGED <<cq, poller, idle_buffer_queue, buffer_id>>
    BY DEF WritePiece, DoCurWrite, SgeCount
  <1>2. r \in Record /\ r.offset <= Bytes[r.read] /\ r.offset < Bytes[r.read] /\ b \in Buffer
    BY <1>1 DEF TypeInv, HandlersOK
  <1>3. t \in 1 .. BufferBytes
    BY <1>2, TransferBounds, WriteHelperAssumption
  <1>4. sq'[m] = sq[m] \o PieceRequests(b, t) /\ \A q \in Machine : q # m => sq'[q] = sq[q]
    BY <1>1 DEF Post, TypeInv, TypeOK
  <1>5. /\ cur_write_handle'[m] # "DoCurWrite"
        /\ \A q \in Machine : q # m => cur_write_handle'[q] = cur_write_handle[q]
    BY <1>1 DEF HandleAfter, TypeInv, TypeOK
  <1> HIDE DEF t, b
  <1>6. sq[m] \in Seq(Request)
    BY DEF TypeInv, TypeOK
  <1>7. /\ b # c => Steady(sq[m], sq'[m], Writes(c))
        /\ NoneOf(sq[m], Writes(b)) => OneOf(sq'[m], Writes(b))
        /\ Steady(sq[m], sq'[m], Frees(c))
    BY <1>2, <1>3, <1>4, <1>6, PiecePosted
  <1>8. /\ Peer(n) \in Machine /\ Peer(n) # n /\ Somewhere(n, c)
        /\ \A q \in Machine : Copied(q, c)' <=> Copied(q, c)
    BY <1>1, Peers DEF HeldOnce, Copied
  <1>9. CASE n = m /\ c = b
    <2>1. Held(n, c) /\ ~Held(n, c)'
      BY <1>1, <1>5, <1>9 DEF Held, b
    <2>2. HeldAt(n, c, "held")
      BY <1>8, <2>1 DEF Somewhere, HeldAt
    <2>3. OneOf(sq'[n], Writes(c)) /\ sq'[Peer(n)] = sq[Peer(n)]
      BY <1>4, <1>7, <1>8, <1>9, <2>2 DEF HeldAt
    <2>4. HeldAt(n, c, "write")'
      BY <1>1, <1>8, <2>1, <2>2, <2>3 DEF HeldAt
    <2> QED BY <2>4 DEF Somewhere
  <1>10. CASE ~(n = m /\ c = b)
    <2>1. Held(n, c)' <=> Held(n, c)
      BY <1>1, <1>5, <1>10 DEF Held, b
    <2>2. Steady(sq[n], sq'[n], Writes(c)) /\ Steady(sq[Peer(n)], sq'[Peer(n)], Frees(c))
      BY <1>4, <1>7, <1>8, <1>10, SteadySame
    <2> QED BY <1>1, <1>8, <2>1, <2>2, Stays, SteadySame
  <1> QED BY <1>9, <1>10

LEMMA SyncReadHolders ==
  ASSUME TypeInv, HeldOnce, NEW m \in Machine, SyncRead(m)
  PROVE  HeldOnce'
  <1> DEFINE b == Head(cq[m]).imm
             r == Head(read_queue[m])
             last == r.offset + TransferBytes(r) >= Bytes[r.read]
             next == [at |-> IF last THEN "ReadCb" ELSE "PostFree", buffer |-> b, last |-> last]
  <1>1. CASE Abort(m)
    BY <1>1, QuietHolders DEF Abort, helper_vars, net_vars, Held, Copied
  <1>2. CASE /\ OnRecv(m, "RdmaWrite", next) /\ b # IntMax /\ UNCHANGED <<helper_vars, sq>>
    <2>1. last \in BOOLEAN
      OBVIOUS
    <2>2. b \in Buffer
      <3>1. cq[m] # <<>> /\ Head(cq[m]).op = "RdmaWrite"
        BY <1>2 DEF OnRecv
      <3>2. Head(cq[m]) \in Request
        BY <3>1, Ends DEF TypeInv, TypeOK
      <3> QED BY <1>2, <3>1, <3>2, Requests
    <2>3. next \in Place /\ next # Polling /\ next.at \in {"ReadCb", "PostFree"} /\ next.buffer = b
      BY <2>1, <2>2, IsPlace DEF Polling
    <2> HIDE DEF next
    <2>4. /\ cq[m] \in Seq(Request) /\ cq[m] # <<>> /\ cq'[m] = Tail(cq[m])
          /\ Head(cq[m]) \in Request /\ Head(cq[m]).op = "RdmaWrite"
          /\ poller[m] = Polling /\ poller'[m] = next
          /\ \A q \in Machine : q # m => cq'[q] = cq[q] /\ poller'[q] = poller[q]
      BY <1>2, <2>3, OnRecvType
    <2> SUFFICES ASSUME NEW n \in Machine, NEW c \in Buffer PROVE Somewhere(n, c)'
      BY DEF HeldOnce
    <2>5. UNCHANGED <<idle_buffer_queue, cur_write_handle, buffer_id, sq>>
      BY <1>2 DEF helper_vars
    <2>6. Head(cq[m]) \notin Frees(c) /\ (Head(cq[m]) \in Writes(c) <=> b = c)
      BY <2>4 DEF Frees, Writes
    <2>7. /\ Steady(cq[m], cq'[m], Frees(c))
          /\ b # c => Steady(cq[m], cq'[m], Writes(c))
          /\ b = c => /\ ~NoneOf(cq[m], Writes(c))
                      /\ OneOf(cq[m], Writes(c)) => NoneOf(cq'[m], Writes(c))
      BY <2>4, <2>6, SteadyTail
    <2>8. Peer(n) \in Machine /\ Peer(n) # n /\ Somewhere(n, c)
      BY Peers DEF HeldOnce
    <2>9. Held(n, c)' <=> Held(n, c)
      BY <2>5 DEF Held
    <2>10. ~Copied(m, c) /\ (Copied(m, c)' <=> b = c)
      BY <2>3, <2>4 DEF Copied, Polling
    <2>11. \A q \in Machine : q # m => (Copied(q, c)' <=> Copied(q, c))
      BY <2>4 DEF Copied
    <2>12. Steady(cq[n], cq'[n], Frees(c))
      BY <2>4, <2>7, SteadySame
    <2> HIDE DEF b
    <2>13. CASE Peer(n) = m /\ b = c
      <3>1. HeldAt(n, c, "arrived")
        BY <2>7, <2>8, <2>13 DEF Somewhere, HeldAt
      <3>2. NoneOf(cq'[Peer(n)], Writes(c)) /\ Copied(Peer(n), c)'
        BY <2>7, <2>10, <2>13, <3>1 DEF HeldAt
      <3>3. NoneOf(cq'[n], Frees(c))
        BY <2>12, <3>1 DEF HeldAt, Steady
      <3>4. HeldAt(n, c, "copied")'
        BY <2>5, <2>9, <3>1, <3>2, <3>3 DEF HeldAt
      <3> QED BY <3>4 DEF Somewhere
    <2>14. CASE ~(Peer(n) = m /\ b = c)
      <3>1. Steady(cq[Peer(n)], cq'[Peer(n)], Writes(c))
        BY <2>4, <2>7, <2>8, <2>14, SteadySame
      <3>2. Copied(Peer(n), c)' <=> Copied(Peer(n), c)
        BY <2>8, <2>10, <2>11, <2>14
      <3> QED BY <2>5, <2>8, <2>9, <2>12, <3>1, <3>2, Stays, SteadySame
    <2> QED BY <2>13, <2>14
  <1> QED BY <1>1, <1>2 DEF SyncRead

LEMMA PostFreeHolders ==
  ASSUME TypeInv, HeldOnce, NEW m \in Machine, PostFreeBufferPair(m)
  PROVE  HeldOnce'
  <1> SUFFICES ASSUME NEW n \in Machine, NEW c \in Buffer PROVE Somewhere(n, c)'
    BY DEF HeldOnce
  <1> DEFINE f == FreeBufferPair(poller[m].buffer, poller[m].last)
  <1>1. /\ poller[m].at = "PostFree" /\ Post(m, <<f>>)
        /\ poller' = [poller EXCEPT ![m] = [at |-> "PostRecv"]]
        /\ UNCHANGED <<helper_vars, cq>>
    BY DEF PostFreeBufferPair, At
  <1>2. poller[m] \in Place
    BY DEF TypeInv, TypeOK
  <1>3. f \in Request /\ f.op = "FreeBufferPair" /\ f.buffer = poller[m].buffer
    <2>1. poller[m].buffer \in Buffer /\ poller[m].last \in BOOLEAN
      BY <1>1, <1>2, Places
    <2> QED BY <2>1, IsRequest, RequestFields
  <1> HIDE DEF f
  <1>4. /\ sq'[m] = Append(sq[m], f) /\ sq[m] \in Seq(Request)
        /\ \A q \in Machine : q # m => sq'[q] = sq[q]
    BY <1>1, <1>3, PostOne DEF TypeInv, TypeOK
  <1>5. f \notin Writes(c) /\ (f \in Frees(c) <=> poller[m].buffer = c)
    BY <1>3 DEF Writes, Frees
  <1>6. \A q \in Machine : Steady(sq[q], sq'[q], Writes(c))
    BY <1>3, <1>4, <1>5, SteadyAppend, SteadySame
  <1>7. /\ ~Copied(m, c)' /\ (Copied(m, c) <=> poller[m].buffer = c)
        /\ \A q \in Machine : q # m => (Copied(q, c)' <=> Copied(q, c))
    BY <1>1 DEF Copied, TypeInv, TypeOK
  <1>8. Peer(n) \in Machine /\ Peer(n) # n /\ Somewhere(n, c)
    BY Peers DEF HeldOnce
  <1>9. UNCHANGED <<idle_buffer_queue, cq>> /\ (Held(n, c)' <=> Held(n, c))
    BY <1>1 DEF helper_vars, Held
  <1>10. CASE Peer(n) = m /\ poller[m].buffer = c
    <2>1. HeldAt(n, c, "copied")
      BY <1>7, <1>8, <1>10 DEF Somewhere, HeldAt
    <2>2. OneOf(sq'[Peer(n)], Frees(c))
      BY <1>3, <1>4, <1>5, <1>10, <2>1, SteadyAppend DEF HeldAt
    <2>3. NoneOf(sq'[n], Writes(c))
      BY <1>6, <2>1 DEF HeldAt, Steady
    <2>4. HeldAt(n, c, "free")'
      BY <1>7, <1>9, <1>10, <2>1, <2>2, <2>3 DEF HeldAt
    <2> QED BY <2>4 DEF Somewhere
  <1>11. CASE ~(Peer(n) = m /\ poller[m].buffer = c)
    <2>1. Steady(sq[Peer(n)], sq'[Peer(n)], Frees(c))
      BY <1>3, <1>4, <1>5, <1>8, <1>11, SteadyAppend, SteadySame
    <2>2. Copied(Peer(n), c)' <=> Copied(Peer(n), c)
      BY <1>7, <1>8, <1>11
    <2> QED BY <1>6, <1>8, <1>9, <2>1, <2>2, Stays, SteadySame
  <1> QED BY <1>10, <1>11

LEMMA DeliverHolders ==
  ASSUME TypeInv, HeldOnce, NEW m \in Machine, Deliver(m)
  PROVE  HeldOnce'
  <1> SUFFICES ASSUME NEW n \in Machine, NEW c \in Buffer PROVE Somewhere(n, c)'
    BY DEF HeldOnce
  <1> DEFINE p == Peer(m)
             wr == Head(sq[m])
  <1>1. /\ sq[m] # <<>>
        /\ cq' = [cq EXCEPT ![p] = Append(@, wr)] /\ sq' = [sq EXCEPT ![m] = Tail(@)]
        /\ UNCHANGED <<idle_buffer_queue, cur_write_handle, buffer_id, poller>>
    BY DEF Deliver, helper_vars
  <1>2. p \in Machine /\ p # m /\ Peer(p) = m
    BY Peers
  <1>3. wr \in Request /\ sq[m] \in Seq(Request) /\ cq[p] \in Seq(Request)
    BY <1>1, <1>2, Ends DEF TypeInv, TypeOK
  <1>4. /\ sq'[m] = Tail(sq[m]) /\ sq'[p] = sq[p]
        /\ cq'[p] = Append(cq[p], wr) /\ cq'[m] = cq[m]
    BY <1>1, <1>2 DEF TypeInv, TypeOK
  <1>5. \A T : /\ wr \notin T => Steady(sq[m], sq'[m], T) /\ Steady(cq[p], cq'[p], T)
               /\ wr \in T => /\ ~NoneOf(sq[m], T)
                              /\ OneOf(sq[m], T) => NoneOf(sq'[m], T)
                              /\ NoneOf(cq[p], T) => OneOf(cq'[p], T)
    BY <1>1, <1>3, <1>4, SteadyAppend, SteadyTail
  <1> HIDE DEF p, wr
  <1>6. /\ Held(n, c)' <=> Held(n, c)
        /\ \A q \in Machine : Copied(q, c)' <=> Copied(q, c)
    BY <1>1 DEF Held, Copied
  <1>7. Somewhere(n, c) /\ (n = m \/ n = p) /\ Peer(m) = p /\ Peer(n) \in Machine
    BY Peers DEF HeldOnce, p
  <1>8. CASE n = m /\ wr \in Writes(c)
    <2>1. HeldAt(n, c, "write")
      BY <1>5, <1>7, <1>8 DEF Somewhere, HeldAt
    <2>2. NoneOf(sq'[m], Writes(c)) /\ OneOf(cq'[p], Writes(c))
      BY <1>5, <1>7, <1>8, <2>1 DEF HeldAt
    <2>3. HeldAt(n, c, "arrived")'
      BY <1>1, <1>4, <1>6, <1>7, <1>8, <2>1, <2>2 DEF HeldAt
    <2> QED BY <2>3 DEF Somewhere
  <1>9. CASE n = m /\ wr \notin Writes(c)
    <2>1. Steady(sq[n], sq'[n], Writes(c)) /\ Steady(cq[p], cq'[p], Writes(c))
      BY <1>5, <1>9
    <2> QED BY <1>1, <1>4, <1>6, <1>7, <1>9, <2>1, Stays, SteadySame
  <1>10. CASE n = p /\ wr \in Frees(c)
    <2>1. HeldAt(n, c, "free")
      BY <1>2, <1>5, <1>7, <1>10 DEF Somewhere, HeldAt
    <2>2. NoneOf(sq'[m], Frees(c)) /\ OneOf(cq'[p], Frees(c))
      BY <1>2, <1>5, <1>7, <1>10, <2>1 DEF HeldAt
    <2>3. HeldAt(n, c, "freed")'
      BY <1>1, <1>2, <1>4, <1>6, <1>7, <1>10, <2>1, <2>2 DEF HeldAt
    <2> QED BY <2>3 DEF Somewhere
  <1>11. CASE n = p /\ wr \notin Frees(c)
    <2>1. Steady(sq[Peer(n)], sq'[Peer(n)], Frees(c)) /\ Steady(cq[n], cq'[n], Frees(c))
      BY <1>2, <1>5, <1>11
    <2> QED BY <1>1, <1>2, <1>4, <1>6, <1>7, <1>11, <2>1, Stays, SteadySame
  <1> QED BY <1>7, <1>8, <1>9, <1>10, <1>11

\* At the start every buffer is in the idle queue, once.
LEMMA HeldOnceInit == Init => HeldOnce
  <1> SUFFICES ASSUME Init, NEW m \in Machine, NEW b \in Buffer PROVE HeldAt(m, b, "idle")
    BY DEF HeldOnce, Somewhere
  <1>1. /\ idle_buffer_queue[m] = [i \in 1 .. RegisterBufferNum |-> i - 1]
        /\ cur_write_handle[m] = "InitWriteHandle" /\ Peer(m) \in Machine
    BY Peers DEF Init, HelperInit, IdleBuffers
  <1>2. \A n \in Machine : sq[n] = <<>> /\ cq[n] = <<>> /\ poller[n].at = "Poll"
    BY DEF Init, Polling
  <1>3. \A T : NoneOf(<<>>, T)
    BY DEF NoneOf, Where
  <1>4. RegisterBufferNum \in Nat
    BY WriteHelperAssumption
  <1>5. Where(idle_buffer_queue[m], {b}) = {b + 1}
    BY <1>1, <1>4 DEF Where, Buffer
  <1> QED BY <1>1, <1>2, <1>3, <1>5 DEF HeldAt, Held, Copied, OneOf

LEMMA HeldOnceNext ==
  ASSUME TypeInv, HeldOnce, NoEmptyRead, [Next]_vars
  PROVE  HeldOnce'
  <1>1. ASSUME NEW m \in Machine, NEW k \in Read, RegisterReadDoneCb(m, k) \/ WorkerDoRead(m, k)
        PROVE  HeldOnce'
    BY <1>1, QuietHolders DEF RegisterReadDoneCb, WorkerDoRead, helper_vars, net_vars, Held, Copied
  <1>2. ASSUME NEW m \in Machine, NEW k \in Read, SendMsg(m, k) PROVE HeldOnce'
    <2>1. /\ Post(m, <<UserMsg(k)>>)
          /\ UNCHANGED <<cq, idle_buffer_queue, cur_write_handle, buffer_id, poller>>
      BY <1>2 DEF SendMsg, helper_vars
    <2>2. UserMsg(k) \in Request /\ UserMsg(k).op = "UserMsg"
      BY IsRequest, RequestFields
    <2> QED BY <2>1, <2>2, SendMsgHolders DEF Copied
  <1>3. ASSUME NEW m \in Machine, NEW k \in Read, PostPleaseWrite(m, k) PROVE HeldOnce'
    <2>1. /\ Post(m, <<PleaseWrite(k)>>)
          /\ UNCHANGED <<cq, idle_buffer_queue, cur_write_handle, buffer_id>>
          /\ poller' = IF poller[m] = [at |-> "Dealing", read |-> k]
                         THEN [poller EXCEPT ![m] = [at |-> "PostRecv"]] ELSE poller
      BY <1>3 DEF PostPleaseWrite, helper_vars
    <2>2. PleaseWrite(k) \in Request /\ PleaseWrite(k).op = "PleaseWrite"
      BY IsRequest, RequestFields
    <2>3. \A n \in Machine, b \in Buffer : Copied(n, b)' <=> Copied(n, b)
      BY <2>1 DEF Copied, TypeInv, TypeOK
    <2> QED BY <2>1, <2>2, <2>3, SendMsgHolders
  <1>4. ASSUME NEW m \in Machine, RecvUserMsg(m) PROVE HeldOnce'
    <2>1. /\ cq[m] # <<>> /\ Head(cq[m]).op = "UserMsg" /\ Head(cq[m]) \in Request
          /\ UNCHANGED <<sq, idle_buffer_queue, cur_write_handle, buffer_id>>
      BY <1>4, Ends DEF RecvUserMsg, OnRecv, TypeInv, TypeOK, helper_vars
    <2>2. Head(cq[m]).read \in Read
      BY <2>1, Requests
    <2>3. \A b \in Buffer : Head(cq[m]) \notin Writes(b) /\ Head(cq[m]) \notin Frees(b)
      BY <2>1, CarryNothing
    <2>4. PICK next \in Place : /\ next # Polling /\ next.at \notin {"ReadCb", "PostFree"}
                                /\ OnRecv(m, "UserMsg", next)
      BY <1>4, <2>2, IsPlace DEF RecvUserMsg, Polling
    <2> QED BY <2>1, <2>3, <2>4, RecvHolders
  <1>5. ASSUME NEW m \in Machine, RecvPleaseWrite(m) \/ RecvElement(m) PROVE HeldOnce'
    <2>1. /\ cq[m] # <<>> /\ Head(cq[m]) \in Request
          /\ \/ Head(cq[m]).op = "PleaseWrite"
             \/ Head(cq[m]).op = "RdmaWrite" /\ Head(cq[m]).imm = IntMax
          /\ UNCHANGED <<sq, idle_buffer_queue, cur_write_handle, buffer_id>>
      BY <1>5, Ends DEF RecvPleaseWrite, RecvElement, AsyncWrite, OnRecv, TypeInv, TypeOK,
                        helper_vars
    <2>2. \A b \in Buffer : Head(cq[m]) \notin Writes(b) /\ Head(cq[m]) \notin Frees(b)
      BY <2>1, BufferNumbers DEF Writes, Frees
    <2>3. /\ [at |-> "PostRecv"] \in Place /\ [at |-> "PostRecv"] # Polling
          /\ [at |-> "PostRecv"].at \notin {"ReadCb", "PostFree"}
      BY IsPlace DEF Polling
    <2>4. PICK op : OnRecv(m, op, [at |-> "PostRecv"])
      BY <1>5 DEF RecvPleaseWrite, RecvElement
    <2> QED BY <2>1, <2>2, <2>3, <2>4, RecvHolders
  <1>6. ASSUME NEW m \in Machine, WriteLoop(m) PROVE HeldOnce'
    <2>1. UNCHANGED all_but_helper /\ (InitWriteHandle(m) \/ RequestBuffer(m))
      BY <1>6 DEF WriteLoop, all_but_helper
    <2>2. CASE InitWriteHandle(m)
      <3>1. /\ UNCHANGED <<idle_buffer_queue, buffer_id, sq, cq, poller>>
            /\ cur_write_handle[m] = "InitWriteHandle"
        BY <2>1, <2>2 DEF InitWriteHandle, all_but_helper, net_vars
      <3>2. \/ cur_write_handle' = cur_write_handle
            \/ cur_write_handle' = [cur_write_handle EXCEPT ![m] = "RequestBuffer"]
        BY <2>2 DEF InitWriteHandle
      <3> QED BY <3>1, <3>2, QuietHolders DEF Held, Copied, TypeInv, TypeOK
    <2> QED BY <2>1, <2>2, RequestBufferHolders
  <1>7. ASSUME NEW m \in Machine, ReadDoneCb(m) \/ PostRecvRequest(m) PROVE HeldOnce'
    <2>1. CASE Abort(m)
      BY <2>1, QuietHolders DEF Abort, helper_vars, net_vars, Held, Copied
    <2>2. CASE /\ poller[m].at \notin {"ReadCb", "PostFree"}
               /\ \/ poller' = [poller EXCEPT ![m] = [at |-> "PostRecv"]]
                  \/ poller' = [poller EXCEPT ![m] = Polling]
               /\ UNCHANGED <<helper_vars, sq, cq>>
      <3>1. poller'[m].at \notin {"ReadCb", "PostFree"}
            /\ \A n \in Machine : n # m => poller'[n] = poller[n]
        BY <2>2 DEF Polling, TypeInv, TypeOK
      <3>2. \A n \in Machine, b \in Buffer : Copied(n, b)' <=> Copied(n, b)
        BY <2>2, <3>1 DEF Copied
      <3> QED BY <2>2, <3>2, QuietHolders DEF helper_vars, Held
    <2> QED BY <1>7, <2>1, <2>2 DEF ReadDoneCb, PostRecvRequest, At, net_vars
  <1>8. ASSUME NEW m \in Machine, ReadCb(m) PROVE HeldOnce'
    <2>1. /\ poller[m].at = "ReadCb" /\ poller' = [poller EXCEPT ![m].at = "PostFree"]
          /\ UNCHANGED <<sq, cq, idle_buffer_queue, cur_write_handle, buffer_id>>
      BY <1>8 DEF ReadCb, At, helper_vars, net_vars
    <2>2. poller'[m] = [at |-> "PostFree", buffer |-> poller[m].buffer, last |-> poller[m].last]
      <3>1. poller[m] \in Place /\ poller'[m] = [poller[m] EXCEPT !.at = "PostFree"]
        BY <2>1 DEF TypeInv, TypeOK
      <3> QED BY <2>1, <3>1, Places
    <2>3. \A n \in Machine : n # m => poller'[n] = poller[n]
      BY <2>1 DEF TypeInv, TypeOK
    <2> QED BY <2>1, <2>2, <2>3, QuietHolders DEF Held, Copied
  <1>9. CASE UNCHANGED vars
    BY <1>9, QuietHolders DEF vars, helper_vars, net_vars, Held, Copied
  <1>10. ASSUME NEW m \in Machine, PollCQ(m) PROVE HeldOnce'
    BY <1>4, <1>5, <1>6, <1>7, <1>8, <1>10, RecvFreeHolders, SyncReadHolders, WritePieceHolders,
       PostFreeHolders DEF PollCQ
  <1> QED BY <1>1, <1>2, <1>3, <1>9, <1>10, DeliverHolders DEF Next

LEMMA HeldOnceInvariant == NoEmptyRead => (Spec => []HeldOnce)
  <1>1. ASSUME NoEmptyRead PROVE Spec => []HeldOnce
    <2>1. TypeInv /\ HeldOnce /\ [Next]_vars => HeldOnce'
      BY <1>1, HeldOnceNext
    <2> QED BY <2>1, HeldOnceInit, TypeInvariant, PTL DEF Spec
  <1> QED BY <1>1

\* Where Holders finds a buffer.
LEMMA OneHolderOf ==
  ASSUME TypeInv, NEW m \in Machine, NEW b \in Buffer, Somewhere(m, b)
  PROVE  Cardinality(Holders(m, b)) = 1
  <1> DEFINE p == Peer(m)
             In(q, op) == {i \in DOMAIN q : q[i].op = op /\ Carries(q[i], b)}
             idle == {j \in DOMAIN idle_buffer_queue[m] : idle_buffer_queue[m][j] = b}
             held == {y \in {b} : cur_write_handle[m] = "DoCurWrite" /\ buffer_id[m] = y}
             copied == {y \in {b} : /\ poller[p].at \in {"ReadCb", "PostFree"}
                                    /\ poller[p].buffer = y}
  <1>1. p \in Machine
    BY Peers
  <1>2. \A n \in Machine : sq[n] \in Seq(Request) /\ cq[n] \in Seq(Request)
    BY DEF TypeInv, TypeOK
  <1>3. ASSUME NEW q \in Seq(Request)
        PROVE  /\ In(q, "RdmaWrite") = Where(q, Writes(b))
               /\ In(q, "FreeBufferPair") = Where(q, Frees(b))
    <2>1. \A i \in DOMAIN q : q[i] \in Request
      BY LenProperties, ElementOfSeq
    <2>2. \A i \in DOMAIN q : /\ q[i].op = "RdmaWrite" /\ Carries(q[i], b) <=> q[i] \in Writes(b)
                              /\ q[i].op = "FreeBufferPair" /\ Carries(q[i], b) <=> q[i] \in Frees(b)
      BY <2>1 DEF Carries, Writes, Frees
    <2> QED BY <2>2 DEF Where
  <1>4. idle = Where(idle_buffer_queue[m], {b})
    BY DEF Where
  <1>5. held = IF Held(m, b) THEN {b} ELSE {}
    BY DEF Held
  <1>6. copied = IF Copied(p, b) THEN {b} ELSE {}
    BY DEF Copied
  <1>7. Holders(m, b) = {<<"idle", i>> : i \in Where(idle_buffer_queue[m], {b})}
                        \cup {<<"held", x>> : x \in IF Held(m, b) THEN {b} ELSE {}}
                        \cup {<<"write", i>> : i \in Where(sq[m], Writes(b))}
                        \cup {<<"arrived", i>> : i \in Where(cq[p], Writes(b))}
                        \cup {<<"copied", x>> : x \in IF Copied(p, b) THEN {b} ELSE {}}
                        \cup {<<"free", i>> : i \in Where(sq[p], Frees(b))}
                        \cup {<<"freed", i>> : i \in Where(cq[m], Frees(b))}
    BY <1>1, <1>2, <1>3, <1>4, <1>5, <1>6 DEF Holders
  <1>8. \E h : Holders(m, b) = {h}
    <2>1. PICK l \in {"idle", "held", "write", "arrived", "copied", "free", "freed"} : HeldAt(m, b, l)
      BY DEF Somewhere
    <2>2. PICK i : \/ l = "idle" /\ Where(idle_buffer_queue[m], {b}) = {i}
                   \/ l \in {"held", "copied"} /\ i = b
                   \/ l = "write" /\ Where(sq[m], Writes(b)) = {i}
                   \/ l = "arrived" /\ Where(cq[p], Writes(b)) = {i}
                   \/ l = "free" /\ Where(sq[p], Frees(b)) = {i}
                   \/ l = "freed" /\ Where(cq[m], Frees(b)) = {i}
      BY <2>1 DEF HeldAt, OneOf
    <2>3. Holders(m, b) = {<<l, i>>}
      <3>1. CASE l \in {"idle", "held"}
        BY <1>7, <2>1, <2>2, <3>1 DEF HeldAt, NoneOf
      <3>2. CASE l \in {"write", "arrived"}
        BY <1>7, <2>1, <2>2, <3>2 DEF HeldAt, NoneOf
      <3>3. CASE l \in {"copied", "free", "freed"}
        BY <1>7, <2>1, <2>2, <3>3 DEF HeldAt, NoneOf
      <3> QED BY <2>1, <3>1, <3>2, <3>3
    <2> QED BY <2>3
  <1> QED BY <1>8, FS_Singleton

\* No buffer pair is refilled before its last piece was copied out, none is
\* lost, and none is in two hands, for any number of buffers and reads.
THEOREM BuffersHeldOnce == NoEmptyRead => (Spec => []OneHolder)
  <1>1. ASSUME NoEmptyRead PROVE Spec => []OneHolder
    <2>1. TypeInv /\ HeldOnce => OneHolder
      BY OneHolderOf DEF HeldOnce, OneHolder
    <2> QED BY <1>1, <2>1, TypeInvariant, HeldOnceInvariant, PTL
  <1> QED BY <1>1
--------------------------------------------------------------------------------
(* The third layer: the elements of a piece.                               *)

\* The element is in the receive buffer as it is in the send buffer.
Moved(s, b, i) == recv_mem[Peer(s)][b][i] = send_mem[s][b][i]

\* Before the last element of a piece all others have moved, or will.
Elementwise(s) ==
  /\ \A b \in Buffer : \A x \in Where(sq[s], Writes(b)) :
       /\ sq[s][x].buffer = b
       /\ \A i \in 0 .. sq[s][x].block :
            \/ Moved(s, b, i)
            \/ \E y \in 1 .. x : /\ sq[s][y].op = "RdmaWrite"
                                 /\ sq[s][y].buffer = b /\ sq[s][y].block = i
  /\ \A b \in Buffer : \A x \in Where(cq[Peer(s)], Writes(b)) :
       /\ cq[Peer(s)][x].buffer = b
       /\ \A i \in 0 .. cq[Peer(s)][x].block : Moved(s, b, i)

Arriving == \A s \in Machine : Elementwise(s)

LEMMA ArrivingInit == Init => Arriving
  <1> SUFFICES ASSUME Init, NEW s \in Machine PROVE Elementwise(s)
    BY DEF Arriving
  <1>1. sq[s] = <<>> /\ cq[Peer(s)] = <<>>
    BY Peers DEF Init
  <1>2. \A b : Where(<<>>, Writes(b)) = {}
    BY DEF Where
  <1> QED BY <1>1, <1>2 DEF Elementwise

\* Steps that at most post requests that write nothing or handle completions.
LEMMA ArrivingStays ==
  ASSUME TypeInv, Arriving, UNCHANGED <<send_mem, recv_mem>>,
         \A n \in Machine :
           \/ sq'[n] = sq[n]
           \/ \E r \in Request : r.op # "RdmaWrite" /\ sq'[n] = Append(sq[n], r),
         \A n \in Machine : cq'[n] = cq[n] \/ (cq[n] # <<>> /\ cq'[n] = Tail(cq[n]))
  PROVE  Arriving'
  <1> SUFFICES ASSUME NEW s \in Machine PROVE Elementwise(s)'
    BY DEF Arriving
  <1> DEFINE p == Peer(s)
  <1>1. p \in Machine /\ Elementwise(s)
    BY Peers DEF Arriving
  <1>2. sq[s] \in Seq(Request) /\ cq[p] \in Seq(Request)
    BY <1>1 DEF TypeInv, TypeOK
  <1>3. \A b, i : Moved(s, b, i)' <=> Moved(s, b, i)
    BY DEF Moved
  <1>4. ASSUME NEW b \in Buffer, NEW x \in Where(sq'[s], Writes(b))
        PROVE  /\ x \in Where(sq[s], Writes(b)) /\ sq'[s][x] = sq[s][x]
               /\ \A y \in 1 .. x : sq'[s][y] = sq[s][y]
    <2>1. CASE sq'[s] = sq[s]
      BY <1>2, <1>4, <2>1, LenProperties DEF Where
    <2>2. CASE \E r \in Request : r.op # "RdmaWrite" /\ sq'[s] = Append(sq[s], r)
      <3>1. PICK r \in Request : r.op # "RdmaWrite" /\ sq'[s] = Append(sq[s], r)
        BY <2>2
      <3>2. /\ Len(sq[s]) \in Nat /\ DOMAIN sq[s] = 1 .. Len(sq[s])
            /\ DOMAIN sq'[s] = 1 .. Len(sq[s]) + 1 /\ sq'[s][Len(sq[s]) + 1] = r
            /\ \A i \in 1 .. Len(sq[s]) : sq'[s][i] = sq[s][i]
        BY <1>2, <3>1, Appended
      <3>3. x \in 1 .. Len(sq[s]) + 1 /\ sq'[s][x] \in Writes(b)
        BY <1>4, <3>2 DEF Where
      <3>4. r \notin Writes(b)
        BY <3>1 DEF Writes
      <3>5. x \in 1 .. Len(sq[s])
        BY <3>2, <3>3, <3>4
      <3> QED BY <3>2, <3>3, <3>5 DEF Where
    <2> QED BY <2>1, <2>2
  <1>5. ASSUME NEW b \in Buffer, NEW x \in Where(cq'[p], Writes(b))
        PROVE  \E z \in Where(cq[p], Writes(b)) : cq'[p][x] = cq[p][z]
    <2>1. CASE cq'[p] = cq[p]
      BY <1>5, <2>1
    <2>2. CASE cq[p] # <<>> /\ cq'[p] = Tail(cq[p])
      <3>1. x \in DOMAIN cq'[p] /\ cq'[p][x] \in Writes(b)
        BY <1>5 DEF Where
      <3>2. x + 1 \in DOMAIN cq[p] /\ cq'[p][x] = cq[p][x + 1]
        BY <1>2, <2>2, <3>1, Ends
      <3> QED BY <3>1, <3>2 DEF Where
    <2> QED BY <1>1, <2>1, <2>2
  <1>6. ASSUME NEW b \in Buffer, NEW x \in Where(sq'[s], Writes(b))
        PROVE  /\ sq'[s][x].buffer = b
               /\ \A i \in 0 .. sq'[s][x].block :
                    \/ Moved(s, b, i)'
                    \/ \E y \in 1 .. x : /\ sq'[s][y].op = "RdmaWrite"
                                         /\ sq'[s][y].buffer = b /\ sq'[s][y].block = i
    BY <1>1, <1>3, <1>4, <1>6 DEF Elementwise
  <1>7. ASSUME NEW b \in Buffer, NEW x \in Where(cq'[p], Writes(b))
        PROVE  /\ cq'[p][x].buffer = b
               /\ \A i \in 0 .. cq'[p][x].block : Moved(s, b, i)'
    BY <1>1, <1>3, <1>5, <1>7 DEF Elementwise
  <1> QED BY <1>6, <1>7 DEF Elementwise

LEMMA DeliverArrives ==
  ASSUME TypeInv, Arriving, NEW m \in Machine, Deliver(m)
  PROVE  Arriving'
  <1> SUFFICES ASSUME NEW s \in Machine PROVE Elementwise(s)'
    BY DEF Arriving
  <1> DEFINE p == Peer(m)
             wr == Head(sq[m])
  <1>1. /\ sq[m] # <<>>
        /\ recv_mem' = IF wr.op # "RdmaWrite" THEN recv_mem
                       ELSE [recv_mem EXCEPT ![p][wr.buffer][wr.block] =
                               send_mem[m][wr.buffer][wr.block]]
        /\ cq' = [cq EXCEPT ![p] = Append(@, wr)] /\ sq' = [sq EXCEPT ![m] = Tail(@)]
        /\ UNCHANGED send_mem
    BY DEF Deliver
  <1>2. p \in Machine /\ p # m /\ Peer(p) = m
    BY Peers
  <1>3. /\ sq[m] \in Seq(Request) /\ cq[p] \in Seq(Request) /\ wr \in Request
        /\ wr = sq[m][1] /\ 1 \in DOMAIN sq[m]
    <2>1. sq[m] \in Seq(Request) /\ cq[p] \in Seq(Request)
      BY <1>2 DEF TypeInv, TypeOK
    <2> QED BY <1>1, <2>1, Ends
  <1>4. /\ sq'[m] = Tail(sq[m]) /\ sq'[p] = sq[p]
        /\ cq'[p] = Append(cq[p], wr) /\ cq'[m] = cq[m]
    BY <1>1, <1>2 DEF TypeInv, TypeOK
  <1>5. /\ wr.op = "RdmaWrite" =>
             /\ wr.buffer \in Buffer /\ wr.block \in Unit
             /\ recv_mem'[p][wr.buffer][wr.block] = send_mem'[m][wr.buffer][wr.block]
        /\ \A b \in Buffer, i \in Unit :
             recv_mem'[p][b][i] = recv_mem[p][b][i] \/ recv_mem'[p][b][i] = send_mem'[m][b][i]
        /\ recv_mem'[m] = recv_mem[m]
    <2>1. recv_mem \in [Machine -> [Buffer -> [Unit -> Data]]]
      BY DEF TypeInv, TypeOK
    <2>2. CASE wr.op # "RdmaWrite"
      BY <1>1, <2>2
    <2>3. CASE wr.op = "RdmaWrite"
      <3>1. wr.buffer \in Buffer /\ wr.block \in Unit
        BY <1>3, <2>3, Requests
      <3> HIDE DEF p, wr
      <3> QED BY <1>1, <1>2, <2>1, <2>3, <3>1
    <2> QED BY <2>2, <2>3
  <1> HIDE DEF wr
  <1>6. \A n \in Machine, b \in Buffer, i \in Unit : Moved(n, b, i) => Moved(n, b, i)'
    <2>1. \A n \in Machine : n = m \/ (n = p /\ Peer(n) = m)
      BY <1>2, Peers
    <2> QED BY <1>1, <1>5, <2>1 DEF Moved
  <1>7. Elementwise(s) /\ (s = m \/ s = p)
    BY Peers DEF Arriving
  <1>8. CASE s = p
    <2>1. Peer(s) = m /\ sq'[s] = sq[s] /\ cq'[Peer(s)] = cq[Peer(s)]
      BY <1>2, <1>4, <1>8
    <2>2. ASSUME NEW b \in Buffer, NEW q \in Seq(Request), NEW x \in Where(q, Writes(b)),
                 NEW i \in 0 .. q[x].block
          PROVE  i \in Unit
      <3>1. q[x] \in Request /\ q[x].op = "RdmaWrite"
        BY <2>2 DEF Where, Writes
      <3>2. q[x].block \in Unit
        BY <3>1, Requests
      <3> QED BY <3>2, WriteHelperAssumption DEF Unit
    <2>3. sq[s] \in Seq(Request) /\ cq[Peer(s)] \in Seq(Request)
      BY <2>1 DEF TypeInv, TypeOK
    <2> QED BY <1>6, <1>7, <2>1, <2>2, <2>3 DEF Elementwise
  <1>9. CASE s = m
    <2>1. ASSUME NEW b \in Buffer, NEW x \in Where(sq'[m], Writes(b))
          PROVE  /\ sq'[m][x].buffer = b
                 /\ \A i \in 0 .. sq'[m][x].block :
                      \/ Moved(m, b, i)'
                      \/ \E y \in 1 .. x : /\ sq'[m][y].op = "RdmaWrite"
                                           /\ sq'[m][y].buffer = b /\ sq'[m][y].block = i
      <3>1. /\ x \in DOMAIN sq'[m] /\ sq'[m][x] \in Writes(b)
            /\ Len(sq[m]) \in Nat /\ DOMAIN sq[m] = 1 .. Len(sq[m])
            /\ DOMAIN sq'[m] = 1 .. Len(sq[m]) - 1
            /\ \A y \in DOMAIN sq'[m] : y + 1 \in DOMAIN sq[m] /\ sq'[m][y] = sq[m][y + 1]
        <4>1. x \in DOMAIN sq'[m] /\ sq'[m][x] \in Writes(b)
          BY <2>1 DEF Where
        <4>2. sq[m] # <<>>
          BY <1>1
        <4>3. sq[m] \in Seq(Request) /\ sq'[m] = Tail(sq[m])
          BY <1>3, <1>4
        <4> QED BY <4>1, <4>2, <4>3, Ends
      <3>2. x + 1 \in Where(sq[m], Writes(b)) /\ sq'[m][x] = sq[m][x + 1]
        BY <3>1 DEF Where
      <3>3. /\ sq[m][x + 1].buffer = b
            /\ \A i \in 0 .. sq[m][x + 1].block :
                 \/ Moved(m, b, i)
                 \/ \E y \in 1 .. x + 1 : /\ sq[m][y].op = "RdmaWrite"
                                          /\ sq[m][y].buffer = b /\ sq[m][y].block = i
        BY <1>7, <1>9, <3>2 DEF Elementwise
      <3>4. sq'[m][x].block \in Unit
        BY <3>1, Requests DEF Writes
      <3>5. ASSUME NEW i \in 0 .. sq'[m][x].block
            PROVE  \/ Moved(m, b, i)'
                   \/ \E y \in 1 .. x : /\ sq'[m][y].op = "RdmaWrite"
                                        /\ sq'[m][y].buffer = b /\ sq'[m][y].block = i
        <4>1. i \in Unit
          BY <3>4, <3>5, WriteHelperAssumption DEF Unit
        <4>2. CASE Moved(m, b, i)
          BY <1>6, <4>1, <4>2
        <4>3. CASE \E y \in 1 .. x + 1 : /\ sq[m][y].op = "RdmaWrite"
                                         /\ sq[m][y].buffer = b /\ sq[m][y].block = i
          <5>1. PICK y \in 1 .. x + 1 : /\ sq[m][y].op = "RdmaWrite"
                                        /\ sq[m][y].buffer = b /\ sq[m][y].block = i
            BY <4>3
          <5>2. CASE y = 1
            BY <1>2, <1>3, <1>5, <5>1, <5>2 DEF Moved
          <5>3. CASE y # 1
            <6>1. y - 1 \in 1 .. x /\ y - 1 \in DOMAIN sq'[m] /\ (y - 1) + 1 = y
              BY <3>1, <5>1, <5>3
            <6>2. sq'[m][y - 1] = sq[m][y]
              BY <3>1, <6>1
            <6> QED BY <5>1, <6>1, <6>2
          <5> QED BY <5>2, <5>3
        <4> QED BY <3>2, <3>3, <4>2, <4>3
      <3> QED BY <3>2, <3>3, <3>5
    <2>2. ASSUME NEW b \in Buffer, NEW x \in Where(cq'[p], Writes(b))
          PROVE  /\ cq'[p][x].buffer = b
                 /\ \A i \in 0 .. cq'[p][x].block : Moved(m, b, i)'
      <3>1. /\ Len(cq[p]) \in Nat /\ DOMAIN cq[p] = 1 .. Len(cq[p])
            /\ \A i \in DOMAIN cq[p] : cq'[p][i] = cq[p][i]
            /\ cq'[p][Len(cq[p]) + 1] = wr
            /\ x \in DOMAIN cq[p] \/ x = Len(cq[p]) + 1
            /\ cq'[p][x] \in Writes(b)
        BY <1>3, <1>4, <2>2, Appended DEF Where
      <3>2. cq'[p][x].block \in Unit
        BY <3>1, Requests DEF Writes
      <3>3. \A i \in 0 .. cq'[p][x].block : i \in Unit
        BY <3>2, WriteHelperAssumption DEF Unit
      <3>4. CASE x \in DOMAIN cq[p]
        <4>1. x \in Where(cq[p], Writes(b)) /\ cq'[p][x] = cq[p][x]
          BY <3>1, <3>4 DEF Where
        <4> QED BY <1>6, <1>7, <1>9, <3>3, <4>1 DEF Elementwise
      <3>5. CASE x = Len(cq[p]) + 1
        <4>1. cq'[p][x] = wr /\ wr \in Writes(b) /\ 1 \in Where(sq[m], Writes(b))
          BY <1>3, <3>1, <3>5 DEF Where
        <4>2. /\ wr.buffer = b
              /\ \A i \in 0 .. wr.block : \/ Moved(m, b, i)
                                          \/ wr.op = "RdmaWrite" /\ wr.block = i
          <5>1. /\ sq[m][1].buffer = b
                /\ \A i \in 0 .. sq[m][1].block :
                     \/ Moved(m, b, i)
                     \/ \E y \in 1 .. 1 : /\ sq[m][y].op = "RdmaWrite"
                                          /\ sq[m][y].buffer = b /\ sq[m][y].block = i
            BY <1>7, <1>9, <4>1 DEF Elementwise
          <5>2. \A y \in 1 .. 1 : y = 1
            OBVIOUS
          <5> QED BY <1>3, <5>1, <5>2
        <4>3. ASSUME NEW i \in 0 .. wr.block PROVE Moved(m, b, i)'
          <5>1. CASE Moved(m, b, i)
            BY <1>6, <3>3, <4>1, <4>3, <5>1
          <5>2. CASE wr.op = "RdmaWrite" /\ wr.block = i
            BY <1>5, <4>2, <5>2 DEF Moved
          <5> QED BY <4>2, <4>3, <5>1, <5>2
        <4> QED BY <4>1, <4>2, <4>3
      <3> QED BY <3>1, <3>4, <3>5
    <2> QED BY <1>9, <2>1, <2>2 DEF Elementwise
  <1> QED BY <1>7, <1>8, <1>9

\* Nothing is under way from a buffer that is being filled.
LEMMA HeldNotUnderWay ==
  ASSUME HeldOnce, NEW m \in Machine, NEW b \in Buffer, Held(m, b)
  PROVE  Where(sq[m], Writes(b)) = {} /\ Where(cq[Peer(m)], Writes(b)) = {}
  <1>1. HeldAt(m, b, "held")
    BY DEF HeldOnce, Somewhere, HeldAt
  <1> QED BY <1>1 DEF HeldAt, NoneOf

LEMMA WritePieceArrives ==
  ASSUME TypeInv, HeldOnce, Arriving, NoEmptyRead, NEW m \in Machine, WritePiece(m)
  PROVE  Arriving'
  <1> SUFFICES ASSUME NEW s \in Machine PROVE Elementwise(s)'
    BY DEF Arriving
  <1> DEFINE r == cur_record[m]
             n == TransferBytes(r)
             b == buffer_id[m]
             e == PieceRequests(b, n)
             p == Peer(s)
  <1>1. /\ cur_write_handle[m] = "DoCurWrite"
        /\ send_mem' = [send_mem EXCEPT ![m][b] =
                          [i \in Unit |-> IF i < n THEN SourceData(r.read, r.offset + i)
                                                   ELSE @[i]]]
        /\ Post(m, e) /\ UNCHANGED <<cq, recv_mem>>
    BY DEF WritePiece, DoCurWrite, SgeCount
  <1>2. /\ b \in Buffer /\ r \in Record /\ r.offset <= Bytes[r.read]
        /\ r.offset < Bytes[r.read]
    BY <1>1 DEF TypeInv, HandlersOK
  <1>3. n \in 1 .. BufferBytes /\ n \in 0 .. BufferBytes /\ n \in Nat
    BY <1>2, TransferBounds, WriteHelperAssumption
  <1>4. /\ sq'[m] = sq[m] \o e /\ sq[m] \in Seq(Request)
        /\ \A q \in Machine : q # m => sq'[q] = sq[q]
    BY <1>1 DEF Post, TypeInv, TypeOK
  <1>5. \A q \in Machine, c \in Buffer : q # m \/ c # b => send_mem'[q][c] = send_mem[q][c]
    <2> HIDE DEF n, r, b
    <2> QED BY <1>1, <1>2 DEF TypeInv, TypeOK
  <1> HIDE DEF n, r, b
  <1>6. /\ e \in Seq(Request) /\ Len(e) = n
        /\ \A i \in 1 .. n : e[i] = RdmaWrite(b, i - 1, IF i = n THEN b ELSE IntMax)
    BY <1>2, <1>3, Elements
  <1> HIDE DEF e
  <1>7. /\ Elementwise(s) /\ p \in Machine
        /\ sq[s] \in Seq(Request) /\ cq[p] \in Seq(Request)
    BY Peers DEF Arriving, TypeInv, TypeOK
  <1>8. Where(sq[m], Writes(b)) = {} /\ Where(cq[Peer(m)], Writes(b)) = {}
    BY <1>1, <1>2, HeldNotUnderWay DEF Held, b
  <1>9. \A c \in Buffer : \A i : s # m \/ c # b => (Moved(s, c, i)' <=> Moved(s, c, i))
    BY <1>1, <1>5 DEF Moved
  <1>10. ASSUME NEW c \in Buffer, NEW x \in Where(cq'[p], Writes(c))
         PROVE  /\ cq'[p][x].buffer = c
                /\ \A i \in 0 .. cq'[p][x].block : Moved(s, c, i)'
    <2>1. cq' = cq /\ x \in Where(cq[p], Writes(c))
      BY <1>1, <1>10
    <2>2. s # m \/ c # b
      BY <1>8, <2>1
    <2> QED BY <1>7, <1>9, <2>1, <2>2 DEF Elementwise
  <1>11. ASSUME NEW c \in Buffer, NEW x \in Where(sq'[s], Writes(c))
         PROVE  /\ sq'[s][x].buffer = c
                /\ \A i \in 0 .. sq'[s][x].block :
                     \/ Moved(s, c, i)'
                     \/ \E y \in 1 .. x : /\ sq'[s][y].op = "RdmaWrite"
                                          /\ sq'[s][y].buffer = c /\ sq'[s][y].block = i
    <2>1. CASE s # m
      <3>1. sq'[s] = sq[s]
        BY <1>4, <2>1
      <3>2. x \in Where(sq[s], Writes(c))
        BY <1>11, <3>1
      <3>3. \A i : Moved(s, c, i)' <=> Moved(s, c, i)
        BY <1>9, <2>1
      <3> QED BY <1>7, <3>1, <3>2, <3>3 DEF Elementwise
    <2>2. CASE s = m
      <3> DEFINE l == Len(sq[m])
      <3>1. /\ l \in Nat /\ DOMAIN sq[m] = 1 .. l /\ DOMAIN sq'[m] = 1 .. l + n
            /\ \A i \in 1 .. l + n : sq'[m][i] = IF i <= l THEN sq[m][i] ELSE e[i - l]
        <4>1. /\ sq[m] \o e \in Seq(Request) /\ Len(sq[m] \o e) = l + n
              /\ \A i \in 1 .. l + n : (sq[m] \o e)[i] = IF i <= l THEN sq[m][i] ELSE e[i - l]
          <5>1. sq[m] \in Seq(Request) /\ e \in Seq(Request) /\ Len(e) = n
            BY <1>4, <1>6
          <5> QED BY <5>1, ConcatProperties
        <4> QED BY <1>4, <4>1, LenProperties
      <3> HIDE DEF l
      <3>2. x \in 1 .. l + n /\ sq'[m][x] \in Writes(c)
        BY <1>11, <2>2, <3>1 DEF Where
      <3>3. CASE x <= l
        <4>1. /\ x \in Where(sq[m], Writes(c)) /\ sq'[m][x] = sq[m][x] /\ c # b
              /\ \A y \in 1 .. x : sq'[m][y] = sq[m][y]
          <5>1. x \in 1 .. l
            BY <3>1, <3>2, <3>3
          <5>2. sq'[m][x] = sq[m][x] /\ \A y \in 1 .. x : sq'[m][y] = sq[m][y]
            BY <1>3, <3>1, <5>1
          <5>3. x \in Where(sq[m], Writes(c))
            BY <3>1, <3>2, <5>1, <5>2 DEF Where
          <5> QED BY <1>8, <5>2, <5>3
        <4> QED BY <1>7, <1>9, <2>2, <4>1 DEF Elementwise
      <3>4. CASE x > l
        <4>1. x - l \in 1 .. n /\ sq'[m][x] = e[x - l]
          BY <1>3, <3>1, <3>2, <3>4
        <4>2. sq'[m][x] = RdmaWrite(b, (x - l) - 1, IF x - l = n THEN b ELSE IntMax)
          BY <1>6, <4>1
        <4>3. x - l = n /\ c = b /\ sq'[m][x].buffer = b /\ sq'[m][x].block = n - 1
          BY <1>2, <3>2, <4>2, BufferNumbers, RequestFields DEF Writes
        <4>4. ASSUME NEW i \in 0 .. n - 1
              PROVE  \E y \in 1 .. x : /\ sq'[m][y].op = "RdmaWrite"
                                       /\ sq'[m][y].buffer = b /\ sq'[m][y].block = i
          <5>1. /\ l + i + 1 \in 1 .. x /\ l + i + 1 \in 1 .. l + n /\ ~(l + i + 1 <= l)
                /\ (l + i + 1) - l = i + 1 /\ i + 1 \in 1 .. n /\ (i + 1) - 1 = i
            BY <1>3, <3>1, <3>2, <4>3, <4>4
          <5>2. sq'[m][l + i + 1] = e[i + 1]
            BY <3>1, <5>1
          <5>3. sq'[m][l + i + 1] = RdmaWrite(b, i, IF i + 1 = n THEN b ELSE IntMax)
            BY <1>6, <5>1, <5>2
          <5> QED BY <5>1, <5>3, RequestFields
        <4> QED BY <2>2, <4>3, <4>4
      <3> QED BY <3>1, <3>2, <3>3, <3>4, <1>3
    <2> QED BY <2>1, <2>2
  <1> QED BY <1>10, <1>11 DEF Elementwise

LEMMA ArrivingNext ==
  ASSUME TypeInv, HeldOnce, Arriving, NoEmptyRead, [Next]_vars
  PROVE  Arriving'
  <1>1. ASSUME NEW m \in Machine, NEW k \in Read, RegisterReadDoneCb(m, k) \/ WorkerDoRead(m, k)
        PROVE  Arriving'
    BY <1>1, ArrivingStays DEF RegisterReadDoneCb, WorkerDoRead, net_vars, mem_vars
  <1>2. ASSUME NEW m \in Machine, NEW k \in Read, SendMsg(m, k) \/ PostPleaseWrite(m, k)
        PROVE  Arriving'
    <2>1. PICK r \in {UserMsg(k), PleaseWrite(k)} : Post(m, <<r>>)
      BY <1>2 DEF SendMsg, PostPleaseWrite
    <2>2. r \in Request /\ r.op # "RdmaWrite"
      BY <2>1, IsRequest, RequestFields
    <2>3. sq'[m] = Append(sq[m], r) /\ \A n \in Machine : n # m => sq'[n] = sq[n]
      BY <2>1, <2>2, PostOne
    <2>4. UNCHANGED <<cq, send_mem, recv_mem>>
      BY <1>2 DEF SendMsg, PostPleaseWrite, mem_vars
    <2> QED BY <2>2, <2>3, <2>4, ArrivingStays
  <1>3. ASSUME NEW m \in Machine,
               \/ RecvUserMsg(m) \/ RecvPleaseWrite(m) \/ RecvFreeBufferPair(m) \/ RecvElement(m)
               \/ SyncRead(m)
        PROVE  Arriving'
    <2>1. UNCHANGED <<sq, send_mem, recv_mem>>
      BY <1>3 DEF RecvUserMsg, RecvPleaseWrite, RecvFreeBufferPair, RecvElement, SyncRead, Abort,
                  mem_vars, net_vars
    <2>2. \A n \in Machine : cq'[n] = cq[n] \/ (cq[n] # <<>> /\ cq'[n] = Tail(cq[n]))
      <3>1. UNCHANGED cq \/ (cq[m] # <<>> /\ cq' = [cq EXCEPT ![m] = Tail(@)])
        BY <1>3 DEF RecvUserMsg, RecvPleaseWrite, RecvFreeBufferPair, RecvElement, SyncRead, Abort,
                    OnRecv, net_vars
      <3> QED BY <3>1 DEF TypeInv, TypeOK
    <2> QED BY <2>1, <2>2, ArrivingStays
  <1>4. ASSUME NEW m \in Machine,
               WriteLoop(m) \/ ReadDoneCb(m) \/ ReadCb(m) \/ PostRecvRequest(m)
        PROVE  Arriving'
    <2>1. UNCHANGED <<sq, cq, send_mem, recv_mem>>
      BY <1>4 DEF WriteLoop, ReadDoneCb, ReadCb, PostRecvRequest, Abort, net_vars, mem_vars
    <2> QED BY <2>1, ArrivingStays
  <1>5. ASSUME NEW m \in Machine, PostFreeBufferPair(m) PROVE Arriving'
    <2> DEFINE f == FreeBufferPair(poller[m].buffer, poller[m].last)
    <2>1. poller[m].at = "PostFree" /\ Post(m, <<f>>) /\ UNCHANGED <<cq, send_mem, recv_mem>>
      BY <1>5 DEF PostFreeBufferPair, At, mem_vars
    <2>2. f \in Request /\ f.op # "RdmaWrite"
      <3>1. poller[m].buffer \in Buffer /\ poller[m].last \in BOOLEAN
        BY <2>1, Places DEF TypeInv, TypeOK
      <3> QED BY <3>1, IsRequest, RequestFields
    <2>3. sq'[m] = Append(sq[m], f) /\ \A n \in Machine : n # m => sq'[n] = sq[n]
      BY <2>1, <2>2, PostOne
    <2> QED BY <2>1, <2>2, <2>3, ArrivingStays
  <1>6. CASE UNCHANGED vars
    BY <1>6, ArrivingStays DEF vars, net_vars, mem_vars
  <1>7. ASSUME NEW m \in Machine, PollCQ(m) PROVE Arriving'
    BY <1>3, <1>4, <1>5, <1>7, WritePieceArrives DEF PollCQ
  <1> QED BY <1>1, <1>2, <1>6, <1>7, DeliverArrives DEF Next

LEMMA ArrivingInvariant == NoEmptyRead => (Spec => []Arriving)
  <1>1. ASSUME NoEmptyRead PROVE Spec => []Arriving
    <2>1. TypeInv /\ HeldOnce /\ Arriving /\ [Next]_vars => Arriving'
      BY <1>1, ArrivingNext
    <2> QED BY <1>1, <2>1, ArrivingInit, TypeInvariant, HeldOnceInvariant, PTL DEF Spec
  <1> QED BY <1>1
--------------------------------------------------------------------------------
(* The fourth layer: the order of the reads of one source.  No message     *)
(* names a read, so what every queue holds is said by numbers: a read has  *)
(* the number with which it was announced, a piece the number with which   *)
(* it was written, and each place holds those between two marks.           *)

\* The history of source s: its reads, as announced; how many of them have got
\* how far; its pieces, each the number of a read and an offset, and their
\* buffers; how many pieces have been written and copied out.
History ==
  [reads : Seq(Read),      \* announced
   done : Nat,             \* the source's callback has run
   told : Nat,             \* the last FreeBufferPair is handled
   freed : Nat,            \* the last FreeBufferPair is posted
   copied : Nat,           \* the reader's callback has run
   written : Nat,          \* the write helper is done with it
   taken : Nat,            \* the write helper has begun with it
   queued : Nat,           \* PleaseWrite is handled
   wanted : Nat,           \* PleaseWrite is posted
   pushed : Nat,           \* on read_queue
   handled : Nat,          \* the user message is handled
   asked : Nat,            \* the user message is posted
   last : [Nat -> Nat],    \* the buffer of a read's last piece
   piece : [Nat -> Nat \X Nat],
   buffer : [Nat -> Nat],
   fetched : Nat,
   sent : Nat]

\* What machine n has sent and its peer has not handled.
Out(n) == cq[Peer(n)] \o sq[n]

Kind(op) == {r \in Request : r.op = op}
LastWrites == {r \in Request : r.op = "RdmaWrite" /\ r.imm # IntMax}
LastFrees == {r \in Request : r.op = "FreeBufferPair" /\ r.last}

\* The requests of each kind, by their number.
UserMsgs(G) == [a \in Nat |-> UserMsg(G.reads[a])]
PleaseWrites(G) == [a \in Nat |-> PleaseWrite(G.reads[a])]
LastFreesOf(G) == [a \in Nat |-> FreeBufferPair(G.last[a], TRUE)]

\* The members of T in q are M[lo + 1], ..., M[hi], in this order.
Lists(q, T, lo, hi, M) ==
  \E f \in [lo + 1 .. hi -> DOMAIN q] :
    /\ \A a \in lo + 1 .. hi : q[f[a]] = M[a]
    /\ \A a, b \in lo + 1 .. hi : a < b => f[a] < f[b]
    /\ \A i \in DOMAIN q : q[i] \in T <=> \E a \in lo + 1 .. hi : f[a] = i

Ordered(G) ==
  /\ G \in History
  /\ \A a, b \in DOMAIN G.reads : G.reads[a] = G.reads[b] => a = b
  /\ G.done <= G.told /\ G.told <= G.freed /\ G.freed <= G.copied /\ G.copied <= G.written
  /\ G.written <= G.taken /\ G.taken <= G.queued /\ G.queued <= G.wanted
  /\ G.wanted <= G.pushed /\ G.pushed <= G.handled /\ G.handled <= G.asked
  /\ G.asked <= Len(G.reads) /\ G.fetched <= G.sent

\* The source's application.
Announcing(s, G) ==
  /\ \A k \in Read : k \in announced /\ Source[k] = s <=> \E a \in DOMAIN G.reads : G.reads[a] = k
  /\ announcing[s] # NoRead => Len(G.reads) > 0 /\ G.reads[Len(G.reads)] = announcing[s]
  /\ Len(G.reads) = IF CbFirst /\ announcing[s] # NoRead THEN G.asked + 1 ELSE G.asked
  /\ G.done + Len(read_done_cbs[s])
       = IF ~CbFirst /\ announcing[s] # NoRead THEN Len(G.reads) - 1 ELSE Len(G.reads)
  /\ \A i \in DOMAIN read_done_cbs[s] : read_done_cbs[s][i] = G.reads[G.done + i]

Asking(s, G) ==
  Lists(Out(s), Kind("UserMsg"), G.handled, G.asked, UserMsgs(G))

\* The reader's threads.
Dealing(s, G) ==
  /\ \A k \in Read : k \in deferred /\ Source[k] = s
                       <=> \E a \in G.pushed + 1 .. G.handled : G.reads[a] = k
  /\ \A k \in Read : k \in dealing /\ Source[k] = s
                       <=> \E a \in G.wanted + 1 .. G.pushed : G.reads[a] = k
  /\ deferred \subseteq Deferred
  /\ \A a \in G.wanted + 1 .. G.pushed :
       G.reads[a] \in Deferred \/ poller[Peer(s)] = [at |-> "Dealing", read |-> G.reads[a]]
  /\ G.pushed <= G.wanted + 1

Queueing(s, G) ==
  /\ G.copied + Len(read_queue[Peer(s)]) = G.pushed
  /\ \A i \in DOMAIN read_queue[Peer(s)] : read_queue[Peer(s)][i].read = G.reads[G.copied + i]

Wanting(s, G) ==
  Lists(Out(Peer(s)), Kind("PleaseWrite"), G.queued, G.wanted, PleaseWrites(G))

\* The write helper.
Writing(s, G) ==
  /\ G.taken + Len(cur_record_queue[s]) + Len(pending_record_queue[s]) = G.queued
  /\ \A i \in DOMAIN cur_record_queue[s] : cur_record_queue[s][i].read = G.reads[G.taken + i]
  /\ \A i \in DOMAIN pending_record_queue[s] :
       pending_record_queue[s][i].read = G.reads[G.taken + Len(cur_record_queue[s]) + i]
  /\ G.taken = IF cur_write_handle[s] = "InitWriteHandle" THEN G.written ELSE G.written + 1
  /\ cur_write_handle[s] # "InitWriteHandle" => cur_record[s].read = G.reads[G.taken]

\* The record a piece belongs to, and the place of the piece after it.
PieceRecord(G, j) == WorkRecord(G.reads[G.piece[j][1]], G.piece[j][2])
PieceAfter(G, j) ==
  LET r == PieceRecord(G, j) IN
    IF r.offset + TransferBytes(r) >= Bytes[r.read]
      THEN <<G.piece[j][1] + 1, 0>> ELSE <<G.piece[j][1], r.offset + TransferBytes(r)>>

\* The last request of each piece.
LastWritesOf(G) ==
  [j \in Nat |-> RdmaWrite(G.buffer[j], TransferBytes(PieceRecord(G, j)) - 1, G.buffer[j])]

\* The next piece to be copied out, and the next to be written.
NextFetch(s, G) ==
  LET p == Peer(s) IN
    IF poller[p].at = "ReadCb" THEN <<G.copied + 2, 0>>
    ELSE IF read_queue[p] = <<>> THEN <<G.copied + 1, 0>>
    ELSE <<G.copied + 1, read_queue[p][1].offset>>
NextSend(s, G) ==
  IF cur_write_handle[s] = "InitWriteHandle" THEN <<G.taken + 1, 0>>
  ELSE <<G.taken, cur_record[s].offset>>

\* The pieces under way follow each other without a gap, from the next to be
\* copied out to the next to be written.
Streaming(s, G) ==
  /\ G.piece[G.fetched + 1] = NextFetch(s, G)
  /\ G.piece[G.sent + 1] = NextSend(s, G)
  /\ \A j \in G.fetched + 1 .. G.sent :
       /\ G.piece[j][1] \in 1 .. G.taken
       /\ G.piece[j][2] < Bytes[G.reads[G.piece[j][1]]]
       /\ G.piece[j + 1] = PieceAfter(G, j)
  /\ \A i, j \in G.fetched + 1 .. G.sent + 1 : i <= j => G.piece[i][1] <= G.piece[j][1]

Flying(s, G) ==
  /\ Lists(Out(s), LastWrites, G.fetched, G.sent, LastWritesOf(G))
  /\ \A j \in G.fetched + 1 .. G.sent : \A i \in 0 .. TransferBytes(PieceRecord(G, j)) - 1 :
       send_mem[s][G.buffer[j]][i] = <<PieceRecord(G, j).read, PieceRecord(G, j).offset + i>>

\* The memory of the reader.
Copying(s, G) ==
  LET q == read_queue[Peer(s)] IN
    /\ \A a \in 1 .. G.copied : \A i \in DOMAIN dst[G.reads[a]] :
         dst[G.reads[a]][i] = <<G.reads[a], i>>
    /\ q # <<>> => /\ \A i \in 0 .. q[1].offset - 1 : dst[q[1].read][i] = <<q[1].read, i>>
                   /\ q[1].offset < Bytes[q[1].read] <=> poller[Peer(s)].at # "ReadCb"
    /\ \A i \in DOMAIN q : i > 1 => q[i].offset = 0

\* The way back.
Releasing(s, G) ==
  /\ \A k \in Read : k \in read_cb /\ Source[k] = s <=> \E a \in 1 .. G.copied : G.reads[a] = k
  /\ \A k \in Read : k \in done_cb /\ Source[k] = s <=> \E a \in 1 .. G.done : G.reads[a] = k
  /\ G.told = IF poller[s].at = "ReadDone" THEN G.done + 1 ELSE G.done
  /\ G.copied = IF poller[Peer(s)].at = "PostFree" /\ poller[Peer(s)].last
                  THEN G.freed + 1 ELSE G.freed
  /\ Lists(Out(Peer(s)), LastFrees, G.told, G.freed, LastFreesOf(G))

Pipe(s, G) ==
  /\ Ordered(G) /\ Announcing(s, G) /\ Asking(s, G) /\ Dealing(s, G) /\ Queueing(s, G)
  /\ Wanting(s, G) /\ Writing(s, G) /\ Streaming(s, G) /\ Flying(s, G) /\ Copying(s, G)
  /\ Releasing(s, G)

InStep == \A s \in Machine : \E G \in History : Pipe(s, G)
--------------------------------------------------------------------------------
(* Lists and queues.                                                       *)

LEMMA ListsSame ==
  ASSUME NEW q, NEW T, NEW lo \in Nat, NEW hi \in Nat, NEW M, NEW N, Lists(q, T, lo, hi, M),
         \A a \in lo + 1 .. hi : N[a] = M[a]
  PROVE  Lists(q, T, lo, hi, N)
  <1>1. PICK f \in [lo + 1 .. hi -> DOMAIN q] :
          /\ \A a \in lo + 1 .. hi : q[f[a]] = M[a]
          /\ \A a, b \in lo + 1 .. hi : a < b => f[a] < f[b]
          /\ \A i \in DOMAIN q : q[i] \in T <=> \E a \in lo + 1 .. hi : f[a] = i
    BY DEF Lists
  <1>2. \A a \in lo + 1 .. hi : q[f[a]] = N[a]
    BY <1>1
  <1> QED BY <1>1, <1>2 DEF Lists

LEMMA ListsEmpty == \A T, M : \A n \in Nat : Lists(<<>>, T, n, n, M)
  <1> SUFFICES ASSUME NEW T, NEW M, NEW n \in Nat PROVE Lists(<<>>, T, n, n, M)
    OBVIOUS
  <1> DEFINE f == [a \in n + 1 .. n |-> 0]
  <1>1. n + 1 .. n = {} /\ DOMAIN <<>> = {}
    OBVIOUS
  <1>2. f \in [n + 1 .. n -> DOMAIN <<>>]
    BY <1>1
  <1> QED BY <1>1, <1>2 DEF Lists

\* Requests of another kind joined the queue.
LEMMA ListsOthers ==
  ASSUME NEW S, NEW q \in Seq(S), NEW e \in Seq(S), NEW T, NEW lo \in Nat, NEW hi \in Nat, NEW M,
         Lists(q, T, lo, hi, M), \A i \in 1 .. Len(e) : e[i] \notin T
  PROVE  Lists(q \o e, T, lo, hi, M)
  <1>1. PICK f \in [lo + 1 .. hi -> DOMAIN q] :
          /\ \A a \in lo + 1 .. hi : q[f[a]] = M[a]
          /\ \A a, b \in lo + 1 .. hi : a < b => f[a] < f[b]
          /\ \A i \in DOMAIN q : q[i] \in T <=> \E a \in lo + 1 .. hi : f[a] = i
    BY DEF Lists
  <1>2. /\ Len(q) \in Nat /\ Len(e) \in Nat /\ DOMAIN q = 1 .. Len(q)
        /\ DOMAIN (q \o e) = 1 .. Len(q) + Len(e)
        /\ \A i \in 1 .. Len(q) + Len(e) : (q \o e)[i] = IF i <= Len(q) THEN q[i] ELSE e[i - Len(q)]
    BY ConcatProperties, LenProperties
  <1>3. f \in [lo + 1 .. hi -> DOMAIN (q \o e)] /\ \A a \in lo + 1 .. hi : (q \o e)[f[a]] = M[a]
    BY <1>1, <1>2
  <1>4. ASSUME NEW i \in DOMAIN (q \o e)
        PROVE  (q \o e)[i] \in T <=> \E a \in lo + 1 .. hi : f[a] = i
    <2>1. CASE i <= Len(q)
      BY <1>1, <1>2, <2>1
    <2>2. CASE i > Len(q)
      <3>1. i - Len(q) \in 1 .. Len(e) /\ (q \o e)[i] = e[i - Len(q)]
        BY <1>2, <2>2
      <3>2. \A a \in lo + 1 .. hi : f[a] # i
        <4>1. \A a \in lo + 1 .. hi : f[a] \in 1 .. Len(q)
          BY <1>2
        <4> QED BY <2>2, <4>1, <1>2
      <3> QED BY <3>1, <3>2
    <2> QED BY <1>2, <2>1, <2>2
  <1> QED BY <1>1, <1>3, <1>4 DEF Lists

\* The last of the requests that joined the queue is the next on the list.
LEMMA ListsNext ==
  ASSUME NEW S, NEW q \in Seq(S), NEW e \in Seq(S), NEW T, NEW lo \in Nat, NEW hi \in Nat, NEW M,
         lo <= hi, Lists(q, T, lo, hi, M), Len(e) > 0, \A i \in 1 .. Len(e) - 1 : e[i] \notin T,
         e[Len(e)] \in T, M[hi + 1] = e[Len(e)]
  PROVE  Lists(q \o e, T, lo, hi + 1, M)
  <1>1. PICK f \in [lo + 1 .. hi -> DOMAIN q] :
          /\ \A a \in lo + 1 .. hi : q[f[a]] = M[a]
          /\ \A a, b \in lo + 1 .. hi : a < b => f[a] < f[b]
          /\ \A i \in DOMAIN q : q[i] \in T <=> \E a \in lo + 1 .. hi : f[a] = i
    BY DEF Lists
  <1>2. /\ Len(q) \in Nat /\ Len(e) \in Nat /\ DOMAIN q = 1 .. Len(q)
        /\ DOMAIN (q \o e) = 1 .. Len(q) + Len(e)
        /\ \A i \in 1 .. Len(q) + Len(e) : (q \o e)[i] = IF i <= Len(q) THEN q[i] ELSE e[i - Len(q)]
    BY ConcatProperties, LenProperties
  <1> DEFINE g == [a \in lo + 1 .. hi + 1 |-> IF a <= hi THEN f[a] ELSE Len(q) + Len(e)]
  <1>3. /\ g \in [lo + 1 .. hi + 1 -> DOMAIN (q \o e)]
        /\ \A a \in lo + 1 .. hi : g[a] = f[a] /\ g[a] \in DOMAIN q
        /\ hi + 1 \in lo + 1 .. hi + 1 /\ g[hi + 1] = Len(q) + Len(e)
    BY <1>2
  <1>4. \A a \in lo + 1 .. hi + 1 : a \in lo + 1 .. hi \/ a = hi + 1
    OBVIOUS
  <1> HIDE DEF g
  <1>8. ASSUME NEW a \in lo + 1 .. hi PROVE g[a] \in Nat /\ g[a] <= Len(q)
    <2>1. g[a] \in 1 .. Len(q) /\ Len(q) \in Nat
      BY <1>2, <1>3
    <2> QED BY <2>1
  <1>9. \A a, b \in lo + 1 .. hi : a < b => g[a] < g[b]
    BY <1>1, <1>3
  <1>5. \A a \in lo + 1 .. hi + 1 : (q \o e)[g[a]] = M[a]
    <2>1. (q \o e)[g[hi + 1]] = M[hi + 1]
      BY <1>2, <1>3
    <2>2. \A a \in lo + 1 .. hi : (q \o e)[g[a]] = M[a]
      BY <1>1, <1>2, <1>3
    <2> QED BY <1>4, <2>1, <2>2
  <1>6. ASSUME NEW a \in lo + 1 .. hi + 1, NEW b \in lo + 1 .. hi + 1, a < b PROVE g[a] < g[b]
    <2>1. a \in lo + 1 .. hi
      BY <1>6
    <2>2. CASE b = hi + 1
      <3>1. Len(q) < g[hi + 1] /\ Len(q) \in Nat /\ g[hi + 1] \in Nat
        BY <1>2, <1>3
      <3> QED BY <1>8, <2>1, <2>2, <3>1
    <2> QED BY <1>4, <1>6, <1>9, <2>1, <2>2
  <1>7. ASSUME NEW i \in DOMAIN (q \o e)
        PROVE  (q \o e)[i] \in T <=> \E a \in lo + 1 .. hi + 1 : g[a] = i
    <2>1. CASE i <= Len(q)
      <3>1. i \in DOMAIN q /\ (q \o e)[i] = q[i] /\ g[hi + 1] # i
        BY <1>2, <1>3, <2>1
      <3>2. q[i] \in T <=> \E a \in lo + 1 .. hi : f[a] = i
        BY <1>1, <3>1
      <3>3. (\E a \in lo + 1 .. hi : f[a] = i) <=> \E a \in lo + 1 .. hi + 1 : g[a] = i
        BY <1>3, <1>4, <3>1
      <3> QED BY <3>1, <3>2, <3>3
    <2>2. CASE i > Len(q) /\ i < Len(q) + Len(e)
      <3>1. i - Len(q) \in 1 .. Len(e) - 1 /\ (q \o e)[i] = e[i - Len(q)]
        BY <1>2, <2>2
      <3>2. ASSUME NEW a \in lo + 1 .. hi + 1 PROVE g[a] # i
        <4>1. Len(q) \in Nat /\ Len(e) \in Nat /\ i \in 1 .. Len(q) + Len(e)
          BY <1>2
        <4>2. a \in lo + 1 .. hi => g[a] \in Nat /\ g[a] <= Len(q)
          BY <1>8
        <4>3. a = hi + 1 => g[a] = Len(q) + Len(e)
          BY <1>3
        <4> QED BY <1>4, <2>2, <4>1, <4>2, <4>3
      <3> QED BY <3>1, <3>2
    <2>3. CASE i = Len(q) + Len(e)
      <3>1. i \in 1 .. Len(q) + Len(e) /\ ~(i <= Len(q)) /\ i - Len(q) = Len(e)
        BY <1>2, <2>3
      <3>2. (q \o e)[i] = e[Len(e)]
        BY <1>2, <3>1
      <3>3. g[hi + 1] = i /\ hi + 1 \in lo + 1 .. hi + 1
        BY <1>3, <2>3
      <3> QED BY <3>2, <3>3
    <2>4. i \in Nat /\ i <= Len(q) + Len(e) /\ Len(q) \in Nat /\ Len(e) \in Nat
      BY <1>2
    <2>5. i <= Len(q) \/ (i > Len(q) /\ i < Len(q) + Len(e)) \/ i = Len(q) + Len(e)
      BY ONLY <2>4
    <2> QED BY <2>1, <2>2, <2>3, <2>5
  <1> QED BY <1>3, <1>5, <1>6, <1>7 DEF Lists

\* The oldest request leaves the queue: of another kind, or the first on the list.
LEMMA ListsTail ==
  ASSUME NEW S, NEW q \in Seq(S), NEW T, NEW lo \in Nat, NEW hi \in Nat, NEW M,
         q # <<>>, Lists(q, T, lo, hi, M)
  PROVE  /\ Head(q) \notin T => Lists(Tail(q), T, lo, hi, M)
         /\ Head(q) \in T => /\ lo < hi /\ Head(q) = M[lo + 1]
                             /\ Lists(Tail(q), T, lo + 1, hi, M)
  <1>1. PICK f \in [lo + 1 .. hi -> DOMAIN q] :
          /\ \A a \in lo + 1 .. hi : q[f[a]] = M[a]
          /\ \A a, b \in lo + 1 .. hi : a < b => f[a] < f[b]
          /\ \A i \in DOMAIN q : q[i] \in T <=> \E a \in lo + 1 .. hi : f[a] = i
    BY DEF Lists
  <1>2. /\ Len(q) \in Nat \ {0} /\ DOMAIN q = 1 .. Len(q) /\ Head(q) = q[1]
        /\ DOMAIN Tail(q) = 1 .. Len(q) - 1
        /\ \A i \in 1 .. Len(q) - 1 : Tail(q)[i] = q[i + 1]
    BY Ends
  <1>3. ASSUME NEW l \in Nat, l >= lo, \A a \in l + 1 .. hi : f[a] # 1,
               \A a \in lo + 1 .. hi : a \in l + 1 .. hi \/ f[a] = 1
        PROVE  Lists(Tail(q), T, l, hi, M)
    <2> DEFINE g == [a \in l + 1 .. hi |-> f[a] - 1]
    <2>1. \A a \in l + 1 .. hi : /\ a \in lo + 1 .. hi
                                 /\ f[a] \in 2 .. Len(q) /\ f[a] - 1 \in 1 .. Len(q) - 1
                                 /\ (f[a] - 1) + 1 = f[a]
      BY <1>1, <1>2, <1>3
    <2>2. g \in [l + 1 .. hi -> DOMAIN Tail(q)] /\ \A a \in l + 1 .. hi : g[a] = f[a] - 1
      BY <1>2, <2>1
    <2> HIDE DEF g
    <2>3. \A a \in l + 1 .. hi : Tail(q)[g[a]] = M[a]
      BY <1>1, <1>2, <2>1, <2>2
    <2>4. \A a, b \in l + 1 .. hi : a < b => g[a] < g[b]
      BY <1>1, <1>2, <2>1, <2>2
    <2>5. ASSUME NEW i \in DOMAIN Tail(q)
          PROVE  Tail(q)[i] \in T <=> \E a \in l + 1 .. hi : g[a] = i
      <3>1. i \in Nat /\ i > 0 /\ i + 1 \in DOMAIN q /\ Tail(q)[i] = q[i + 1]
        BY <1>2
      <3>2. Tail(q)[i] \in T <=> \E a \in lo + 1 .. hi : f[a] = i + 1
        BY <1>1, <3>1
      <3>3. \A a \in lo + 1 .. hi : f[a] = i + 1 => a \in l + 1 .. hi
        BY <1>3, <3>1
      <3>4. ASSUME NEW a \in l + 1 .. hi PROVE f[a] = i + 1 <=> g[a] = i
        <4>1. g[a] = f[a] - 1 /\ f[a] \in 2 .. Len(q)
          BY <2>1, <2>2
        <4> QED BY <3>1, <4>1, <1>2
      <3> QED BY <2>1, <3>2, <3>3, <3>4
    <2> QED BY <2>2, <2>3, <2>4, <2>5 DEF Lists
  <1>4. CASE Head(q) \notin T
    BY <1>1, <1>2, <1>3, <1>4
  <1>5. CASE Head(q) \in T
    <2>1. PICK a \in lo + 1 .. hi : f[a] = 1
      BY <1>1, <1>2, <1>5
    <2>2. lo < hi /\ lo + 1 \in lo + 1 .. hi /\ lo + 1 <= a
      BY <2>1
    <2>3. f[lo + 1] = 1
      <3>1. f[lo + 1] \in 1 .. Len(q) /\ (lo + 1 < a => f[lo + 1] < f[a])
        BY <1>1, <1>2, <2>1, <2>2
      <3> QED BY <2>1, <2>2, <3>1
    <2>4. \A c \in (lo + 1) + 1 .. hi : f[c] # 1
      <3>1. \A c \in (lo + 1) + 1 .. hi : c \in lo + 1 .. hi /\ lo + 1 < c /\ f[c] \in 1 .. Len(q)
        BY <1>2
      <3> QED BY <1>1, <2>2, <2>3, <3>1
    <2>5. \A c \in lo + 1 .. hi : c \in (lo + 1) + 1 .. hi \/ f[c] = 1
      BY <2>3
    <2>6. Head(q) = M[lo + 1]
      BY <1>1, <1>2, <2>2, <2>3
    <2>7. lo + 1 \in Nat /\ lo + 1 >= lo
      OBVIOUS
    <2>8. Lists(Tail(q), T, lo + 1, hi, M)
      BY <1>3, <2>4, <2>5, <2>7
    <2> QED BY <1>5, <2>2, <2>6, <2>8
  <1> QED BY <1>4, <1>5

LEMMA AppendHeadTail ==
  ASSUME NEW S, NEW c \in Seq(S), NEW q \in Seq(S), q # <<>>
  PROVE  Append(c, Head(q)) \o Tail(q) = c \o q
  <1>1. Head(q) \in S /\ Tail(q) \in Seq(S) /\ <<Head(q)>> \in Seq(S)
    BY Ends
  <1>2. Append(c, Head(q)) = c \o <<Head(q)>>
    BY <1>1, AppendIsConcat
  <1>3. <<Head(q)>> \o Tail(q) = q
    BY HeadTailProperties
  <1> QED BY <1>1, <1>2, <1>3, ConcatAssociative

LEMMA ConcatHeadTail ==
  ASSUME NEW S, NEW c \in Seq(S), NEW q \in Seq(S), c # <<>>
  PROVE  c \o q # <<>> /\ Head(c \o q) = Head(c) /\ Tail(c \o q) = Tail(c) \o q
  <1>1. /\ Head(c) \in S /\ Tail(c) \in Seq(S) /\ <<Head(c)>> \in Seq(S) /\ Len(c) \in Nat \ {0}
        /\ Head(c) = c[1]
    BY Ends
  <1>2. /\ c \o q \in Seq(S) /\ Len(c \o q) = Len(c) + Len(q) /\ Len(q) \in Nat
        /\ (c \o q)[1] = c[1]
    BY <1>1, ConcatProperties, LenProperties
  <1>3. c \o q # <<>>
    BY <1>1, <1>2
  <1>4. Head(c \o q) = Head(c)
    BY <1>1, <1>2, <1>3, Ends
  <1>5. Tail(c \o q) = Tail(c) \o q
    <2>1. /\ Tail(c \o q) \in Seq(S) /\ Len(Tail(c \o q)) = Len(c) + Len(q) - 1
          /\ \A i \in 1 .. Len(c) + Len(q) - 1 : Tail(c \o q)[i] = (c \o q)[i + 1]
      BY <1>2, <1>3, Ends
    <2>2. /\ Len(Tail(c)) = Len(c) - 1 /\ \A i \in 1 .. Len(c) - 1 : Tail(c)[i] = c[i + 1]
      BY Ends
    <2>3. /\ Tail(c) \o q \in Seq(S) /\ Len(Tail(c) \o q) = Len(c) - 1 + Len(q)
          /\ \A i \in 1 .. Len(c) - 1 + Len(q) :
               (Tail(c) \o q)[i] = IF i <= Len(c) - 1 THEN Tail(c)[i] ELSE q[i - (Len(c) - 1)]
      BY <1>1, <2>2, ConcatProperties
    <2>4. \A i \in 1 .. Len(c) + Len(q) :
            (c \o q)[i] = IF i <= Len(c) THEN c[i] ELSE q[i - Len(c)]
      BY ConcatProperties
    <2>5. \A i \in 1 .. Len(c) + Len(q) - 1 : Tail(c \o q)[i] = (Tail(c) \o q)[i]
      BY <1>1, <1>2, <2>1, <2>2, <2>3, <2>4
    <2> QED BY <1>1, <1>2, <2>1, <2>3, <2>5, SeqEqual
  <1> QED BY <1>3, <1>4, <1>5

\* Posting, delivering and handling requests, as the queue of all that is not
\* handled sees it.
LEMMA OutType == ASSUME TypeInv, NEW n \in Machine PROVE Out(n) \in Seq(Request)
  <1>1. cq[Peer(n)] \in Seq(Request) /\ sq[n] \in Seq(Request)
    BY Peers DEF TypeInv, TypeOK
  <1> QED BY <1>1, ConcatProperties DEF Out

LEMMA OutPost ==
  ASSUME TypeInv, NEW m \in Machine, NEW e \in Seq(Request), Post(m, e), UNCHANGED cq
  PROVE  Out(m)' = Out(m) \o e /\ Out(Peer(m))' = Out(Peer(m))
  <1>1. /\ Peer(m) \in Machine /\ Peer(m) # m /\ cq[Peer(m)] \in Seq(Request)
        /\ sq[m] \in Seq(Request)
    BY Peers DEF TypeInv, TypeOK
  <1>2. sq'[m] = sq[m] \o e /\ sq'[Peer(m)] = sq[Peer(m)]
    BY <1>1 DEF Post, TypeInv, TypeOK
  <1>3. \A c, d \in Seq(Request) : (c \o d) \o e = c \o (d \o e)
    BY ConcatAssociative
  <1>4. cq[Peer(m)] \o (sq[m] \o e) = (cq[Peer(m)] \o sq[m]) \o e
    BY <1>1, <1>3
  <1>5. Peer(Peer(m)) = m /\ cq' = cq
    BY Peers
  <1> QED BY <1>2, <1>4, <1>5 DEF Out

LEMMA OutRecv ==
  ASSUME TypeInv, NEW m \in Machine, cq[m] # <<>>, cq' = [cq EXCEPT ![m] = Tail(@)], UNCHANGED sq
  PROVE  LET p == Peer(m) IN
         /\ Out(p) # <<>> /\ Head(Out(p)) = Head(cq[m]) /\ Out(p)' = Tail(Out(p))
         /\ Out(m)' = Out(m)
  <1> DEFINE p == Peer(m)
  <1>1. p \in Machine /\ p # m /\ Peer(p) = m
    BY Peers
  <1>2. cq[m] \in Seq(Request) /\ sq[p] \in Seq(Request)
    BY <1>1 DEF TypeInv, TypeOK
  <1>3. cq'[m] = Tail(cq[m]) /\ cq'[p] = cq[p]
    BY <1>1 DEF TypeInv, TypeOK
  <1>4. /\ cq[m] \o sq[p] # <<>> /\ Head(cq[m] \o sq[p]) = Head(cq[m])
        /\ Tail(cq[m] \o sq[p]) = Tail(cq[m]) \o sq[p]
    BY <1>2, ConcatHeadTail
  <1> QED BY <1>1, <1>3, <1>4 DEF Out

LEMMA OutDeliver ==
  ASSUME TypeInv, NEW m \in Machine, Deliver(m), NEW n \in Machine
  PROVE  Out(n)' = Out(n)
  <1> DEFINE p == Peer(m)
  <1>1. p \in Machine /\ p # m /\ Peer(p) = m /\ (n = m \/ n = p)
    BY Peers
  <1>2. /\ sq[m] # <<>> /\ cq' = [cq EXCEPT ![p] = Append(@, Head(sq[m]))]
        /\ sq' = [sq EXCEPT ![m] = Tail(@)]
    BY DEF Deliver
  <1>3. /\ sq'[m] = Tail(sq[m]) /\ sq'[p] = sq[p]
        /\ cq'[p] = Append(cq[p], Head(sq[m])) /\ cq'[m] = cq[m]
    BY <1>1, <1>2 DEF TypeInv, TypeOK
  <1>4. cq[p] \in Seq(Request) /\ sq[m] \in Seq(Request)
    BY <1>1 DEF TypeInv, TypeOK
  <1>5. Append(cq[p], Head(sq[m])) \o Tail(sq[m]) = cq[p] \o sq[m]
    BY <1>2, <1>4, AppendHeadTail
  <1> QED BY <1>1, <1>3, <1>5 DEF Out
--------------------------------------------------------------------------------
(* What each part of Pipe depends on: a step that changes nothing of it keeps *)
(* the part, also when marks it does not speak of have moved.              *)

LEMMA Marks ==
  ASSUME NEW G \in History
  PROVE  /\ G.reads \in Seq(Read) /\ Len(G.reads) \in Nat /\ DOMAIN G.reads = 1 .. Len(G.reads)
         /\ \A a \in DOMAIN G.reads : G.reads[a] \in Read
         /\ G.done \in Nat /\ G.told \in Nat /\ G.freed \in Nat /\ G.copied \in Nat
         /\ G.written \in Nat /\ G.taken \in Nat /\ G.queued \in Nat /\ G.wanted \in Nat
         /\ G.pushed \in Nat /\ G.handled \in Nat /\ G.asked \in Nat
         /\ G.fetched \in Nat /\ G.sent \in Nat
         /\ G.last \in [Nat -> Nat] /\ G.piece \in [Nat -> Nat \X Nat]
         /\ G.buffer \in [Nat -> Nat]
  <1>1. G.reads \in Seq(Read)
    BY DEF History
  <1>2. /\ Len(G.reads) \in Nat /\ DOMAIN G.reads = 1 .. Len(G.reads)
        /\ \A a \in DOMAIN G.reads : G.reads[a] \in Read
    BY <1>1, LenProperties, ElementOfSeq
  <1> QED BY <1>1, <1>2 DEF History

\* More reads are announced, at most.
Extends(G, H) ==
  Len(G.reads) <= Len(H.reads) /\ \A a \in DOMAIN G.reads : H.reads[a] = G.reads[a]

LEMMA InOrder ==
  ASSUME NEW G, Ordered(G)
  PROVE  /\ G \in History
         /\ G.done <= G.told /\ G.told <= G.freed /\ G.freed <= G.copied
         /\ G.copied <= G.written /\ G.written <= G.taken /\ G.taken <= G.queued
         /\ G.queued <= G.wanted /\ G.wanted <= G.pushed /\ G.pushed <= G.handled
         /\ G.handled <= G.asked /\ G.asked <= Len(G.reads)
         /\ G.fetched <= G.sent
         /\ \A a, b \in DOMAIN G.reads : G.reads[a] = G.reads[b] => a = b
         /\ \A a \in 1 .. G.asked : a \in DOMAIN G.reads /\ G.reads[a] \in Read
  <1>1. G \in History
    BY DEF Ordered
  <1>2. \A a \in 1 .. G.asked : a \in DOMAIN G.reads /\ G.reads[a] \in Read
    <2>1. G.asked \in Nat /\ Len(G.reads) \in Nat /\ G.asked <= Len(G.reads)
      BY <1>1, Marks DEF Ordered
    <2>2. DOMAIN G.reads = 1 .. Len(G.reads) /\ \A a \in DOMAIN G.reads : G.reads[a] \in Read
      BY <1>1, Marks
    <2> QED BY <2>1, <2>2
  <1> QED BY <1>1, <1>2 DEF Ordered

LEMMA AnnouncingKeeps ==
  ASSUME NEW s \in Machine, NEW G \in History, NEW H \in History, Announcing(s, G),
         H.reads = G.reads, H.asked = G.asked, H.done = G.done,
         read_done_cbs'[s] = read_done_cbs[s], announcing'[s] = announcing[s],
         \A k \in Read : Source[k] = s => (k \in announced' <=> k \in announced)
  PROVE  Announcing(s, H)'
  BY DEF Announcing

LEMMA DealingKeeps ==
  ASSUME NEW s \in Machine, NEW G, NEW H \in History, Ordered(G), Dealing(s, G), Extends(G, H),
         H.pushed = G.pushed, H.handled = G.handled, H.wanted = G.wanted,
         \A k \in Read : Source[k] = s => /\ k \in deferred' <=> k \in deferred
                                          /\ k \in dealing' <=> k \in dealing,
         deferred' \subseteq Deferred,
         poller'[Peer(s)] = poller[Peer(s)] \/ poller[Peer(s)].at # "Dealing"
  PROVE  Dealing(s, H)'
  <1>1. /\ \A a \in G.pushed + 1 .. G.handled : a \in DOMAIN G.reads /\ H.reads[a] = G.reads[a]
        /\ \A a \in G.wanted + 1 .. G.pushed : a \in DOMAIN G.reads /\ H.reads[a] = G.reads[a]
    <2>1. /\ G \in History /\ G.wanted <= G.pushed /\ G.pushed <= G.handled
          /\ G.handled <= G.asked /\ \A a \in 1 .. G.asked : a \in DOMAIN G.reads
      BY InOrder
    <2>2. /\ G.wanted \in Nat /\ G.pushed \in Nat /\ G.handled \in Nat /\ G.asked \in Nat
      BY <2>1, Marks
    <2>3. /\ G.pushed + 1 .. G.handled \subseteq 1 .. G.asked
          /\ G.wanted + 1 .. G.pushed \subseteq 1 .. G.asked
      BY <2>1, <2>2
    <2> QED BY <2>1, <2>3 DEF Extends
  <1>2. /\ \A k \in Read : k \in deferred' /\ Source[k] = s
                             <=> \E a \in H.pushed + 1 .. H.handled : H.reads[a] = k
        /\ \A k \in Read : k \in dealing' /\ Source[k] = s
                             <=> \E a \in H.wanted + 1 .. H.pushed : H.reads[a] = k
    BY <1>1 DEF Dealing
  <1>3. \A a \in H.wanted + 1 .. H.pushed :
          H.reads[a] \in Deferred \/ poller'[Peer(s)] = [at |-> "Dealing", read |-> H.reads[a]]
    <2>1. \A a \in G.wanted + 1 .. G.pushed :
            G.reads[a] \in Deferred \/ poller[Peer(s)] = [at |-> "Dealing", read |-> G.reads[a]]
      BY DEF Dealing
    <2>2. \A k : [at |-> "Dealing", read |-> k].at = "Dealing"
      OBVIOUS
    <2> QED BY <1>1, <2>1, <2>2
  <1>4. H.pushed <= H.wanted + 1
    BY DEF Dealing
  <1> QED BY <1>2, <1>3, <1>4 DEF Dealing

LEMMA QueueingKeeps ==
  ASSUME NEW s \in Machine, NEW G, NEW H \in History, Ordered(G), Queueing(s, G), Extends(G, H),
         H.copied = G.copied, H.pushed = G.pushed, TypeInv,
         Len(read_queue'[Peer(s)]) = Len(read_queue[Peer(s)]),
         DOMAIN read_queue'[Peer(s)] = DOMAIN read_queue[Peer(s)],
         \A i \in DOMAIN read_queue[Peer(s)] :
           read_queue'[Peer(s)][i].read = read_queue[Peer(s)][i].read
  PROVE  Queueing(s, H)'
  <1> DEFINE q == read_queue[Peer(s)]
  <1>1. q \in Seq(Record)
    BY Peers DEF TypeInv, TypeOK
  <1>2. DOMAIN q = 1 .. Len(q) /\ Len(q) \in Nat
    BY <1>1, LenProperties
  <1>3. /\ G \in History /\ G.pushed <= G.asked /\ \A a \in 1 .. G.asked : a \in DOMAIN G.reads
        /\ G.copied \in Nat /\ G.pushed \in Nat /\ G.asked \in Nat
    <2>1. /\ G \in History /\ G.pushed <= G.handled /\ G.handled <= G.asked
          /\ \A a \in 1 .. G.asked : a \in DOMAIN G.reads
      BY InOrder
    <2>2. G.copied \in Nat /\ G.pushed \in Nat /\ G.asked \in Nat /\ G.handled \in Nat
      BY <2>1, Marks
    <2> QED BY <2>1, <2>2
  <1>4. ASSUME NEW i \in DOMAIN q PROVE G.copied + i \in DOMAIN G.reads
    <2>1. G.copied + i \in 1 .. G.asked
      BY <1>2, <1>3 DEF Queueing
    <2> QED BY <1>3, <2>1
  <1> QED BY <1>4 DEF Queueing, Extends

LEMMA ListedReads ==
  ASSUME NEW G, NEW H, Ordered(G), Extends(G, H)
  PROVE  /\ \A a \in G.handled + 1 .. G.asked : UserMsgs(H)[a] = UserMsgs(G)[a]
         /\ \A a \in G.queued + 1 .. G.wanted : PleaseWrites(H)[a] = PleaseWrites(G)[a]
  <1>1. /\ G \in History /\ G.queued <= G.wanted /\ G.wanted <= G.pushed /\ G.pushed <= G.handled
        /\ G.handled <= G.asked
        /\ \A a \in 1 .. G.asked : a \in DOMAIN G.reads
    BY InOrder
  <1>2. G.queued \in Nat /\ G.wanted \in Nat /\ G.pushed \in Nat /\ G.handled \in Nat /\ G.asked \in Nat
    BY <1>1, Marks
  <1>3. \A a \in G.handled + 1 .. G.asked : a \in Nat /\ a \in 1 .. G.asked
    BY <1>2
  <1>4. \A a \in G.queued + 1 .. G.wanted : a \in Nat /\ a \in 1 .. G.asked
    BY <1>1, <1>2
  <1>5. \A a \in 1 .. G.asked : H.reads[a] = G.reads[a]
    BY <1>1 DEF Extends
  <1> QED BY <1>3, <1>4, <1>5 DEF UserMsgs, PleaseWrites

LEMMA AskingKeeps ==
  ASSUME NEW s \in Machine, NEW G, NEW H \in History, Ordered(G), Extends(G, H),
         H.handled = G.handled, H.asked = G.asked,
         Lists(Out(s)', Kind("UserMsg"), G.handled, G.asked, UserMsgs(G))
  PROVE  Asking(s, H)'
  <1>1. G.handled \in Nat /\ G.asked \in Nat
    BY InOrder, Marks
  <1>2. Lists(Out(s)', Kind("UserMsg"), G.handled, G.asked, UserMsgs(H))
    BY <1>1, ListedReads, ListsSame
  <1> QED BY <1>2 DEF Asking

LEMMA WantingKeeps ==
  ASSUME NEW s \in Machine, NEW G, NEW H \in History, Ordered(G), Extends(G, H),
         H.queued = G.queued, H.wanted = G.wanted,
         Lists(Out(Peer(s))', Kind("PleaseWrite"), G.queued, G.wanted, PleaseWrites(G))
  PROVE  Wanting(s, H)'
  <1>1. G.queued \in Nat /\ G.wanted \in Nat
    BY InOrder, Marks
  <1>2. Lists(Out(Peer(s))', Kind("PleaseWrite"), G.queued, G.wanted, PleaseWrites(H))
    BY <1>1, ListedReads, ListsSame
  <1> QED BY <1>2 DEF Wanting

LEMMA WritingKeeps ==
  ASSUME NEW s \in Machine, NEW G, NEW H \in History, TypeInv, Ordered(G), Writing(s, G),
         Extends(G, H), H.taken = G.taken, H.queued = G.queued, H.written = G.written,
         cur_record_queue'[s] = cur_record_queue[s],
         pending_record_queue'[s] = pending_record_queue[s],
         cur_record'[s] = cur_record[s],
         cur_write_handle'[s] = "InitWriteHandle" <=> cur_write_handle[s] = "InitWriteHandle"
  PROVE  Writing(s, H)'
  <1> DEFINE q == cur_record_queue[s]
             r == pending_record_queue[s]
  <1>1. q \in Seq(Record) /\ r \in Seq(Record)
    BY DEF TypeInv, TypeOK
  <1>2. DOMAIN q = 1 .. Len(q) /\ Len(q) \in Nat /\ DOMAIN r = 1 .. Len(r) /\ Len(r) \in Nat
    BY <1>1, LenProperties
  <1>3. /\ G \in History /\ G.taken <= G.queued /\ G.queued <= G.wanted /\ G.wanted <= G.pushed
        /\ G.pushed <= G.handled /\ G.handled <= G.asked
        /\ \A a \in 1 .. G.asked : a \in DOMAIN G.reads
    BY InOrder
  <1>4. /\ G.taken \in Nat /\ G.queued \in Nat /\ G.wanted \in Nat /\ G.pushed \in Nat
        /\ G.handled \in Nat /\ G.asked \in Nat /\ G.written \in Nat
    BY <1>3, Marks
  <1>5. \A a \in 1 .. G.queued : H.reads[a] = G.reads[a]
    BY <1>3, <1>4 DEF Extends
  <1>6. G.taken + Len(q) + Len(r) = G.queued
    BY DEF Writing
  <1>7. \A i \in DOMAIN q : G.taken + i \in 1 .. G.queued
    BY <1>2, <1>4, <1>6
  <1>8. \A i \in DOMAIN r : G.taken + Len(q) + i \in 1 .. G.queued
    BY <1>2, <1>4, <1>6
  <1>9. cur_write_handle[s] # "InitWriteHandle" => G.taken \in 1 .. G.queued
    BY <1>3, <1>4 DEF Writing
  <1> QED BY <1>5, <1>7, <1>8, <1>9 DEF Writing

LEMMA PieceKeeps ==
  ASSUME NEW s \in Machine, NEW G, NEW H \in History, Ordered(G), Streaming(s, G), Extends(G, H),
         H.piece = G.piece, H.fetched = G.fetched, H.sent = G.sent
  PROVE  \A j \in G.fetched + 1 .. G.sent :
           /\ j \in Nat /\ G.piece[j][1] \in DOMAIN G.reads
           /\ H.reads[G.piece[j][1]] = G.reads[G.piece[j][1]]
           /\ PieceRecord(H, j) = PieceRecord(G, j) /\ PieceAfter(H, j) = PieceAfter(G, j)
  <1> SUFFICES ASSUME NEW j \in G.fetched + 1 .. G.sent
               PROVE  /\ j \in Nat /\ G.piece[j][1] \in DOMAIN G.reads
                      /\ H.reads[G.piece[j][1]] = G.reads[G.piece[j][1]]
                      /\ PieceRecord(H, j) = PieceRecord(G, j)
                      /\ PieceAfter(H, j) = PieceAfter(G, j)
    OBVIOUS
  <1>1. /\ G \in History /\ G.taken <= G.queued /\ G.queued <= G.wanted /\ G.wanted <= G.pushed
        /\ G.pushed <= G.handled /\ G.handled <= G.asked
        /\ \A a \in 1 .. G.asked : a \in DOMAIN G.reads
    BY InOrder
  <1>2. /\ G.taken \in Nat /\ G.queued \in Nat /\ G.wanted \in Nat /\ G.pushed \in Nat
        /\ G.handled \in Nat /\ G.asked \in Nat /\ G.fetched \in Nat /\ G.sent \in Nat
    BY <1>1, Marks
  <1>3. G.piece[j][1] \in 1 .. G.taken
    BY DEF Streaming
  <1>4. G.piece[j][1] \in 1 .. G.asked
    BY <1>1, <1>2, <1>3
  <1>5. G.piece[j][1] \in DOMAIN G.reads /\ H.reads[G.piece[j][1]] = G.reads[G.piece[j][1]]
    BY <1>1, <1>4 DEF Extends
  <1>6. PieceRecord(H, j) = PieceRecord(G, j)
    BY <1>5 DEF PieceRecord
  <1>7. PieceAfter(H, j) = PieceAfter(G, j)
    BY <1>6 DEF PieceAfter
  <1> QED BY <1>2, <1>5, <1>6, <1>7

LEMMA StreamingKeeps ==
  ASSUME NEW s \in Machine, NEW G, NEW H \in History, Ordered(G), Streaming(s, G), Extends(G, H),
         H.piece = G.piece, H.fetched = G.fetched, H.sent = G.sent, G.taken <= H.taken,
         NextFetch(s, H)' = NextFetch(s, G), NextSend(s, H)' = NextSend(s, G)
  PROVE  Streaming(s, H)'
  <1>1. G.taken \in Nat /\ H.taken \in Nat
    BY InOrder, Marks
  <1>2. \A x : x \in 1 .. G.taken => x \in 1 .. H.taken
    BY <1>1
  <1>3. \A j \in G.fetched + 1 .. G.sent :
          /\ H.reads[G.piece[j][1]] = G.reads[G.piece[j][1]]
          /\ PieceAfter(H, j) = PieceAfter(G, j)
    BY PieceKeeps
  <1>4. /\ G.piece[G.fetched + 1] = NextFetch(s, G) /\ G.piece[G.sent + 1] = NextSend(s, G)
        /\ \A j \in G.fetched + 1 .. G.sent :
             /\ G.piece[j][1] \in 1 .. G.taken
             /\ G.piece[j][2] < Bytes[G.reads[G.piece[j][1]]]
             /\ G.piece[j + 1] = PieceAfter(G, j)
        /\ \A i, j \in G.fetched + 1 .. G.sent + 1 : i <= j => G.piece[i][1] <= G.piece[j][1]
    BY DEF Streaming
  <1>5. /\ H.piece[H.fetched + 1] = NextFetch(s, H)' /\ H.piece[H.sent + 1] = NextSend(s, H)'
        /\ \A j \in H.fetched + 1 .. H.sent :
             /\ H.piece[j][1] \in 1 .. H.taken
             /\ H.piece[j][2] < Bytes[H.reads[H.piece[j][1]]]
             /\ H.piece[j + 1] = PieceAfter(H, j)
        /\ \A i, j \in H.fetched + 1 .. H.sent + 1 : i <= j => H.piece[i][1] <= H.piece[j][1]
    BY <1>2, <1>3, <1>4
  <1> QED BY <1>5 DEF Streaming

LEMMA FlyingKeeps ==
  ASSUME NEW s \in Machine, NEW G, NEW H \in History, Ordered(G), Streaming(s, G), Flying(s, G),
         Extends(G, H), H.piece = G.piece, H.fetched = G.fetched, H.sent = G.sent,
         H.buffer = G.buffer, send_mem'[s] = send_mem[s],
         Lists(Out(s)', LastWrites, G.fetched, G.sent, LastWritesOf(G))
  PROVE  Flying(s, H)'
  <1>1. G.fetched \in Nat /\ G.sent \in Nat
    BY InOrder, Marks
  <1>2. \A j \in G.fetched + 1 .. G.sent : j \in Nat /\ PieceRecord(H, j) = PieceRecord(G, j)
    BY PieceKeeps
  <1>3. \A j \in G.fetched + 1 .. G.sent : LastWritesOf(H)[j] = LastWritesOf(G)[j]
    BY <1>2 DEF LastWritesOf
  <1>4. Lists(Out(s)', LastWrites, G.fetched, G.sent, LastWritesOf(H))
    BY <1>1, <1>3, ListsSame
  <1>5. \A j \in G.fetched + 1 .. G.sent : \A i \in 0 .. TransferBytes(PieceRecord(H, j)) - 1 :
          send_mem'[s][H.buffer[j]][i] = <<PieceRecord(H, j).read, PieceRecord(H, j).offset + i>>
    BY <1>2 DEF Flying
  <1> QED BY <1>4, <1>5 DEF Flying

LEMMA CopyingKeeps ==
  ASSUME NEW s \in Machine, NEW G, NEW H \in History, TypeInv, Ordered(G), Announcing(s, G),
         Queueing(s, G), Copying(s, G), Extends(G, H), H.copied = G.copied,
         read_queue'[Peer(s)] = read_queue[Peer(s)],
         \A k \in Read : Source[k] = s => dst'[k] = dst[k],
         poller'[Peer(s)].at = "ReadCb" <=> poller[Peer(s)].at = "ReadCb"
  PROVE  Copying(s, H)'
  <1> DEFINE q == read_queue[Peer(s)]
  <1>1. /\ G \in History /\ G.pushed <= G.handled /\ G.handled <= G.asked /\ G.copied <= G.written
        /\ G.written <= G.taken /\ G.taken <= G.queued /\ G.queued <= G.wanted
        /\ G.wanted <= G.pushed
        /\ \A a \in 1 .. G.asked : a \in DOMAIN G.reads /\ G.reads[a] \in Read
    BY InOrder
  <1>2. /\ G.copied \in Nat /\ G.pushed \in Nat /\ G.asked \in Nat /\ G.handled \in Nat
        /\ G.written \in Nat /\ G.taken \in Nat /\ G.queued \in Nat /\ G.wanted \in Nat
    BY <1>1, Marks
  <1>3. \A a \in 1 .. G.copied : a \in 1 .. G.asked
    BY <1>1, <1>2
  <1>4. \A a \in 1 .. G.asked : Source[G.reads[a]] = s /\ H.reads[a] = G.reads[a]
    BY <1>1 DEF Announcing, Extends
  <1>5. \A a \in 1 .. G.asked : dst'[G.reads[a]] = dst[G.reads[a]]
    BY <1>1, <1>4
  <1>6. q # <<>> => dst'[q[1].read] = dst[q[1].read]
    <2>1. CASE q # <<>>
      <3>1. q \in Seq(Record)
        BY Peers DEF TypeInv, TypeOK
      <3>2. 1 \in DOMAIN q /\ Len(q) \in Nat \ {0}
        BY <2>1, <3>1, Ends
      <3>3. q[1].read = G.reads[G.copied + 1] /\ G.copied + Len(q) = G.pushed
        BY <3>2 DEF Queueing
      <3>4. G.copied + 1 \in 1 .. G.asked
        BY <1>1, <1>2, <3>2, <3>3
      <3> QED BY <1>5, <3>3, <3>4
    <2> QED BY <2>1
  <1>7. \A a \in 1 .. H.copied : \A i \in DOMAIN dst'[H.reads[a]] :
          dst'[H.reads[a]][i] = <<H.reads[a], i>>
    <2>1. \A a \in 1 .. G.copied : \A i \in DOMAIN dst[G.reads[a]] :
            dst[G.reads[a]][i] = <<G.reads[a], i>>
      BY DEF Copying
    <2>2. \A a \in 1 .. G.copied : H.reads[a] = G.reads[a] /\ dst'[H.reads[a]] = dst[G.reads[a]]
      BY <1>3, <1>4, <1>5
    <2> QED BY <2>1, <2>2
  <1>8. q # <<>> => /\ \A i \in 0 .. q[1].offset - 1 : dst'[q[1].read][i] = <<q[1].read, i>>
                    /\ q[1].offset < Bytes[q[1].read] <=> poller'[Peer(s)].at # "ReadCb"
    BY <1>6 DEF Copying
  <1> QED BY <1>7, <1>8 DEF Copying

LEMMA ReleasingKeeps ==
  ASSUME NEW s \in Machine, NEW G, NEW H \in History, Ordered(G), Releasing(s, G), Extends(G, H),
         H.done = G.done, H.told = G.told, H.freed = G.freed, H.copied = G.copied,
         H.last = G.last,
         \A k \in Read : Source[k] = s => /\ k \in read_cb' <=> k \in read_cb
                                          /\ k \in done_cb' <=> k \in done_cb,
         poller'[s].at = "ReadDone" <=> poller[s].at = "ReadDone",
         (poller'[Peer(s)].at = "PostFree" /\ poller'[Peer(s)].last)
           <=> (poller[Peer(s)].at = "PostFree" /\ poller[Peer(s)].last),
         Lists(Out(Peer(s))', LastFrees, G.told, G.freed, LastFreesOf(G))
  PROVE  Releasing(s, H)'
  <1>1. /\ G \in History /\ G.done <= G.told /\ G.told <= G.freed /\ G.freed <= G.copied
        /\ G.copied <= G.written
        /\ G.written <= G.taken /\ G.taken <= G.queued /\ G.queued <= G.wanted
        /\ G.wanted <= G.pushed /\ G.pushed <= G.handled /\ G.handled <= G.asked
        /\ \A a \in 1 .. G.asked : a \in DOMAIN G.reads /\ G.reads[a] \in Read
    BY InOrder
  <1>2. /\ G.copied \in Nat /\ G.pushed \in Nat /\ G.asked \in Nat /\ G.handled \in Nat
        /\ G.written \in Nat /\ G.taken \in Nat /\ G.queued \in Nat /\ G.wanted \in Nat
        /\ G.done \in Nat /\ G.told \in Nat /\ G.freed \in Nat
    BY <1>1, Marks
  <1>3. /\ \A a \in 1 .. G.copied : a \in 1 .. G.asked
        /\ \A a \in 1 .. G.done : a \in 1 .. G.asked
    BY <1>1, <1>2
  <1>4. \A a \in 1 .. G.asked : H.reads[a] = G.reads[a]
    BY <1>1 DEF Extends
  <1>5. /\ \A k \in Read : k \in read_cb' /\ Source[k] = s <=> \E a \in 1 .. H.copied : H.reads[a] = k
        /\ \A k \in Read : k \in done_cb' /\ Source[k] = s <=> \E a \in 1 .. H.done : H.reads[a] = k
    BY <1>3, <1>4 DEF Releasing
  <1>6. Lists(Out(Peer(s))', LastFrees, H.told, H.freed, LastFreesOf(H))
    BY DEF LastFreesOf
  <1>7. /\ H.told = IF poller'[s].at = "ReadDone" THEN H.done + 1 ELSE H.done
        /\ H.copied = IF poller'[Peer(s)].at = "PostFree" /\ poller'[Peer(s)].last
                        THEN H.freed + 1 ELSE H.freed
    BY DEF Releasing
  <1> QED BY <1>5, <1>6, <1>7 DEF Releasing
--------------------------------------------------------------------------------
(* Steps that move no mark of a source.                                    *)

\* No request of T is posted by machine n, and none of its own is handled.
Spares(n, T) ==
  \/ Out(n)' = Out(n)
  \/ \E e \in Seq(Request) : Out(n)' = Out(n) \o e /\ \A i \in 1 .. Len(e) : e[i] \notin T
  \/ Out(n) # <<>> /\ Out(n)' = Tail(Out(n)) /\ Head(Out(n)) \notin T

LEMMA SparesLists ==
  ASSUME TypeInv, NEW n \in Machine, NEW T, NEW lo \in Nat, NEW hi \in Nat, NEW M, Spares(n, T),
         Lists(Out(n), T, lo, hi, M)
  PROVE  Lists(Out(n)', T, lo, hi, M)
  <1>1. Out(n) \in Seq(Request)
    BY OutType
  <1>2. CASE Out(n)' = Out(n)
    BY <1>2
  <1>3. CASE \E e \in Seq(Request) : Out(n)' = Out(n) \o e /\ \A i \in 1 .. Len(e) : e[i] \notin T
    BY <1>1, <1>3, ListsOthers
  <1>4. CASE Out(n) # <<>> /\ Out(n)' = Tail(Out(n)) /\ Head(Out(n)) \notin T
    BY <1>1, <1>4, ListsTail
  <1> QED BY <1>2, <1>3, <1>4 DEF Spares

\* A request that is of one kind only.
LEMMA Kinds ==
  ASSUME NEW r \in Request
  PROVE  /\ r \in Kind("UserMsg") <=> r.op = "UserMsg"
         /\ r \in Kind("PleaseWrite") <=> r.op = "PleaseWrite"
         /\ r \in LastWrites <=> r.op = "RdmaWrite" /\ r.imm # IntMax
         /\ r \in LastFrees <=> r.op = "FreeBufferPair" /\ r.last = TRUE
  <1>1. r.op = "FreeBufferPair" => r.last \in BOOLEAN
    BY Requests
  <1> QED BY <1>1 DEF Kind, LastWrites, LastFrees

LEMMA PostSpares ==
  ASSUME TypeInv, NEW m \in Machine, NEW e \in Seq(Request), Post(m, e), UNCHANGED cq
  PROVE  /\ \A T : (\A i \in 1 .. Len(e) : e[i] \notin T) => Spares(m, T)
         /\ \A T : Spares(Peer(m), T)
  BY OutPost DEF Spares

LEMMA RecvSpares ==
  ASSUME TypeInv, NEW m \in Machine, cq[m] # <<>>, cq' = [cq EXCEPT ![m] = Tail(@)], UNCHANGED sq
  PROVE  /\ \A T : Head(cq[m]) \notin T => Spares(Peer(m), T)
         /\ \A T : Spares(m, T)
  BY OutRecv DEF Spares

LEMMA NextFetchKeeps ==
  ASSUME NEW s \in Machine, NEW G, NEW H, H.copied = G.copied,
         read_queue'[Peer(s)] = read_queue[Peer(s)],
         poller'[Peer(s)].at = "ReadCb" <=> poller[Peer(s)].at = "ReadCb"
  PROVE  NextFetch(s, H)' = NextFetch(s, G)
  BY DEF NextFetch

LEMMA NextSendKeeps ==
  ASSUME NEW s \in Machine, NEW G, NEW H, H.taken = G.taken, cur_record'[s] = cur_record[s],
         cur_write_handle'[s] = "InitWriteHandle" <=> cur_write_handle[s] = "InitWriteHandle"
  PROVE  NextSend(s, H)' = NextSend(s, G)
  BY DEF NextSend

\* The source's application and its callbacks.
AppQuiet(s) ==
  /\ read_done_cbs'[s] = read_done_cbs[s] /\ announcing'[s] = announcing[s]
  /\ \A k \in Read : Source[k] = s => (k \in announced' <=> k \in announced)

\* The reader's threads, but for the poller.
ThreadsQuiet(s) ==
  /\ \A k \in Read : Source[k] = s => /\ k \in deferred' <=> k \in deferred
                                      /\ k \in dealing' <=> k \in dealing
  /\ deferred' \subseteq Deferred

\* The write helper, but for RequestBuffer.
HelperQuiet(s) ==
  /\ cur_record_queue'[s] = cur_record_queue[s]
  /\ pending_record_queue'[s] = pending_record_queue[s]
  /\ cur_record'[s] = cur_record[s]
  /\ cur_write_handle'[s] = "InitWriteHandle" <=> cur_write_handle[s] = "InitWriteHandle"

\* The reads in progress and the memory they copy to.
CopyQuiet(s) ==
  /\ read_queue'[Peer(s)] = read_queue[Peer(s)]
  /\ \A k \in Read : Source[k] = s => dst'[k] = dst[k]

CbsQuiet(s) ==
  \A k \in Read : Source[k] = s => /\ k \in read_cb' <=> k \in read_cb
                                   /\ k \in done_cb' <=> k \in done_cb

\* The pollers, between two places that no part tells apart.
PollersQuiet(s) ==
  /\ poller'[Peer(s)] = poller[Peer(s)] \/ poller[Peer(s)].at # "Dealing"
  /\ poller'[Peer(s)].at = "ReadCb" <=> poller[Peer(s)].at = "ReadCb"
  /\ poller'[s].at = "ReadDone" <=> poller[s].at = "ReadDone"
  /\ (poller'[Peer(s)].at = "PostFree" /\ poller'[Peer(s)].last)
       <=> (poller[Peer(s)].at = "PostFree" /\ poller[Peer(s)].last)

LEMMA QuietPipe ==
  ASSUME TypeInv, NEW s \in Machine, NEW G, Pipe(s, G),
         AppQuiet(s), ThreadsQuiet(s), HelperQuiet(s), CopyQuiet(s), CbsQuiet(s), PollersQuiet(s),
         send_mem'[s] = send_mem[s], Spares(s, Kind("UserMsg")), Spares(s, LastWrites),
         Spares(Peer(s), Kind("PleaseWrite")), Spares(Peer(s), LastFrees)
  PROVE  Pipe(s, G)'
  <1>1. /\ Ordered(G) /\ Announcing(s, G) /\ Asking(s, G) /\ Dealing(s, G) /\ Queueing(s, G)
        /\ Wanting(s, G) /\ Writing(s, G) /\ Streaming(s, G) /\ Flying(s, G) /\ Copying(s, G)
        /\ Releasing(s, G)
    BY DEF Pipe
  <1>2. G \in History /\ Extends(G, G)
    <2>1. G \in History
      BY <1>1, InOrder
    <2>2. Len(G.reads) \in Nat
      BY <2>1, Marks
    <2> QED BY <2>1, <2>2 DEF Extends
  <1>3. /\ G.handled \in Nat /\ G.asked \in Nat /\ G.queued \in Nat /\ G.wanted \in Nat
        /\ G.fetched \in Nat /\ G.sent \in Nat /\ G.told \in Nat /\ G.freed \in Nat
        /\ G.taken \in Nat
    BY <1>2, Marks
  <1>4. /\ Lists(Out(s)', Kind("UserMsg"), G.handled, G.asked, UserMsgs(G))
        /\ Lists(Out(s)', LastWrites, G.fetched, G.sent, LastWritesOf(G))
    BY <1>1, <1>3, SparesLists DEF Asking, Flying
  <1>5. /\ Lists(Out(Peer(s))', Kind("PleaseWrite"), G.queued, G.wanted, PleaseWrites(G))
        /\ Lists(Out(Peer(s))', LastFrees, G.told, G.freed, LastFreesOf(G))
    <2>1. Peer(s) \in Machine
      BY Peers
    <2> QED BY <1>1, <1>3, <2>1, SparesLists DEF Wanting, Releasing
  <1>6. Announcing(s, G)'
    BY <1>1, <1>2, AnnouncingKeeps DEF AppQuiet
  <1>7. Asking(s, G)' /\ Wanting(s, G)'
    BY <1>1, <1>2, <1>4, <1>5, AskingKeeps, WantingKeeps
  <1>8. Dealing(s, G)'
    BY <1>1, <1>2, DealingKeeps DEF ThreadsQuiet, PollersQuiet
  <1>9. Queueing(s, G)'
    BY <1>1, <1>2, QueueingKeeps DEF CopyQuiet
  <1>10. Writing(s, G)'
    BY <1>1, <1>2, WritingKeeps DEF HelperQuiet
  <1>11. Streaming(s, G)'
    <2>1. NextFetch(s, G)' = NextFetch(s, G)
      BY NextFetchKeeps DEF CopyQuiet, PollersQuiet
    <2>2. NextSend(s, G)' = NextSend(s, G)
      BY NextSendKeeps DEF HelperQuiet
    <2> QED BY <1>1, <1>2, <1>3, <2>1, <2>2, StreamingKeeps
  <1>12. Flying(s, G)'
    BY <1>1, <1>2, <1>4, FlyingKeeps
  <1>13. Copying(s, G)'
    BY <1>1, <1>2, CopyingKeeps DEF CopyQuiet, PollersQuiet
  <1>14. Releasing(s, G)'
    BY <1>1, <1>2, <1>5, ReleasingKeeps DEF CbsQuiet, PollersQuiet
  <1>15. Ordered(G)'
    BY <1>1 DEF Ordered
  <1> QED BY <1>6, <1>7, <1>8, <1>9, <1>10, <1>11, <1>12, <1>13, <1>14, <1>15 DEF Pipe

LEMMA Places2 ==
  /\ Polling.at = "Poll" /\ [at |-> "PostRecv"].at = "PostRecv" /\ [at |-> "ReadDone"].at = "ReadDone"
  /\ \A k : [at |-> "Dealing", read |-> k].at = "Dealing"
  /\ \A a, b, l : /\ [at |-> a, buffer |-> b, last |-> l].at = a
                  /\ [at |-> a, buffer |-> b, last |-> l].last = l
                  /\ [at |-> a, buffer |-> b, last |-> l].buffer = b
  BY DEF Polling

\* Deferred reads are Deferred, whatever source is looked at.
LEMMA DeferredOnly == ASSUME InStep, NEW m \in Machine PROVE deferred \subseteq Deferred
  BY DEF InStep, Pipe, Dealing

LEMMA BothSources ==
  ASSUME NEW m \in Machine, \E H \in History : Pipe(m, H)', \E H \in History : Pipe(Peer(m), H)'
  PROVE  InStep'
  <1>1. \A n \in Machine : n = m \/ n = Peer(m)
    BY Peers
  <1> QED BY <1>1 DEF InStep

\* A step that moves no mark of either source.
LEMMA AllQuiet ==
  ASSUME TypeInv, InStep,
         UNCHANGED <<read_done_cbs, announcing, announced, deferred, dealing, cur_record_queue,
                     pending_record_queue, cur_record, read_queue, dst, read_cb, done_cb, send_mem>>,
         \A n \in Machine :
           /\ cur_write_handle'[n] = "InitWriteHandle" <=> cur_write_handle[n] = "InitWriteHandle"
           /\ \/ poller'[n] = poller[n]
              \/ /\ poller[n].at \in {"Poll", "PostRecv"} /\ poller'[n].at \in {"Poll", "PostRecv"}
           /\ Spares(n, Kind("UserMsg")) /\ Spares(n, LastWrites)
           /\ Spares(n, Kind("PleaseWrite")) /\ Spares(n, LastFrees)
  PROVE  InStep'
  <1> SUFFICES ASSUME NEW s \in Machine PROVE \E H \in History : Pipe(s, H)'
    BY DEF InStep
  <1>1. PICK G \in History : Pipe(s, G)
    BY DEF InStep
  <1>2. Peer(s) \in Machine
    BY Peers
  <1>3. AppQuiet(s) /\ HelperQuiet(s) /\ CopyQuiet(s) /\ CbsQuiet(s)
    BY DEF AppQuiet, HelperQuiet, CopyQuiet, CbsQuiet
  <1>4. ThreadsQuiet(s)
    BY DeferredOnly DEF ThreadsQuiet
  <1>5. PollersQuiet(s)
    BY <1>2 DEF PollersQuiet
  <1>6. Pipe(s, G)'
    BY <1>1, <1>2, <1>3, <1>4, <1>5, QuietPipe
  <1> QED BY <1>6

LEMMA DeliverPipe ==
  ASSUME TypeInv, InStep, NEW m \in Machine, Deliver(m)
  PROVE  InStep'
  <1>1. UNCHANGED <<read_done_cbs, announcing, announced, deferred, dealing, cur_record_queue,
                    pending_record_queue, cur_record, read_queue, dst, read_cb, done_cb, send_mem,
                    cur_write_handle, poller>>
    BY DEF Deliver, helper_vars, queues, qp_vars, app_vars, cb_vars
  <1>2. \A n \in Machine : \A T : Spares(n, T)
    BY OutDeliver DEF Spares
  <1> QED BY <1>1, <1>2, AllQuiet

LEMMA RecvElementPipe ==
  ASSUME TypeInv, InStep, NEW m \in Machine, RecvElement(m)
  PROVE  InStep'
  <1>1. /\ cq[m] # <<>> /\ Head(cq[m]).op = "RdmaWrite" /\ Head(cq[m]).imm = IntMax
        /\ cq' = [cq EXCEPT ![m] = Tail(@)] /\ poller[m].at = "Poll"
        /\ poller' = [poller EXCEPT ![m] = [at |-> "PostRecv"]]
        /\ UNCHANGED <<helper_vars, sq, qp_vars, mem_vars, app_vars, cb_vars>>
    BY DEF RecvElement, OnRecv, At
  <1>2. Head(cq[m]) \in Request
    BY <1>1, Ends DEF TypeInv, TypeOK
  <1>3. \A n \in Machine : \A T : Head(cq[m]) \notin T => Spares(n, T)
    BY <1>1, RecvSpares, Peers
  <1>4. \A n \in Machine : /\ Spares(n, Kind("UserMsg")) /\ Spares(n, LastWrites)
                           /\ Spares(n, Kind("PleaseWrite")) /\ Spares(n, LastFrees)
    BY <1>1, <1>2, <1>3, Kinds
  <1>5. \A n \in Machine : \/ poller'[n] = poller[n]
                           \/ poller[n].at = "Poll" /\ poller'[n].at = "PostRecv"
    BY <1>1 DEF TypeInv, TypeOK
  <1> QED BY <1>1, <1>4, <1>5, AllQuiet DEF helper_vars, queues, qp_vars, mem_vars, app_vars, cb_vars

\* Steps that touch neither requests nor the records of the reads.
LEMMA PostRecvRequestPipe ==
  ASSUME TypeInv, InStep, NEW m \in Machine, PostRecvRequest(m)
  PROVE  InStep'
  <1>1. /\ poller[m].at = "PostRecv" /\ poller' = [poller EXCEPT ![m] = Polling]
        /\ UNCHANGED <<helper_vars, sq, cq, qp_vars, mem_vars, app_vars, cb_vars>>
    BY DEF PostRecvRequest, At
  <1>2. \A n \in Machine : \A T : Spares(n, T)
    BY <1>1 DEF Spares, Out
  <1>3. \A n \in Machine : \/ poller'[n] = poller[n]
                           \/ poller[n].at = "PostRecv" /\ poller'[n].at = "Poll"
    BY <1>1, Places2 DEF TypeInv, TypeOK
  <1> QED BY <1>1, <1>2, <1>3, AllQuiet DEF helper_vars, queues, qp_vars, mem_vars, app_vars, cb_vars

LEMMA RequestBufferPipe ==
  ASSUME TypeInv, InStep, NEW m \in Machine, WriteLoop(m), RequestBuffer(m)
  PROVE  InStep'
  <1>1. /\ UNCHANGED <<net_vars, poller, qp_vars, mem_vars, app_vars, cb_vars, queues, cur_record>>
        /\ cur_write_handle[m] = "RequestBuffer"
        /\ \/ cur_write_handle' = cur_write_handle
           \/ cur_write_handle' = [cur_write_handle EXCEPT ![m] = "DoCurWrite"]
    BY DEF WriteLoop, RequestBuffer
  <1>2. \A n \in Machine : \A T : Spares(n, T)
    BY <1>1 DEF Spares, Out, net_vars
  <1>3. \A n \in Machine :
          cur_write_handle'[n] = "InitWriteHandle" <=> cur_write_handle[n] = "InitWriteHandle"
    BY <1>1 DEF TypeInv, TypeOK
  <1> QED BY <1>1, <1>2, <1>3, AllQuiet DEF queues, qp_vars, mem_vars, app_vars, cb_vars

LEMMA UnchangedPipe ==
  ASSUME TypeInv, InStep, UNCHANGED <<helper_vars, net_vars, poller, qp_vars, mem_vars, app_vars,
                                      cb_vars>>
  PROVE  InStep'
  <1>1. \A n \in Machine : \A T : Spares(n, T)
    BY DEF Spares, Out, net_vars
  <1> QED BY <1>1, AllQuiet DEF helper_vars, queues, qp_vars, mem_vars, app_vars, cb_vars
--------------------------------------------------------------------------------
(* The application's calls, the queue of announcements.                    *)

LEMMA AppPipe ==
  ASSUME TypeInv, NEW m \in Machine, NEW G, NEW H, Pipe(m, G), Ordered(H), Extends(G, H),
         H.done = G.done, H.told = G.told, H.freed = G.freed, H.copied = G.copied, H.written = G.written,
         H.taken = G.taken, H.queued = G.queued, H.wanted = G.wanted, H.pushed = G.pushed, H.handled = G.handled,
         H.last = G.last, H.piece = G.piece, H.buffer = G.buffer, H.fetched = G.fetched, H.sent = G.sent,
         Announcing(m, H)', Asking(m, H)',
         ThreadsQuiet(m), HelperQuiet(m), CopyQuiet(m), CbsQuiet(m), PollersQuiet(m),
         send_mem'[m] = send_mem[m], Spares(m, LastWrites),
         Spares(Peer(m), Kind("PleaseWrite")), Spares(Peer(m), LastFrees)
  PROVE  Pipe(m, H)'
  <1>1. /\ Ordered(G) /\ Announcing(m, G) /\ Asking(m, G) /\ Dealing(m, G) /\ Queueing(m, G)
        /\ Wanting(m, G) /\ Writing(m, G) /\ Streaming(m, G) /\ Flying(m, G) /\ Copying(m, G)
        /\ Releasing(m, G)
    BY DEF Pipe
  <1>2. G \in History /\ H \in History /\ Peer(m) \in Machine
    BY <1>1, InOrder, Peers
  <1>3. /\ G.queued \in Nat /\ G.wanted \in Nat /\ G.taken \in Nat
        /\ G.fetched \in Nat /\ G.sent \in Nat /\ G.told \in Nat /\ G.freed \in Nat
    BY <1>2, Marks
  <1>4. Lists(Out(m)', LastWrites, G.fetched, G.sent, LastWritesOf(G))
    BY <1>1, <1>3, SparesLists DEF Flying
  <1>5. /\ Lists(Out(Peer(m))', Kind("PleaseWrite"), G.queued, G.wanted, PleaseWrites(G))
        /\ Lists(Out(Peer(m))', LastFrees, G.told, G.freed, LastFreesOf(G))
    BY <1>1, <1>2, <1>3, SparesLists DEF Wanting, Releasing
  <1>6. Dealing(m, H)'
    BY <1>1, <1>2, DealingKeeps DEF ThreadsQuiet, PollersQuiet
  <1>7. Queueing(m, H)'
    BY <1>1, <1>2, QueueingKeeps DEF CopyQuiet
  <1>8. Wanting(m, H)'
    BY <1>1, <1>2, <1>5, WantingKeeps
  <1>9. Writing(m, H)'
    BY <1>1, <1>2, WritingKeeps DEF HelperQuiet
  <1>10. Streaming(m, H)'
    <2>1. NextFetch(m, H)' = NextFetch(m, G)
      BY NextFetchKeeps DEF CopyQuiet, PollersQuiet
    <2>2. NextSend(m, H)' = NextSend(m, G)
      BY NextSendKeeps DEF HelperQuiet
    <2> QED BY <1>1, <1>2, <1>3, <2>1, <2>2, StreamingKeeps
  <1>11. Flying(m, H)'
    BY <1>1, <1>2, <1>4, FlyingKeeps
  <1>12. Copying(m, H)'
    BY <1>1, <1>2, CopyingKeeps DEF CopyQuiet, PollersQuiet
  <1>13. Releasing(m, H)'
    BY <1>1, <1>2, <1>5, ReleasingKeeps DEF CbsQuiet, PollersQuiet
  <1>14. Ordered(H)'
    OBVIOUS
  <1> QED BY <1>6, <1>7, <1>8, <1>9, <1>10, <1>11, <1>12, <1>13, <1>14 DEF Pipe

\* A read that is being announced for the first time is one more of its source.
LEMMA NewRead ==
  ASSUME NEW m \in Machine, NEW k \in Read, NEW G, Ordered(G), Announcing(m, G),
         k \notin announced
  PROVE  \E H \in History :
           /\ Ordered(H) /\ Extends(G, H) /\ H.reads = Append(G.reads, k)
           /\ Len(H.reads) = Len(G.reads) + 1 /\ DOMAIN H.reads = 1 .. Len(G.reads) + 1
           /\ H.reads[Len(G.reads) + 1] = k
           /\ H.done = G.done /\ H.told = G.told /\ H.freed = G.freed /\ H.copied = G.copied
           /\ H.written = G.written /\ H.taken = G.taken /\ H.queued = G.queued
           /\ H.wanted = G.wanted /\ H.pushed = G.pushed /\ H.handled = G.handled
           /\ H.asked = G.asked /\ H.last = G.last /\ H.piece = G.piece
           /\ H.buffer = G.buffer /\ H.fetched = G.fetched /\ H.sent = G.sent
  <1>1. /\ G \in History /\ G.reads \in Seq(Read)
        /\ \A a, b \in DOMAIN G.reads : G.reads[a] = G.reads[b] => a = b
    BY InOrder, Marks
  <1> DEFINE H == [G EXCEPT !.reads = Append(@, k)]
  <1>2. /\ Append(G.reads, k) \in Seq(Read) /\ Len(G.reads) \in Nat
        /\ Len(Append(G.reads, k)) = Len(G.reads) + 1
        /\ DOMAIN G.reads = 1 .. Len(G.reads)
        /\ DOMAIN Append(G.reads, k) = 1 .. Len(G.reads) + 1
        /\ \A a \in DOMAIN G.reads : Append(G.reads, k)[a] = G.reads[a]
        /\ Append(G.reads, k)[Len(G.reads) + 1] = k
    BY <1>1, Appended
  <1>3. /\ H \in History /\ H.reads = Append(G.reads, k)
        /\ H.done = G.done /\ H.told = G.told /\ H.freed = G.freed /\ H.copied = G.copied
        /\ H.written = G.written /\ H.taken = G.taken /\ H.queued = G.queued
        /\ H.wanted = G.wanted /\ H.pushed = G.pushed /\ H.handled = G.handled
        /\ H.asked = G.asked /\ H.last = G.last /\ H.piece = G.piece /\ H.buffer = G.buffer
        /\ H.fetched = G.fetched /\ H.sent = G.sent
    BY <1>1, <1>2 DEF History
  <1> HIDE DEF H
  <1>4. Extends(G, H)
    BY <1>2, <1>3 DEF Extends
  <1>5. \A a \in DOMAIN G.reads : G.reads[a] # k
    BY <1>1 DEF Announcing
  <1>6. \A a, b \in DOMAIN H.reads : H.reads[a] = H.reads[b] => a = b
    <2>1. \A a \in DOMAIN H.reads : a \in DOMAIN G.reads \/ a = Len(G.reads) + 1
      BY <1>2, <1>3
    <2> QED BY <1>1, <1>2, <1>3, <1>5, <2>1
  <1>7. Ordered(H)
    <2>1. /\ H.done <= H.told /\ H.told <= H.freed /\ H.freed <= H.copied
          /\ H.copied <= H.written /\ H.written <= H.taken /\ H.taken <= H.queued
          /\ H.queued <= H.wanted /\ H.wanted <= H.pushed /\ H.pushed <= H.handled
          /\ H.handled <= H.asked /\ H.fetched <= H.sent
      BY <1>3, InOrder
    <2>2. H.asked <= Len(H.reads)
      <3>1. G.asked <= Len(G.reads) /\ G.asked \in Nat
        BY <1>1, InOrder, Marks
      <3> QED BY <1>2, <1>3, <3>1
    <2> QED BY <1>3, <1>6, <2>1, <2>2 DEF Ordered
  <1> QED BY <1>2, <1>3, <1>4, <1>7

\* The call that begins an announcement, as the source's history sees it.
LEMMA BeginAnnouncing ==
  ASSUME NEW m \in Machine, NEW k \in Read, Source[k] = m, NEW G, NEW H, Ordered(G),
         Announcing(m, G), announced' = announced \cup {k}, H.reads = Append(G.reads, k),
         DOMAIN H.reads = 1 .. Len(G.reads) + 1, H.reads[Len(G.reads) + 1] = k, Extends(G, H)
  PROVE  \A q \in Read : q \in announced' /\ Source[q] = m
                           <=> \E a \in DOMAIN H.reads : H.reads[a] = q
  <1>1. \A q \in Read : q \in announced /\ Source[q] = m
                          <=> \E a \in DOMAIN G.reads : G.reads[a] = q
    BY DEF Announcing
  <1>2. Len(G.reads) \in Nat /\ DOMAIN G.reads = 1 .. Len(G.reads)
    BY InOrder, Marks
  <1>3. /\ \A a \in DOMAIN H.reads : a \in DOMAIN G.reads \/ a = Len(G.reads) + 1
        /\ \A a \in DOMAIN G.reads : a \in DOMAIN H.reads /\ H.reads[a] = G.reads[a]
        /\ Len(G.reads) + 1 \in DOMAIN H.reads
    BY <1>2 DEF Extends
  <1> QED BY <1>1, <1>3

LEMMA RegisterReadDoneCbPipe ==
  ASSUME TypeInv, InStep, NEW m \in Machine, NEW k \in Read, RegisterReadDoneCb(m, k)
  PROVE  InStep'
  <1> DEFINE p == Peer(m)
             q == read_done_cbs[m]
  <1>1. p \in Machine /\ p # m /\ Peer(p) = m
    BY Peers
  <1>2. /\ IF CbFirst THEN Begin(m, k) ELSE End(m, k)
        /\ read_done_cbs' = [read_done_cbs EXCEPT ![m] = Append(@, k)]
        /\ UNCHANGED <<helper_vars, net_vars, poller, read_queue, dealing, mem_vars, deferred,
                       cb_vars>>
    BY DEF RegisterReadDoneCb
  <1>3. /\ q \in Seq(Read) /\ read_done_cbs'[m] = Append(q, k) /\ read_done_cbs'[p] = read_done_cbs[p]
    BY <1>1, <1>2 DEF TypeInv, TypeOK
  <1>4. /\ Len(q) \in Nat /\ Len(read_done_cbs'[m]) = Len(q) + 1
        /\ DOMAIN q = 1 .. Len(q) /\ DOMAIN read_done_cbs'[m] = 1 .. Len(q) + 1
        /\ \A i \in DOMAIN q : read_done_cbs'[m][i] = q[i]
        /\ read_done_cbs'[m][Len(q) + 1] = k
        /\ \A i \in DOMAIN read_done_cbs'[m] : i \in DOMAIN q \/ i = Len(q) + 1
    BY <1>3, Appended
  <1>5. \A n \in Machine : \A T : Spares(n, T)
    BY <1>2 DEF Spares, Out, net_vars
  <1>6. \A n \in Machine : /\ ThreadsQuiet(n) /\ HelperQuiet(n) /\ CopyQuiet(n) /\ CbsQuiet(n)
                           /\ PollersQuiet(n) /\ send_mem'[n] = send_mem[n]
    BY <1>2, DeferredOnly DEF ThreadsQuiet, HelperQuiet, CopyQuiet, CbsQuiet, PollersQuiet,
                              helper_vars, queues, mem_vars, cb_vars
  <1>7. PICK G \in History : Pipe(m, G)
    BY DEF InStep
  <1>8. Ordered(G) /\ Announcing(m, G) /\ Asking(m, G)
    BY <1>7 DEF Pipe
  <1>9. /\ Len(G.reads) \in Nat /\ DOMAIN G.reads = 1 .. Len(G.reads) /\ G.done \in Nat
        /\ G.asked \in Nat /\ G.handled \in Nat
    BY <1>7, Marks
  <1>10. \A i \in DOMAIN q : q[i] = G.reads[G.done + i]
    BY <1>8 DEF Announcing
  <1>11. \A n \in Machine : announcing[n] \in Read \cup {NoRead}
    BY DEF TypeInv, TypeOK
  <1> HIDE DEF q
  <1>12. Source[k] = m /\ \E H \in History : Pipe(m, H)'
    <2>1. CASE CbFirst
      <3>1. /\ Source[k] = m /\ k \notin announced /\ announcing[m] = NoRead
            /\ announcing' = [announcing EXCEPT ![m] = k] /\ announced' = announced \cup {k}
        BY <1>2, <2>1 DEF Begin
      <3>2. PICK H \in History :
              /\ Ordered(H) /\ Extends(G, H) /\ H.reads = Append(G.reads, k)
              /\ Len(H.reads) = Len(G.reads) + 1 /\ DOMAIN H.reads = 1 .. Len(G.reads) + 1
              /\ H.reads[Len(G.reads) + 1] = k
              /\ H.done = G.done /\ H.told = G.told /\ H.freed = G.freed
              /\ H.copied = G.copied /\ H.written = G.written /\ H.taken = G.taken
              /\ H.queued = G.queued /\ H.wanted = G.wanted /\ H.pushed = G.pushed
              /\ H.handled = G.handled /\ H.asked = G.asked /\ H.last = G.last
              /\ H.piece = G.piece /\ H.buffer = G.buffer /\ H.fetched = G.fetched
              /\ H.sent = G.sent
        BY <1>8, <3>1, NewRead
      <3>3. announcing'[m] = k /\ k # NoRead
        BY <3>1, ReadTransferAssumption DEF TypeInv, TypeOK
      <3>4. Len(G.reads) = G.asked /\ G.done + Len(q) = Len(G.reads)
        BY <1>8, <2>1, <3>1 DEF Announcing, q
      <3>5. \A i \in DOMAIN read_done_cbs'[m] : read_done_cbs'[m][i] = H.reads[H.done + i]
        <4>1. ASSUME NEW i \in DOMAIN q PROVE read_done_cbs'[m][i] = H.reads[H.done + i]
          <5>1. G.done + i \in DOMAIN G.reads
            BY <1>4, <1>9, <3>4
          <5> QED BY <1>4, <1>10, <3>2, <5>1 DEF Extends
        <4>2. read_done_cbs'[m][Len(q) + 1] = H.reads[H.done + (Len(q) + 1)]
          <5>1. G.done + (Len(q) + 1) = Len(G.reads) + 1
            <6>1. Len(q) \in Nat
              BY <1>4
            <6> QED BY <1>9, <3>4, <6>1
          <5> QED BY <1>4, <3>2, <5>1
        <4> QED BY <1>4, <4>1, <4>2
      <3>6. Announcing(m, H)'
        <4>1. \A x \in Read : x \in announced' /\ Source[x] = m
                                <=> \E a \in DOMAIN H.reads : H.reads[a] = x
          BY <1>8, <3>1, <3>2, BeginAnnouncing
        <4>2. Len(H.reads) > 0 /\ H.reads[Len(H.reads)] = announcing'[m]
          BY <1>9, <3>2, <3>3
        <4>3. Len(H.reads) = IF CbFirst /\ announcing'[m] # NoRead THEN H.asked + 1 ELSE H.asked
          BY <2>1, <3>2, <3>3, <3>4
        <4>4. H.done + Len(read_done_cbs'[m])
                = IF ~CbFirst /\ announcing'[m] # NoRead THEN Len(H.reads) - 1 ELSE Len(H.reads)
          BY <1>4, <1>9, <2>1, <3>2, <3>4
        <4> QED BY <3>5, <4>1, <4>2, <4>3, <4>4 DEF Announcing
      <3>7. Asking(m, H)'
        <4>1. Lists(Out(m)', Kind("UserMsg"), G.handled, G.asked, UserMsgs(G))
          BY <1>5, <1>8, <1>9, SparesLists DEF Asking
        <4> QED BY <1>8, <3>2, <4>1, AskingKeeps
      <3>8. Pipe(m, H)'
        BY <1>1, <1>5, <1>6, <1>7, <3>2, <3>6, <3>7, AppPipe
      <3> QED BY <3>1, <3>8
    <2>2. CASE ~CbFirst
      <3>1. /\ announcing[m] = k /\ announcing' = [announcing EXCEPT ![m] = NoRead]
            /\ announced' = announced
        BY <1>2, <2>2 DEF End
      <3>2. announcing'[m] = NoRead /\ k # NoRead
        BY <3>1, ReadTransferAssumption DEF TypeInv, TypeOK
      <3>3. /\ Len(G.reads) > 0 /\ G.reads[Len(G.reads)] = k /\ Len(G.reads) = G.asked
            /\ G.done + Len(q) = Len(G.reads) - 1
        BY <1>8, <2>2, <3>1, <3>2 DEF Announcing, q
      <3>4. Source[k] = m
        <4>1. Len(G.reads) \in DOMAIN G.reads
          BY <1>9, <3>3
        <4> QED BY <1>8, <3>3, <4>1 DEF Announcing
      <3>5. \A i \in DOMAIN read_done_cbs'[m] : read_done_cbs'[m][i] = G.reads[G.done + i]
        <4>1. read_done_cbs'[m][Len(q) + 1] = G.reads[G.done + (Len(q) + 1)]
          <5>1. G.done + (Len(q) + 1) = Len(G.reads)
            <6>1. Len(q) \in Nat
              BY <1>4
            <6> QED BY <1>9, <3>3, <6>1
          <5> QED BY <1>4, <3>3, <5>1
        <4> QED BY <1>4, <1>10, <4>1
      <3>6. Announcing(m, G)'
        <4>1. \A x \in Read : x \in announced' /\ Source[x] = m
                                <=> \E a \in DOMAIN G.reads : G.reads[a] = x
          BY <1>8, <3>1 DEF Announcing
        <4>2. G.done + Len(read_done_cbs'[m]) = Len(G.reads)
          BY <1>4, <1>9, <3>3
        <4> QED BY <2>2, <3>2, <3>3, <3>5, <4>1, <4>2 DEF Announcing
      <3>7. Extends(G, G)
        BY <1>9 DEF Extends
      <3>8. Asking(m, G)'
        <4>1. Lists(Out(m)', Kind("UserMsg"), G.handled, G.asked, UserMsgs(G))
          BY <1>5, <1>8, <1>9, SparesLists DEF Asking
        <4> QED BY <1>7, <1>8, <3>7, <4>1, AskingKeeps
      <3>9. Pipe(m, G)'
        BY <1>1, <1>5, <1>6, <1>7, <1>8, <3>6, <3>7, <3>8, AppPipe
      <3> QED BY <3>4, <3>9
    <2> QED BY <2>1, <2>2
  <1>13. \E H \in History : Pipe(p, H)'
    <2>1. PICK F \in History : Pipe(p, F)
      BY <1>1 DEF InStep
    <2>2. announcing'[p] = announcing[p] /\ announced' \subseteq announced \cup {k}
          /\ announced \subseteq announced'
      BY <1>1, <1>2 DEF Begin, End, TypeInv, TypeOK
    <2>3. AppQuiet(p)
      BY <1>1, <1>3, <1>12, <2>2 DEF AppQuiet
    <2> QED BY <1>1, <1>5, <1>6, <2>1, <2>3, QuietPipe
  <1> QED BY <1>12, <1>13, BothSources
\* One request posted, one completion handled, as the lists see it.
LEMMA PostOneSpares ==
  ASSUME TypeInv, NEW m \in Machine, NEW r \in Request, Post(m, <<r>>), UNCHANGED cq
  PROVE  /\ \A T : r \notin T => Spares(m, T)
         /\ \A T : Spares(Peer(m), T)
  <1>1. <<r>> \in Seq(Request) /\ Len(<<r>>) = 1 /\ <<r>>[1] = r
    OBVIOUS
  <1>2. \A T : r \notin T => \A i \in 1 .. Len(<<r>>) : <<r>>[i] \notin T
    BY <1>1
  <1> QED BY <1>1, <1>2, PostSpares

LEMMA PostOneLists ==
  ASSUME TypeInv, NEW m \in Machine, NEW r \in Request, Post(m, <<r>>), UNCHANGED cq,
         NEW T, NEW lo \in Nat, NEW hi \in Nat, NEW M, lo <= hi, Lists(Out(m), T, lo, hi, M),
         r \in T, M[hi + 1] = r
  PROVE  Lists(Out(m)', T, lo, hi + 1, M)
  <1> DEFINE e == <<r>>
  <1>1. e \in Seq(Request) /\ Len(e) = 1 /\ e[1] = r
    OBVIOUS
  <1>2. Out(m)' = Out(m) \o e /\ Out(m) \in Seq(Request)
    BY <1>1, OutPost, OutType
  <1> HIDE DEF e
  <1>3. Len(e) > 0 /\ (\A i \in 1 .. Len(e) - 1 : e[i] \notin T) /\ e[Len(e)] \in T
        /\ M[hi + 1] = e[Len(e)]
    BY <1>1
  <1> QED BY <1>1, <1>2, <1>3, ListsNext

LEMMA RecvLists ==
  ASSUME TypeInv, NEW m \in Machine, cq[m] # <<>>, cq' = [cq EXCEPT ![m] = Tail(@)], UNCHANGED sq,
         NEW T, NEW lo \in Nat, NEW hi \in Nat, NEW M, Lists(Out(Peer(m)), T, lo, hi, M),
         Head(cq[m]) \in T
  PROVE  lo < hi /\ Head(cq[m]) = M[lo + 1] /\ Lists(Out(Peer(m))', T, lo + 1, hi, M)
  <1>1. /\ Out(Peer(m)) # <<>> /\ Head(Out(Peer(m))) = Head(cq[m])
        /\ Out(Peer(m))' = Tail(Out(Peer(m)))
    BY OutRecv
  <1>2. Out(Peer(m)) \in Seq(Request)
    BY OutType, Peers
  <1> QED BY <1>1, <1>2, ListsTail

LEMMA AskingGrows ==
  ASSUME TypeInv, NEW m \in Machine, NEW k \in Read, NEW G, NEW H \in History, Ordered(G),
         Asking(m, G), Extends(G, H), H.handled = G.handled, H.asked = G.asked + 1,
         H.reads[G.asked + 1] = k, Post(m, <<UserMsg(k)>>), UNCHANGED cq
  PROVE  Asking(m, H)'
  <1>1. /\ G \in History /\ G.handled \in Nat /\ G.asked \in Nat /\ G.handled <= G.asked
    BY InOrder, Marks
  <1>2. Lists(Out(m), Kind("UserMsg"), G.handled, G.asked, UserMsgs(H))
    BY <1>1, ListedReads, ListsSame DEF Asking
  <1>3. UserMsg(k) \in Request /\ UserMsg(k) \in Kind("UserMsg")
    BY IsRequest, Kinds, RequestFields
  <1>4. UserMsgs(H)[G.asked + 1] = UserMsg(k)
    BY <1>1 DEF UserMsgs
  <1>5. Lists(Out(m)', Kind("UserMsg"), G.handled, G.asked + 1, UserMsgs(H))
    BY <1>1, <1>2, <1>3, <1>4, PostOneLists
  <1> QED BY <1>5 DEF Asking

\* One more read is asked for.
LEMMA AskOne ==
  ASSUME NEW G \in History, Ordered(G), G.asked < Len(G.reads)
  PROVE  \E H \in History : /\ Ordered(H) /\ Extends(G, H) /\ H.asked = G.asked + 1
                            /\ H.reads = G.reads /\ H.done = G.done /\ H.told = G.told
                            /\ H.freed = G.freed /\ H.copied = G.copied
                            /\ H.written = G.written /\ H.taken = G.taken
                            /\ H.queued = G.queued /\ H.wanted = G.wanted
                            /\ H.pushed = G.pushed /\ H.handled = G.handled
                            /\ H.last = G.last /\ H.piece = G.piece /\ H.buffer = G.buffer
                            /\ H.fetched = G.fetched /\ H.sent = G.sent
  <1> DEFINE H == [G EXCEPT !.asked = @ + 1]
  <1>1. /\ H \in History /\ H.asked = G.asked + 1
        /\ H.reads = G.reads /\ H.done = G.done /\ H.told = G.told /\ H.freed = G.freed
        /\ H.copied = G.copied /\ H.written = G.written /\ H.taken = G.taken
        /\ H.queued = G.queued /\ H.wanted = G.wanted /\ H.pushed = G.pushed
        /\ H.handled = G.handled /\ H.last = G.last /\ H.piece = G.piece
        /\ H.buffer = G.buffer /\ H.fetched = G.fetched /\ H.sent = G.sent
    <2>1. G.asked + 1 \in Nat
      BY Marks
    <2> QED BY <2>1 DEF History
  <1> HIDE DEF H
  <1>2. /\ G.asked \in Nat /\ Len(G.reads) \in Nat /\ G.handled \in Nat /\ G.handled <= G.asked
    BY InOrder, Marks
  <1>3. H.handled <= H.asked /\ H.asked <= Len(H.reads)
    BY <1>1, <1>2
  <1>4. Ordered(H)
    <2>1. /\ H.done <= H.told /\ H.told <= H.freed /\ H.freed <= H.copied
          /\ H.copied <= H.written /\ H.written <= H.taken /\ H.taken <= H.queued
          /\ H.queued <= H.wanted /\ H.wanted <= H.pushed /\ H.pushed <= H.handled
          /\ H.fetched <= H.sent
          /\ \A a, b \in DOMAIN H.reads : H.reads[a] = H.reads[b] => a = b
      BY <1>1, InOrder
    <2> QED BY <1>1, <1>3, <2>1 DEF Ordered
  <1>5. Extends(G, H)
    BY <1>1, <1>2 DEF Extends
  <1> QED BY <1>1, <1>4, <1>5

LEMMA SendMsgPipe ==
  ASSUME TypeInv, InStep, NEW m \in Machine, NEW k \in Read, SendMsg(m, k)
  PROVE  InStep'
  <1> DEFINE p == Peer(m)
             q == read_done_cbs[m]
  <1>1. p \in Machine /\ p # m /\ Peer(p) = m
    BY Peers
  <1>2. /\ IF CbFirst THEN End(m, k) ELSE Begin(m, k)
        /\ Post(m, <<UserMsg(k)>>) /\ UNCHANGED cq
        /\ UNCHANGED <<helper_vars, poller, qp_vars, mem_vars, deferred, cb_vars>>
    BY DEF SendMsg
  <1>3. UserMsg(k) \in Request /\ UserMsg(k).op = "UserMsg"
    BY IsRequest, RequestFields
  <1>4. /\ \A T : Spares(p, T)
        /\ Spares(m, LastWrites) /\ Spares(m, Kind("PleaseWrite")) /\ Spares(m, LastFrees)
    BY <1>2, <1>3, PostOneSpares, Kinds
  <1>5. \A n \in Machine : /\ ThreadsQuiet(n) /\ HelperQuiet(n) /\ CopyQuiet(n) /\ CbsQuiet(n)
                           /\ PollersQuiet(n) /\ send_mem'[n] = send_mem[n]
    BY <1>2, DeferredOnly DEF ThreadsQuiet, HelperQuiet, CopyQuiet, CbsQuiet, PollersQuiet,
                              helper_vars, queues, mem_vars, cb_vars, qp_vars
  <1>6. read_done_cbs' = read_done_cbs
    BY <1>2 DEF qp_vars
  <1>7. PICK G \in History : Pipe(m, G)
    BY DEF InStep
  <1>8. Ordered(G) /\ Announcing(m, G) /\ Asking(m, G)
    BY <1>7 DEF Pipe
  <1>9. /\ Len(G.reads) \in Nat /\ DOMAIN G.reads = 1 .. Len(G.reads) /\ G.done \in Nat
        /\ G.asked \in Nat /\ G.handled \in Nat
    BY <1>7, Marks
  <1>10. /\ Len(q) \in Nat /\ DOMAIN q = 1 .. Len(q)
         /\ \A i \in DOMAIN q : q[i] = G.reads[G.done + i]
    <2>1. q \in Seq(Read)
      BY DEF TypeInv, TypeOK
    <2> QED BY <1>8, <2>1, LenProperties DEF Announcing
  <1>11. Source[k] = m /\ \E H \in History : Pipe(m, H)'
    <2>1. CASE CbFirst
      <3>1. /\ announcing[m] = k /\ announcing' = [announcing EXCEPT ![m] = NoRead]
            /\ announced' = announced
        BY <1>2, <2>1 DEF End
      <3>2. announcing'[m] = NoRead /\ k # NoRead
        BY <3>1, ReadTransferAssumption DEF TypeInv, TypeOK
      <3>3. /\ Len(G.reads) > 0 /\ G.reads[Len(G.reads)] = k /\ Len(G.reads) = G.asked + 1
            /\ G.done + Len(q) = Len(G.reads)
        BY <1>8, <2>1, <3>1, <3>2 DEF Announcing
      <3>4. Source[k] = m
        <4>1. Len(G.reads) \in DOMAIN G.reads
          BY <1>9, <3>3
        <4> QED BY <1>8, <3>3, <4>1 DEF Announcing
      <3>5. G.asked < Len(G.reads)
        BY <1>9, <3>3
      <3>6. PICK H \in History : /\ Ordered(H) /\ Extends(G, H) /\ H.asked = G.asked + 1
                                 /\ H.reads = G.reads /\ H.done = G.done /\ H.told = G.told
                                 /\ H.freed = G.freed /\ H.copied = G.copied
                                 /\ H.written = G.written /\ H.taken = G.taken
                                 /\ H.queued = G.queued /\ H.wanted = G.wanted
                                 /\ H.pushed = G.pushed /\ H.handled = G.handled
                                 /\ H.last = G.last /\ H.piece = G.piece
                                 /\ H.buffer = G.buffer /\ H.fetched = G.fetched
                                 /\ H.sent = G.sent
        BY <1>8, <3>5, AskOne
      <3>7. Announcing(m, H)'
        <4>1. \A x \in Read : x \in announced' /\ Source[x] = m
                                <=> \E a \in DOMAIN H.reads : H.reads[a] = x
          BY <1>8, <3>1, <3>6 DEF Announcing
        <4> QED BY <1>6, <1>10, <2>1, <3>2, <3>3, <3>6, <4>1 DEF Announcing
      <3>8. Asking(m, H)'
        BY <1>2, <1>8, <3>3, <3>6, AskingGrows
      <3>9. Pipe(m, H)'
        BY <1>1, <1>4, <1>5, <1>7, <3>6, <3>7, <3>8, AppPipe
      <3> QED BY <3>4, <3>9
    <2>2. CASE ~CbFirst
      <3>1. /\ Source[k] = m /\ k \notin announced /\ announcing[m] = NoRead
            /\ announcing' = [announcing EXCEPT ![m] = k] /\ announced' = announced \cup {k}
        BY <1>2, <2>2 DEF Begin
      <3>2. PICK F \in History :
              /\ Ordered(F) /\ Extends(G, F) /\ F.reads = Append(G.reads, k)
              /\ Len(F.reads) = Len(G.reads) + 1 /\ DOMAIN F.reads = 1 .. Len(G.reads) + 1
              /\ F.reads[Len(G.reads) + 1] = k
              /\ F.done = G.done /\ F.told = G.told /\ F.freed = G.freed
              /\ F.copied = G.copied /\ F.written = G.written /\ F.taken = G.taken
              /\ F.queued = G.queued /\ F.wanted = G.wanted /\ F.pushed = G.pushed
              /\ F.handled = G.handled /\ F.asked = G.asked /\ F.last = G.last
              /\ F.piece = G.piece /\ F.buffer = G.buffer /\ F.fetched = G.fetched
              /\ F.sent = G.sent
        BY <1>8, <3>1, NewRead
      <3>3. Len(G.reads) = G.asked /\ G.done + Len(q) = Len(G.reads)
        BY <1>8, <2>2, <3>1 DEF Announcing
      <3>4. F.asked < Len(F.reads)
        BY <1>9, <3>2, <3>3
      <3>5. PICK H \in History : /\ Ordered(H) /\ Extends(F, H) /\ H.asked = F.asked + 1
                                 /\ H.reads = F.reads /\ H.done = F.done /\ H.told = F.told
                                 /\ H.freed = F.freed /\ H.copied = F.copied
                                 /\ H.written = F.written /\ H.taken = F.taken
                                 /\ H.queued = F.queued /\ H.wanted = F.wanted
                                 /\ H.pushed = F.pushed /\ H.handled = F.handled
                                 /\ H.last = F.last /\ H.piece = F.piece
                                 /\ H.buffer = F.buffer /\ H.fetched = F.fetched
                                 /\ H.sent = F.sent
        BY <3>2, <3>4, AskOne
      <3>6. announcing'[m] = k /\ k # NoRead
        BY <3>1, ReadTransferAssumption DEF TypeInv, TypeOK
      <3>7. Extends(G, H)
        BY <3>2, <3>5 DEF Extends
      <3>8. Announcing(m, H)'
        <4>1. \A x \in Read : x \in announced' /\ Source[x] = m
                                <=> \E a \in DOMAIN H.reads : H.reads[a] = x
          <5>1. /\ H.reads = Append(G.reads, k) /\ DOMAIN H.reads = 1 .. Len(G.reads) + 1
                /\ H.reads[Len(G.reads) + 1] = k
            BY <3>2, <3>5
          <5>2. Source[k] = m /\ announced' = announced \cup {k}
            BY <3>1
          <5> QED BY <1>8, <3>7, <5>1, <5>2, BeginAnnouncing
        <4>2. Len(H.reads) > 0 /\ H.reads[Len(H.reads)] = announcing'[m]
          BY <1>9, <3>2, <3>5, <3>6
        <4>3. Len(H.reads) = IF CbFirst /\ announcing'[m] # NoRead THEN H.asked + 1 ELSE H.asked
          BY <2>2, <3>2, <3>3, <3>5
        <4>4. H.done + Len(read_done_cbs'[m])
                = IF ~CbFirst /\ announcing'[m] # NoRead THEN Len(H.reads) - 1 ELSE Len(H.reads)
          BY <1>6, <1>9, <1>10, <2>2, <3>2, <3>3, <3>5, <3>6
        <4>5. \A i \in DOMAIN read_done_cbs'[m] : read_done_cbs'[m][i] = H.reads[H.done + i]
          <5>1. \A i \in DOMAIN q : G.done + i \in DOMAIN G.reads
            BY <1>9, <1>10, <3>3
          <5>2. H.done = G.done
            BY <3>2, <3>5
          <5> QED BY <1>6, <1>10, <3>7, <5>1, <5>2 DEF Extends
        <4> QED BY <4>1, <4>2, <4>3, <4>4, <4>5 DEF Announcing
      <3>9. Asking(m, H)'
        <4>1. H.handled = G.handled /\ H.asked = G.asked + 1 /\ H.reads[G.asked + 1] = k
          BY <3>2, <3>3, <3>5
        <4> QED BY <1>2, <1>8, <3>7, <4>1, AskingGrows
      <3>10. Pipe(m, H)'
        BY <1>1, <1>4, <1>5, <1>7, <3>2, <3>5, <3>7, <3>8, <3>9, AppPipe
      <3> QED BY <3>1, <3>10
    <2> QED BY <2>1, <2>2
  <1>12. \E H \in History : Pipe(p, H)'
    <2>1. PICK F \in History : Pipe(p, F)
      BY <1>1 DEF InStep
    <2>2. announcing'[p] = announcing[p] /\ announced' \subseteq announced \cup {k}
          /\ announced \subseteq announced'
      BY <1>1, <1>2 DEF Begin, End, TypeInv, TypeOK
    <2>3. AppQuiet(p)
      BY <1>1, <1>6, <1>11, <2>2 DEF AppQuiet
    <2> QED BY <1>1, <1>4, <1>5, <2>1, <2>3, QuietPipe
  <1> QED BY <1>11, <1>12, BothSources
--------------------------------------------------------------------------------
(* The reader takes a read on: the queues of user messages, of records and *)
(* of PleaseWrites.                                                        *)

LEMMA ReaderPipe ==
  ASSUME TypeInv, NEW s \in Machine, NEW G, NEW H, Pipe(s, G), Ordered(H),
         H.reads = G.reads, H.done = G.done, H.told = G.told, H.freed = G.freed, H.copied = G.copied,
         H.written = G.written, H.taken = G.taken, H.queued = G.queued, H.asked = G.asked,
         H.last = G.last, H.piece = G.piece, H.buffer = G.buffer, H.fetched = G.fetched, H.sent = G.sent,
         Asking(s, H)', Dealing(s, H)', Queueing(s, H)', Wanting(s, H)', Copying(s, H)',
         NextFetch(s, H)' = NextFetch(s, G),
         AppQuiet(s), HelperQuiet(s), CbsQuiet(s),
         poller'[s].at = "ReadDone" <=> poller[s].at = "ReadDone",
         (poller'[Peer(s)].at = "PostFree" /\ poller'[Peer(s)].last)
           <=> (poller[Peer(s)].at = "PostFree" /\ poller[Peer(s)].last),
         send_mem'[s] = send_mem[s], Spares(s, LastWrites), Spares(Peer(s), LastFrees)
  PROVE  Pipe(s, H)'
  <1>1. /\ Ordered(G) /\ Announcing(s, G) /\ Writing(s, G) /\ Streaming(s, G) /\ Flying(s, G)
        /\ Releasing(s, G)
    BY DEF Pipe
  <1>2. G \in History /\ H \in History /\ Peer(s) \in Machine
    BY <1>1, InOrder, Peers
  <1>3. /\ G.taken \in Nat /\ G.fetched \in Nat /\ G.sent \in Nat /\ G.told \in Nat
        /\ G.freed \in Nat /\ Len(G.reads) \in Nat
    BY <1>2, Marks
  <1>4. Extends(G, H)
    BY <1>3 DEF Extends
  <1>5. Lists(Out(s)', LastWrites, G.fetched, G.sent, LastWritesOf(G))
    BY <1>1, <1>3, SparesLists DEF Flying
  <1>6. Lists(Out(Peer(s))', LastFrees, G.told, G.freed, LastFreesOf(G))
    BY <1>1, <1>2, <1>3, SparesLists DEF Releasing
  <1>7. Announcing(s, H)'
    BY <1>1, <1>2, AnnouncingKeeps DEF AppQuiet
  <1>8. Writing(s, H)'
    BY <1>1, <1>2, <1>4, WritingKeeps DEF HelperQuiet
  <1>9. Streaming(s, H)'
    <2>1. NextSend(s, H)' = NextSend(s, G)
      BY NextSendKeeps DEF HelperQuiet
    <2> QED BY <1>1, <1>2, <1>3, <1>4, <2>1, StreamingKeeps
  <1>10. Flying(s, H)'
    BY <1>1, <1>2, <1>4, <1>5, FlyingKeeps
  <1>11. Releasing(s, H)'
    BY <1>1, <1>2, <1>4, <1>6, ReleasingKeeps DEF CbsQuiet
  <1>12. Ordered(H)'
    OBVIOUS
  <1> QED BY <1>7, <1>8, <1>9, <1>10, <1>11, <1>12 DEF Pipe

\* A record pushed for the next read of the source.
LEMMA Pushed ==
  ASSUME TypeInv, NoEmptyRead, NEW m \in Machine, NEW s \in Machine, Peer(s) = m, NEW k \in Read,
         NEW G, NEW H \in History, Ordered(G), Ordered(H), Announcing(s, G), Queueing(s, G),
         Copying(s, G), PushRecord(m, k), H.reads = G.reads, H.copied = G.copied,
         H.pushed = G.pushed + 1, H.reads[G.pushed + 1] = k, UNCHANGED dst,
         poller'[m].at = "ReadCb" <=> poller[m].at = "ReadCb"
  PROVE  Queueing(s, H)' /\ Copying(s, H)' /\ NextFetch(s, H)' = NextFetch(s, G)
  <1> DEFINE q == read_queue[m]
             r == WorkRecord(k, 0)
  <1>1. q \in Seq(Record) /\ r \in Record /\ r.read = k /\ r.offset = 0
    BY Records DEF TypeInv, TypeOK
  <1>2. read_queue'[m] = Append(q, r)
    BY DEF PushRecord, TypeInv, TypeOK
  <1> HIDE DEF r
  <1>3. /\ Len(q) \in Nat /\ Len(read_queue'[m]) = Len(q) + 1
        /\ DOMAIN q = 1 .. Len(q) /\ DOMAIN read_queue'[m] = 1 .. Len(q) + 1
        /\ \A i \in DOMAIN q : read_queue'[m][i] = q[i]
        /\ read_queue'[m][Len(q) + 1] = r /\ read_queue'[m] # <<>>
        /\ \A i \in DOMAIN read_queue'[m] : i \in DOMAIN q \/ i = Len(q) + 1
    BY <1>1, <1>2, Appended
  <1>4. G.copied + Len(q) = G.pushed /\ \A i \in DOMAIN q : q[i].read = G.reads[G.copied + i]
    BY DEF Queueing
  <1>5. G.copied \in Nat /\ G.pushed \in Nat
    BY InOrder, Marks
  <1>6. Queueing(s, H)'
    <2>1. H.copied + Len(read_queue'[m]) = H.pushed
      BY <1>3, <1>4, <1>5
    <2>2. read_queue'[m][Len(q) + 1].read = H.reads[H.copied + (Len(q) + 1)]
      <3>1. G.copied + (Len(q) + 1) = G.pushed + 1
        <4>1. Len(q) \in Nat
          BY <1>3
        <4> QED BY <1>4, <1>5, <4>1
      <3> QED BY <1>1, <1>3, <3>1
    <2>3. \A i \in DOMAIN read_queue'[m] : read_queue'[m][i].read = H.reads[H.copied + i]
      BY <1>3, <1>4, <2>2
    <2> QED BY <2>1, <2>3 DEF Queueing
  <1>7. q = <<>> => Len(q) = 0 /\ read_queue'[m][1] = r /\ poller[m].at # "ReadCb"
    <2>1. poller[m].at = "ReadCb" => q # <<>>
      BY DEF TypeInv, HandlersOK
    <2>2. q = <<>> => Len(q) = 0
      OBVIOUS
    <2> QED BY <1>3, <2>1, <2>2
  <1>8. q # <<>> => 1 \in DOMAIN q /\ read_queue'[m][1] = q[1]
    <2>1. q # <<>> => 1 \in DOMAIN q
      BY <1>1, Ends
    <2> QED BY <1>3, <2>1
  <1>9. NextFetch(s, H)' = NextFetch(s, G)
    BY <1>1, <1>3, <1>7, <1>8 DEF NextFetch
  <1>10. Copying(s, H)'
    <2>1. \A a \in 1 .. H.copied : \A i \in DOMAIN dst'[H.reads[a]] :
            dst'[H.reads[a]][i] = <<H.reads[a], i>>
      BY DEF Copying
    <2>2. /\ \A i \in 0 .. read_queue'[m][1].offset - 1 :
               dst'[read_queue'[m][1].read][i] = <<read_queue'[m][1].read, i>>
          /\ read_queue'[m][1].offset < Bytes[read_queue'[m][1].read] <=> poller'[m].at # "ReadCb"
      <3>1. CASE q = <<>>
        <4>1. read_queue'[m][1].offset = 0 /\ read_queue'[m][1].read = k /\ poller'[m].at # "ReadCb"
          BY <1>1, <1>7, <3>1
        <4>2. 0 < Bytes[k] /\ \A i \in 0 .. 0 - 1 : FALSE
          BY DEF NoEmptyRead
        <4> QED BY <4>1, <4>2
      <3>2. CASE q # <<>>
        <4>1. /\ \A i \in 0 .. q[1].offset - 1 : dst[q[1].read][i] = <<q[1].read, i>>
              /\ q[1].offset < Bytes[q[1].read] <=> poller[m].at # "ReadCb"
          BY <3>2 DEF Copying
        <4> QED BY <1>8, <3>2, <4>1
      <3> QED BY <3>1, <3>2
    <2>3. \A i \in DOMAIN read_queue'[m] : i > 1 => read_queue'[m][i].offset = 0
      <3>1. \A i \in DOMAIN q : i > 1 => q[i].offset = 0
        BY DEF Copying
      <3> QED BY <1>1, <1>3, <3>1
    <2> QED BY <2>1, <2>2, <2>3 DEF Copying
  <1> QED BY <1>6, <1>9, <1>10

\* OneThread, as a source's history sees it.
LEMMA OnlyRead ==
  ASSUME OneThread, NEW s \in Machine, NEW G, Ordered(G), Announcing(s, G),
         NEW a \in DOMAIN G.reads, G.reads[a] \in Deferred
  PROVE  Len(G.reads) = 1 /\ a = 1
  <1>1. /\ Len(G.reads) \in Nat /\ DOMAIN G.reads = 1 .. Len(G.reads)
        /\ \A b \in DOMAIN G.reads : G.reads[b] \in Read
        /\ \A b, c \in DOMAIN G.reads : G.reads[b] = G.reads[c] => b = c
    BY InOrder, Marks
  <1>2. \A b \in DOMAIN G.reads : Source[G.reads[b]] = s
    BY <1>1 DEF Announcing
  <1>3. \A b \in DOMAIN G.reads : b = a
    BY <1>1, <1>2 DEF OneThread
  <1>4. 1 \in DOMAIN G.reads /\ Len(G.reads) \in DOMAIN G.reads
    BY <1>1
  <1> QED BY <1>3, <1>4

LEMMA SourceOf ==
  ASSUME NEW m \in Machine, NEW k \in Read, Reader(k) = m
  PROVE  Source[k] = Peer(m) /\ Source[k] # m
  <1>1. Source[k] \in Machine
    BY ReadTransferAssumption
  <1> QED BY <1>1, Peers DEF Reader

\* The other source sees nothing of a read the reader takes on.
LEMMA ReaderElse ==
  ASSUME TypeInv, InStep, NEW m \in Machine, AppQuiet(m), ThreadsQuiet(m), HelperQuiet(m),
         CopyQuiet(m), CbsQuiet(m), PollersQuiet(m), send_mem'[m] = send_mem[m],
         Spares(m, Kind("UserMsg")), Spares(m, LastWrites), Spares(Peer(m), Kind("PleaseWrite")),
         Spares(Peer(m), LastFrees)
  PROVE  \E H \in History : Pipe(m, H)'
  <1>1. PICK G \in History : Pipe(m, G)
    BY DEF InStep
  <1> QED BY <1>1, QuietPipe

LEMMA WorkerDoReadPipe ==
  ASSUME TypeInv, InStep, NoEmptyRead, OneThread, NEW m \in Machine, NEW k \in Read,
         WorkerDoRead(m, k)
  PROVE  InStep'
  <1> DEFINE p == Peer(m)
  <1>1. p \in Machine /\ p # m /\ Peer(p) = m
    BY Peers
  <1>2. /\ Reader(k) = m /\ k \in deferred /\ deferred' = deferred \ {k} /\ PushRecord(m, k)
        /\ UNCHANGED <<helper_vars, net_vars, poller, mem_vars, announcing, announced, cb_vars>>
    BY DEF WorkerDoRead
  <1>3. /\ Source[k] = p /\ dealing' = dealing \cup {k} /\ read_done_cbs' = read_done_cbs
        /\ read_queue'[p] = read_queue[p]
    BY <1>1, <1>2, SourceOf DEF PushRecord, TypeInv, TypeOK
  <1>4. \A n \in Machine : \A T : Spares(n, T)
    BY <1>2 DEF Spares, Out, net_vars
  <1>5. \A n \in Machine : /\ AppQuiet(n) /\ HelperQuiet(n) /\ CbsQuiet(n)
                           /\ PollersQuiet(n) /\ send_mem'[n] = send_mem[n]
    BY <1>2, <1>3 DEF AppQuiet, HelperQuiet, CbsQuiet, PollersQuiet, helper_vars, queues,
                      mem_vars, cb_vars
  <1>6. \E H \in History : Pipe(m, H)'
    <2>1. ThreadsQuiet(m)
      BY <1>1, <1>2, <1>3, DeferredOnly DEF ThreadsQuiet
    <2>2. CopyQuiet(m)
      BY <1>2, <1>3 DEF CopyQuiet, mem_vars
    <2> QED BY <1>1, <1>4, <1>5, <2>1, <2>2, ReaderElse
  <1>7. PICK G \in History : Pipe(p, G)
    BY <1>1 DEF InStep
  <1>8. /\ Ordered(G) /\ Announcing(p, G) /\ Asking(p, G) /\ Dealing(p, G) /\ Queueing(p, G)
        /\ Wanting(p, G) /\ Copying(p, G)
    BY <1>7 DEF Pipe
  <1>9. /\ G.wanted \in Nat /\ G.pushed \in Nat /\ G.handled \in Nat /\ G.asked \in Nat
        /\ Len(G.reads) \in Nat /\ DOMAIN G.reads = 1 .. Len(G.reads) /\ G.queued \in Nat
        /\ G.wanted <= G.pushed /\ G.pushed <= G.handled /\ G.handled <= G.asked
        /\ G.asked <= Len(G.reads)
    BY <1>7, <1>8, Marks, InOrder
  <1>10. PICK a \in G.pushed + 1 .. G.handled : G.reads[a] = k
    BY <1>2, <1>3, <1>8 DEF Dealing
  <1>11. Len(G.reads) = 1 /\ a = 1
    <2>1. a \in DOMAIN G.reads
      BY <1>9, <1>10
    <2>2. k \in Deferred
      BY <1>2, <1>8 DEF Dealing
    <2> QED BY <1>1, <1>8, <1>10, <2>1, <2>2, OnlyRead
  <1>12. G.pushed = 0 /\ G.handled = 1 /\ G.wanted = 0 /\ G.reads[1] = k
    BY <1>9, <1>10, <1>11
  <1> DEFINE H == [G EXCEPT !.pushed = 1]
  <1>13. /\ H \in History /\ H.pushed = 1
         /\ H.reads = G.reads /\ H.done = G.done /\ H.told = G.told /\ H.freed = G.freed
         /\ H.copied = G.copied /\ H.written = G.written /\ H.taken = G.taken
         /\ H.queued = G.queued /\ H.wanted = G.wanted /\ H.handled = G.handled
         /\ H.asked = G.asked /\ H.last = G.last /\ H.piece = G.piece /\ H.buffer = G.buffer
         /\ H.fetched = G.fetched /\ H.sent = G.sent
    <2>1. G \in History
      BY <1>7
    <2> QED BY <2>1 DEF History
  <1> HIDE DEF H, p
  <1>14. Ordered(H)
    <2>1. H.wanted <= H.pushed /\ H.pushed <= H.handled
      BY <1>12, <1>13
    <2> QED BY <1>8, <1>13, <2>1 DEF Ordered
  <1>15. Extends(G, H)
    BY <1>9, <1>13 DEF Extends
  <1>16. Queueing(p, H)' /\ Copying(p, H)' /\ NextFetch(p, H)' = NextFetch(p, G)
    <2>1. H.pushed = G.pushed + 1 /\ H.reads[G.pushed + 1] = k /\ H.reads = G.reads
          /\ H.copied = G.copied
      BY <1>12, <1>13
    <2>2. UNCHANGED <<dst, poller>> /\ PushRecord(m, k)
      BY <1>2 DEF mem_vars
    <2> QED BY <1>1, <1>8, <1>13, <1>14, <2>1, <2>2, Pushed
  <1>17. Asking(p, H)' /\ Wanting(p, H)'
    <2>1. Lists(Out(p)', Kind("UserMsg"), G.handled, G.asked, UserMsgs(G))
      BY <1>1, <1>4, <1>8, <1>9, SparesLists DEF Asking
    <2>2. Lists(Out(Peer(p))', Kind("PleaseWrite"), G.queued, G.wanted, PleaseWrites(G))
      BY <1>1, <1>4, <1>8, <1>9, SparesLists DEF Wanting
    <2> QED BY <1>1, <1>8, <1>13, <1>15, <2>1, <2>2, AskingKeeps, WantingKeeps
  <1>18. Dealing(p, H)'
    <2>1. H.reads[1] = k /\ H.wanted = 0 /\ H.pushed = 1 /\ H.handled = 1
      BY <1>12, <1>13
    <2>2. /\ \A x \in Read : x \in deferred /\ Source[x] = p <=> x = k
          /\ \A x \in Read : ~(x \in dealing /\ Source[x] = p)
      <3>1. /\ \A x \in Read : x \in deferred /\ Source[x] = p
                                 <=> \E b \in 0 + 1 .. 1 : G.reads[b] = x
            /\ \A x \in Read : x \in dealing /\ Source[x] = p
                                 <=> \E b \in 0 + 1 .. 0 : G.reads[b] = x
        BY <1>8, <1>12 DEF Dealing
      <3> QED BY <1>12, <3>1
    <2>3. /\ \A x \in Read : x \in deferred' /\ Source[x] = p
                               <=> \E b \in 1 + 1 .. 1 : H.reads[b] = x
          /\ \A x \in Read : x \in dealing' /\ Source[x] = p
                               <=> \E b \in 0 + 1 .. 1 : H.reads[b] = x
      BY <1>2, <1>3, <2>1, <2>2
    <2>4. \A b \in 0 + 1 .. 1 : H.reads[b] \in Deferred
      BY <1>2, <2>1, <1>1, DeferredOnly
    <2>5. deferred' \subseteq Deferred
      BY <1>1, <1>2, DeferredOnly
    <2> QED BY <2>1, <2>3, <2>4, <2>5 DEF Dealing
  <1>19. Pipe(p, H)'
    <2>1. /\ poller'[p].at = "ReadDone" <=> poller[p].at = "ReadDone"
          /\ (poller'[Peer(p)].at = "PostFree" /\ poller'[Peer(p)].last)
               <=> (poller[Peer(p)].at = "PostFree" /\ poller[Peer(p)].last)
      BY <1>2
    <2> QED BY <1>1, <1>4, <1>5, <1>7, <1>13, <1>14, <1>16, <1>17, <1>18, <2>1, ReaderPipe
  <1>20. \E F \in History : Pipe(Peer(m), F)'
    BY <1>13, <1>19 DEF p
  <1> QED BY <1>6, <1>20, BothSources
LEMMA PostPleaseWritePipe ==
  ASSUME TypeInv, InStep, NEW m \in Machine, NEW k \in Read, PostPleaseWrite(m, k)
  PROVE  InStep'
  <1> DEFINE p == Peer(m)
  <1>1. p \in Machine /\ p # m /\ Peer(p) = m
    BY Peers
  <1>2. /\ Reader(k) = m /\ k \in dealing /\ dealing' = dealing \ {k}
        /\ Post(m, <<PleaseWrite(k)>>) /\ UNCHANGED cq
        /\ poller' = IF poller[m] = [at |-> "Dealing", read |-> k]
                       THEN [poller EXCEPT ![m] = [at |-> "PostRecv"]] ELSE poller
        /\ UNCHANGED <<helper_vars, read_queue, read_done_cbs, mem_vars, app_vars, cb_vars>>
    BY DEF PostPleaseWrite
  <1>3. Source[k] = p
    BY <1>2, SourceOf
  <1>4. PleaseWrite(k) \in Request /\ PleaseWrite(k).op = "PleaseWrite"
    BY IsRequest, RequestFields
  <1>5. /\ \A T : Spares(p, T)
        /\ Spares(m, LastWrites) /\ Spares(m, Kind("UserMsg")) /\ Spares(m, LastFrees)
    BY <1>2, <1>4, PostOneSpares, Kinds
  <1>6. /\ poller'[p] = poller[p]
        /\ \/ poller'[m] = poller[m]
           \/ /\ poller[m] = [at |-> "Dealing", read |-> k] /\ poller'[m].at = "PostRecv"
              /\ poller[m].at = "Dealing"
    BY <1>1, <1>2 DEF TypeInv, TypeOK
  <1>7. \A n \in Machine : /\ AppQuiet(n) /\ HelperQuiet(n) /\ CbsQuiet(n) /\ CopyQuiet(n)
                           /\ send_mem'[n] = send_mem[n]
    BY <1>2 DEF AppQuiet, HelperQuiet, CbsQuiet, CopyQuiet, helper_vars, queues,
                mem_vars, cb_vars, app_vars
  <1>8. \E H \in History : Pipe(m, H)'
    <2>1. ThreadsQuiet(m)
      BY <1>1, <1>2, <1>3, DeferredOnly DEF ThreadsQuiet, app_vars
    <2>2. PollersQuiet(m)
      BY <1>6 DEF PollersQuiet
    <2> QED BY <1>1, <1>5, <1>7, <2>1, <2>2, ReaderElse
  <1>9. PICK G \in History : Pipe(p, G)
    BY <1>1 DEF InStep
  <1>10. /\ Ordered(G) /\ Announcing(p, G) /\ Asking(p, G) /\ Dealing(p, G) /\ Queueing(p, G)
         /\ Wanting(p, G) /\ Copying(p, G) /\ G \in History
    BY <1>9 DEF Pipe
  <1>11. /\ G.wanted \in Nat /\ G.pushed \in Nat /\ G.handled \in Nat /\ G.asked \in Nat
         /\ Len(G.reads) \in Nat /\ DOMAIN G.reads = 1 .. Len(G.reads) /\ G.queued \in Nat
         /\ G.queued <= G.wanted /\ G.wanted <= G.pushed /\ G.pushed <= G.handled
         /\ G.handled <= G.asked /\ G.asked <= Len(G.reads)
    BY <1>10, Marks, InOrder
  <1>12. PICK a \in G.wanted + 1 .. G.pushed : G.reads[a] = k
    BY <1>2, <1>3, <1>10 DEF Dealing
  <1>13. G.pushed = G.wanted + 1 /\ G.reads[G.wanted + 1] = k
    <2>1. G.pushed <= G.wanted + 1
      BY <1>10 DEF Dealing
    <2>2. a = G.wanted + 1 /\ G.pushed = G.wanted + 1
      BY <1>11, <2>1
    <2> QED BY <1>12, <2>2
  <1> DEFINE H == [G EXCEPT !.wanted = G.pushed]
  <1>14. /\ H \in History /\ H.wanted = G.wanted + 1
         /\ H.reads = G.reads /\ H.done = G.done /\ H.told = G.told /\ H.freed = G.freed
         /\ H.copied = G.copied /\ H.written = G.written /\ H.taken = G.taken
         /\ H.queued = G.queued /\ H.pushed = G.pushed /\ H.handled = G.handled
         /\ H.asked = G.asked /\ H.last = G.last /\ H.piece = G.piece /\ H.buffer = G.buffer
         /\ H.fetched = G.fetched /\ H.sent = G.sent
    <2>1. G \in History /\ G.pushed \in Nat /\ G.pushed = G.wanted + 1
      BY <1>10, <1>11, <1>13
    <2> QED BY <2>1 DEF History
  <1> HIDE DEF H, p
  <1>15. Ordered(H)
    <2>1. H.queued <= H.wanted /\ H.wanted <= H.pushed
      BY <1>11, <1>13, <1>14
    <2> QED BY <1>10, <1>14, <2>1 DEF Ordered
  <1>16. Extends(G, H)
    BY <1>11, <1>14 DEF Extends
  <1>17. Wanting(p, H)'
    <2>1. PleaseWrite(k) \in Kind("PleaseWrite")
      BY <1>4, Kinds
    <2>2. PleaseWrites(G)[G.wanted + 1] = PleaseWrite(k)
      BY <1>11, <1>13 DEF PleaseWrites
    <2>3. Lists(Out(m), Kind("PleaseWrite"), G.queued, G.wanted, PleaseWrites(G))
      BY <1>1, <1>10 DEF Wanting
    <2>4. Lists(Out(m)', Kind("PleaseWrite"), G.queued, G.wanted + 1, PleaseWrites(G))
      BY <1>2, <1>4, <1>11, <2>1, <2>2, <2>3, PostOneLists
    <2>5. PleaseWrites(H) = PleaseWrites(G)
      BY <1>14 DEF PleaseWrites
    <2> QED BY <1>1, <1>14, <2>4, <2>5 DEF Wanting
  <1>18. Asking(p, H)'
    <2>1. Lists(Out(p)', Kind("UserMsg"), G.handled, G.asked, UserMsgs(G))
      BY <1>1, <1>5, <1>10, <1>11, SparesLists DEF Asking
    <2> QED BY <1>1, <1>10, <1>14, <1>16, <2>1, AskingKeeps
  <1>19. Dealing(p, H)'
    <2>1. /\ \A x \in Read : x \in deferred /\ Source[x] = p
                               <=> \E b \in G.pushed + 1 .. G.handled : G.reads[b] = x
          /\ \A x \in Read : x \in dealing /\ Source[x] = p
                               <=> \E b \in G.wanted + 1 .. G.pushed : G.reads[b] = x
      BY <1>10 DEF Dealing
    <2>2. \A b \in G.wanted + 1 .. G.pushed : G.reads[b] = k
      BY <1>11, <1>13
    <2>3. H.wanted + 1 .. H.pushed = {}
      BY <1>11, <1>13, <1>14
    <2>4. \A x \in Read : x \in dealing' /\ Source[x] = p
                            <=> \E b \in H.wanted + 1 .. H.pushed : H.reads[b] = x
      BY <1>2, <2>1, <2>2, <2>3
    <2>5. \A x \in Read : x \in deferred' /\ Source[x] = p
                            <=> \E b \in H.pushed + 1 .. H.handled : H.reads[b] = x
      BY <1>2, <1>14, <2>1 DEF app_vars
    <2>6. deferred' \subseteq Deferred /\ H.pushed <= H.wanted + 1
      BY <1>2, <1>1, <1>11, <1>13, <1>14, DeferredOnly DEF app_vars
    <2> QED BY <2>3, <2>4, <2>5, <2>6 DEF Dealing
  <1>20. Queueing(p, H)'
    BY <1>1, <1>2, <1>10, <1>14, <1>16, QueueingKeeps
  <1>21. /\ poller'[m].at = "ReadCb" <=> poller[m].at = "ReadCb"
         /\ poller'[p].at = "ReadDone" <=> poller[p].at = "ReadDone"
         /\ (poller'[m].at = "PostFree" /\ poller'[m].last)
              <=> (poller[m].at = "PostFree" /\ poller[m].last)
    BY <1>6
  <1>22. Copying(p, H)'
    BY <1>1, <1>7, <1>10, <1>14, <1>16, <1>21, CopyingKeeps DEF CopyQuiet
  <1>23. NextFetch(p, H)' = NextFetch(p, G)
    BY <1>1, <1>7, <1>14, <1>21, NextFetchKeeps DEF CopyQuiet
  <1>24. Pipe(p, H)'
    BY <1>1, <1>5, <1>7, <1>9, <1>14, <1>15, <1>17, <1>18, <1>19, <1>20, <1>21, <1>22, <1>23,
       ReaderPipe
  <1>25. \E F \in History : Pipe(Peer(m), F)'
    BY <1>14, <1>24 DEF p
  <1> QED BY <1>8, <1>25, BothSources

LEMMA RecvUserMsgPipe ==
  ASSUME TypeInv, InStep, NoEmptyRead, OneThread, NEW m \in Machine, RecvUserMsg(m)
  PROVE  InStep'
  <1> DEFINE p == Peer(m)
             wr == Head(cq[m])
             k == wr.read
  <1>1. p \in Machine /\ p # m /\ Peer(p) = m
    BY Peers
  <1>2. /\ cq[m] # <<>> /\ wr.op = "UserMsg" /\ cq' = [cq EXCEPT ![m] = Tail(@)]
        /\ poller[m].at = "Poll"
        /\ UNCHANGED <<helper_vars, sq, mem_vars, announcing, announced, cb_vars>>
        /\ \/ /\ poller' = [poller EXCEPT ![m] = [at |-> "Dealing", read |-> k]]
              /\ k \notin Deferred /\ PushRecord(m, k) /\ UNCHANGED deferred
           \/ /\ poller' = [poller EXCEPT ![m] = [at |-> "PostRecv"]]
              /\ k \in Deferred /\ deferred' = deferred \cup {k} /\ UNCHANGED qp_vars
    BY DEF RecvUserMsg, OnRecv, At
  <1>3. wr \in Request
    BY <1>2, Ends DEF TypeInv, TypeOK
  <1>4. k \in Read /\ wr = UserMsg(k)
    BY <1>2, <1>3, Requests
  <1>5. /\ \A T : Spares(m, T)
        /\ Spares(p, LastWrites) /\ Spares(p, Kind("PleaseWrite")) /\ Spares(p, LastFrees)
    BY <1>2, <1>3, RecvSpares, Kinds
  <1>6. /\ poller'[p] = poller[p] /\ poller'[m].at \in {"Dealing", "PostRecv"}
        /\ k \notin Deferred => poller'[m] = [at |-> "Dealing", read |-> k]
    BY <1>1, <1>2 DEF TypeInv, TypeOK
  <1>7. /\ poller'[m].at = "ReadCb" <=> poller[m].at = "ReadCb"
        /\ poller'[m].at = "ReadDone" <=> poller[m].at = "ReadDone"
        /\ poller'[p].at = "ReadDone" <=> poller[p].at = "ReadDone"
        /\ (poller'[m].at = "PostFree" /\ poller'[m].last)
             <=> (poller[m].at = "PostFree" /\ poller[m].last)
    BY <1>2, <1>6
  <1>8. /\ deferred' \subseteq deferred \cup {k} /\ deferred \subseteq deferred'
        /\ dealing' \subseteq dealing \cup {k} /\ dealing \subseteq dealing'
        /\ read_done_cbs' = read_done_cbs /\ read_queue'[p] = read_queue[p]
        /\ deferred' \subseteq deferred \cup (Deferred \cap {k})
    BY <1>1, <1>2 DEF PushRecord, qp_vars, TypeInv, TypeOK
  <1>9. \A n \in Machine : /\ AppQuiet(n) /\ HelperQuiet(n) /\ CbsQuiet(n)
                           /\ send_mem'[n] = send_mem[n]
    BY <1>2, <1>8 DEF AppQuiet, HelperQuiet, CbsQuiet, helper_vars, queues, mem_vars, cb_vars
  <1> HIDE DEF wr, k
  <1>10. PICK G \in History : Pipe(p, G)
    BY <1>1 DEF InStep
  <1>11. /\ Ordered(G) /\ Announcing(p, G) /\ Asking(p, G) /\ Dealing(p, G) /\ Queueing(p, G)
         /\ Wanting(p, G) /\ Copying(p, G) /\ G \in History
    BY <1>10 DEF Pipe
  <1>12. /\ G.wanted \in Nat /\ G.pushed \in Nat /\ G.handled \in Nat /\ G.asked \in Nat
         /\ Len(G.reads) \in Nat /\ DOMAIN G.reads = 1 .. Len(G.reads) /\ G.queued \in Nat
         /\ G.queued <= G.wanted /\ G.wanted <= G.pushed /\ G.pushed <= G.handled
         /\ G.handled <= G.asked /\ G.asked <= Len(G.reads)
    BY <1>11, Marks, InOrder
  <1>13. /\ G.handled < G.asked /\ wr = UserMsgs(G)[G.handled + 1]
         /\ Lists(Out(p)', Kind("UserMsg"), G.handled + 1, G.asked, UserMsgs(G))
    <2>1. wr \in Kind("UserMsg")
      BY <1>2, <1>3, Kinds
    <2>2. Lists(Out(p), Kind("UserMsg"), G.handled, G.asked, UserMsgs(G))
      BY <1>11 DEF Asking
    <2> QED BY <1>2, <1>12, <2>1, <2>2, RecvLists DEF wr
  <1>14. G.reads[G.handled + 1] = k /\ G.handled + 1 \in DOMAIN G.reads
    <2>1. wr = UserMsg(G.reads[G.handled + 1])
      BY <1>12, <1>13 DEF UserMsgs
    <2> QED BY <1>12, <1>13, <2>1, RequestFields DEF k
  <1>15. Source[k] = p
    BY <1>4, <1>11, <1>14 DEF Announcing
  <1>16. \E H \in History : Pipe(m, H)'
    <2>1. deferred' \subseteq Deferred
      BY <1>1, <1>8, DeferredOnly
    <2>2. ThreadsQuiet(m)
      BY <1>1, <1>8, <1>15, <2>1 DEF ThreadsQuiet
    <2>3. CopyQuiet(m)
      BY <1>2, <1>8 DEF CopyQuiet, mem_vars
    <2>4. PollersQuiet(m)
      BY <1>6, <1>7 DEF PollersQuiet
    <2> QED BY <1>1, <1>5, <1>9, <2>2, <2>3, <2>4, ReaderElse
  <1>17. \A x \in Read : /\ x \in deferred /\ Source[x] = p
                              <=> \E b \in G.pushed + 1 .. G.handled : G.reads[b] = x
                         /\ x \in dealing /\ Source[x] = p
                              <=> \E b \in G.wanted + 1 .. G.pushed : G.reads[b] = x
    BY <1>11 DEF Dealing
  <1>18. ASSUME NEW a \in DOMAIN G.reads, G.reads[a] \in Deferred
         PROVE  Len(G.reads) = 1 /\ a = 1 /\ G.handled = 0
    <2>1. Len(G.reads) = 1 /\ a = 1
      BY <1>1, <1>11, <1>18, OnlyRead
    <2> QED BY <1>12, <1>13, <2>1
  <1> HIDE DEF p
  <1>19. ASSUME k \notin Deferred PROVE \E F \in History : Pipe(p, F)'
    <2>1. /\ PushRecord(m, k) /\ deferred' = deferred /\ dealing' = dealing \cup {k}
      BY <1>2, <1>19 DEF PushRecord, k, wr
    <2>2. G.pushed = G.handled
      <3>1. ASSUME NEW a \in G.pushed + 1 .. G.handled PROVE FALSE
        <4>1. a \in DOMAIN G.reads /\ a > 0 /\ a <= G.handled /\ a \in Nat
          BY <1>12
        <4>2. G.reads[a] \in Deferred
          <5>1. G.reads[a] \in Read
            BY <1>11, <4>1, Marks
          <5>2. G.reads[a] \in deferred
            BY <1>17, <5>1
          <5> QED BY <1>1, <5>2, DeferredOnly
        <4> QED BY <1>18, <4>1, <4>2
      <3>2. G.pushed < G.handled => G.handled \in G.pushed + 1 .. G.handled
        BY <1>12
      <3> QED BY <1>12, <3>1, <3>2
    <2>3. G.wanted = G.pushed
      <3>1. ASSUME NEW a \in G.wanted + 1 .. G.pushed PROVE FALSE
        <4>1. a \in DOMAIN G.reads /\ a > 0 /\ a <= G.handled /\ a \in Nat
          BY <1>12
        <4>2. G.reads[a] \in Deferred \/ poller[m] = [at |-> "Dealing", read |-> G.reads[a]]
          BY <1>1, <1>11 DEF Dealing
        <4>3. G.reads[a] \in Deferred
          BY <1>2, <4>2
        <4> QED BY <1>18, <4>1, <4>3
      <3>2. G.wanted < G.pushed => G.pushed \in G.wanted + 1 .. G.pushed
        BY <1>12
      <3> QED BY <1>12, <3>1, <3>2
    <2> DEFINE n == G.handled + 1
               H == [G EXCEPT !.pushed = n, !.handled = n]
    <2>4. n \in Nat
      BY <1>12
    <2> HIDE DEF n
    <2>5. /\ H \in History /\ H.pushed = n /\ H.handled = n
          /\ H.reads = G.reads /\ H.done = G.done /\ H.told = G.told /\ H.freed = G.freed
          /\ H.copied = G.copied /\ H.written = G.written /\ H.taken = G.taken
          /\ H.queued = G.queued /\ H.wanted = G.wanted /\ H.asked = G.asked
          /\ H.last = G.last /\ H.piece = G.piece /\ H.buffer = G.buffer
          /\ H.fetched = G.fetched /\ H.sent = G.sent
      <3>1. G \in History
        BY <1>11
      <3> QED BY <2>4, <3>1 DEF History
    <2> HIDE DEF H
    <2>6. Ordered(H)
      <3>1. H.wanted <= H.pushed /\ H.pushed <= H.handled /\ H.handled <= H.asked
        BY <1>12, <1>13, <2>2, <2>3, <2>5 DEF n
      <3> QED BY <1>11, <2>5, <3>1 DEF Ordered
    <2>7. Extends(G, H)
      BY <1>12, <2>5 DEF Extends
    <2>8. Queueing(p, H)' /\ Copying(p, H)' /\ NextFetch(p, H)' = NextFetch(p, G)
      <3>1. H.pushed = G.pushed + 1 /\ H.reads[G.pushed + 1] = k /\ H.reads = G.reads
            /\ H.copied = G.copied
        BY <1>14, <2>2, <2>5 DEF n
      <3>2. UNCHANGED dst
        BY <1>2 DEF mem_vars
      <3> QED BY <1>1, <1>4, <1>7, <1>11, <2>1, <2>5, <2>6, <3>1, <3>2, Pushed
    <2>9. Asking(p, H)'
      <3>1. UserMsgs(H) = UserMsgs(G)
        BY <2>5 DEF UserMsgs
      <3> QED BY <1>13, <2>5, <3>1 DEF Asking, n
    <2>10. Wanting(p, H)'
      <3>1. Lists(Out(Peer(p))', Kind("PleaseWrite"), G.queued, G.wanted, PleaseWrites(G))
        BY <1>1, <1>5, <1>11, <1>12, SparesLists DEF Wanting
      <3> QED BY <1>1, <1>11, <2>5, <2>7, <3>1, WantingKeeps
    <2>11. Dealing(p, H)'
      <3>1. H.pushed + 1 .. H.handled = {} /\ G.pushed + 1 .. G.handled = {}
            /\ G.wanted + 1 .. G.pushed = {} /\ H.wanted + 1 .. H.pushed = {n} /\ H.reads[n] = k
        BY <1>12, <1>14, <2>2, <2>3, <2>4, <2>5 DEF n
      <3>2. \A x \in Read : ~(x \in deferred /\ Source[x] = p) /\ ~(x \in dealing /\ Source[x] = p)
        BY <1>17, <3>1
      <3>3. \A x \in Read : /\ x \in deferred' /\ Source[x] = p
                                 <=> \E b \in H.pushed + 1 .. H.handled : H.reads[b] = x
                            /\ x \in dealing' /\ Source[x] = p
                                 <=> \E b \in H.wanted + 1 .. H.pushed : H.reads[b] = x
        BY <1>15, <2>1, <3>1, <3>2
      <3>4. \A b \in H.wanted + 1 .. H.pushed :
              poller'[Peer(p)] = [at |-> "Dealing", read |-> H.reads[b]]
        BY <1>1, <1>6, <1>19, <3>1
      <3>5. deferred' \subseteq Deferred /\ H.pushed <= H.wanted + 1
        BY <1>1, <1>12, <2>1, <2>2, <2>3, <2>5, DeferredOnly DEF n
      <3> QED BY <3>3, <3>4, <3>5 DEF Dealing
    <2>12. Pipe(p, H)'
      BY <1>1, <1>5, <1>7, <1>9, <1>10, <2>5, <2>6, <2>8, <2>9, <2>10, <2>11, ReaderPipe
    <2> QED BY <2>5, <2>12
  <1>20. ASSUME k \in Deferred PROVE \E F \in History : Pipe(p, F)'
    <2>1. deferred' = deferred \cup {k} /\ dealing' = dealing /\ read_queue' = read_queue
      BY <1>2, <1>20 DEF qp_vars, k, wr
    <2>2. Len(G.reads) = 1 /\ G.handled = 0 /\ G.pushed = 0 /\ G.wanted = 0 /\ G.asked = 1
      <3>1. Len(G.reads) = 1 /\ G.handled = 0
        BY <1>14, <1>18, <1>20
      <3> QED BY <1>12, <1>13, <3>1
    <2> DEFINE H == [G EXCEPT !.handled = 1]
    <2>3. /\ H \in History /\ H.handled = 1
          /\ H.reads = G.reads /\ H.done = G.done /\ H.told = G.told /\ H.freed = G.freed
          /\ H.copied = G.copied /\ H.written = G.written /\ H.taken = G.taken
          /\ H.queued = G.queued /\ H.wanted = G.wanted /\ H.pushed = G.pushed
          /\ H.asked = G.asked /\ H.last = G.last /\ H.piece = G.piece
          /\ H.buffer = G.buffer /\ H.fetched = G.fetched /\ H.sent = G.sent
      <3>1. G \in History
        BY <1>11
      <3> QED BY <3>1 DEF History
    <2> HIDE DEF H
    <2>4. Ordered(H)
      <3>1. H.pushed <= H.handled /\ H.handled <= H.asked
        BY <2>2, <2>3
      <3> QED BY <1>11, <2>3, <3>1 DEF Ordered
    <2>5. Extends(G, H)
      BY <1>12, <2>3 DEF Extends
    <2>6. Queueing(p, H)'
      BY <1>1, <1>11, <2>1, <2>3, <2>5, QueueingKeeps
    <2>7. Copying(p, H)'
      <3>1. dst' = dst
        BY <1>2 DEF mem_vars
      <3> QED BY <1>1, <1>7, <1>11, <2>1, <2>3, <2>5, <3>1, CopyingKeeps
    <2>8. NextFetch(p, H)' = NextFetch(p, G)
      BY <1>1, <1>7, <2>1, <2>3, NextFetchKeeps
    <2>9. Asking(p, H)'
      <3>1. UserMsgs(H) = UserMsgs(G)
        BY <2>3 DEF UserMsgs
      <3> QED BY <1>13, <2>2, <2>3, <3>1 DEF Asking
    <2>10. Wanting(p, H)'
      <3>1. Lists(Out(Peer(p))', Kind("PleaseWrite"), G.queued, G.wanted, PleaseWrites(G))
        BY <1>1, <1>5, <1>11, <1>12, SparesLists DEF Wanting
      <3> QED BY <1>1, <1>11, <2>3, <2>5, <3>1, WantingKeeps
    <2>11. Dealing(p, H)'
      <3>1. /\ H.pushed + 1 .. H.handled = {1} /\ H.reads[1] = k /\ G.pushed + 1 .. G.handled = {}
            /\ G.wanted + 1 .. G.pushed = {} /\ H.wanted + 1 .. H.pushed = {}
        BY <1>14, <2>2, <2>3
      <3>2. \A x \in Read : ~(x \in deferred /\ Source[x] = p) /\ ~(x \in dealing /\ Source[x] = p)
        BY <1>17, <3>1
      <3>3. \A x \in Read : /\ x \in deferred' /\ Source[x] = p
                                 <=> \E b \in H.pushed + 1 .. H.handled : H.reads[b] = x
                            /\ x \in dealing' /\ Source[x] = p
                                 <=> \E b \in H.wanted + 1 .. H.pushed : H.reads[b] = x
        BY <1>15, <2>1, <3>1, <3>2
      <3>4. deferred' \subseteq Deferred /\ H.pushed <= H.wanted + 1
        BY <1>1, <1>20, <2>1, <2>2, <2>3, DeferredOnly
      <3> QED BY <3>1, <3>3, <3>4 DEF Dealing
    <2>12. Pipe(p, H)'
      BY <1>1, <1>5, <1>7, <1>9, <1>10, <2>3, <2>4, <2>6, <2>7, <2>8, <2>9, <2>10, <2>11, ReaderPipe
    <2> QED BY <2>3, <2>12
  <1>21. \E F \in History : Pipe(Peer(m), F)'
    BY <1>19, <1>20 DEF p
  <1> QED BY <1>16, <1>21, BothSources
--------------------------------------------------------------------------------
(* The source's write helper: its queues and the record in hand.           *)

LEMMA HelperPipe ==
  ASSUME TypeInv, NEW m \in Machine, NEW G, NEW H, Pipe(m, G), Ordered(H),
         H.reads = G.reads, H.done = G.done, H.told = G.told, H.freed = G.freed, H.copied = G.copied,
         H.written = G.written, H.wanted = G.wanted, H.pushed = G.pushed, H.handled = G.handled, H.asked = G.asked,
         H.last = G.last, H.piece = G.piece, H.buffer = G.buffer, H.fetched = G.fetched, H.sent = G.sent,
         G.taken <= H.taken, Wanting(m, H)', Writing(m, H)', NextSend(m, H)' = NextSend(m, G),
         AppQuiet(m), ThreadsQuiet(m), CopyQuiet(m), CbsQuiet(m), PollersQuiet(m),
         send_mem'[m] = send_mem[m], Spares(m, Kind("UserMsg")), Spares(m, LastWrites),
         Spares(Peer(m), LastFrees)
  PROVE  Pipe(m, H)'
  <1>1. /\ Ordered(G) /\ Announcing(m, G) /\ Asking(m, G) /\ Dealing(m, G) /\ Queueing(m, G)
        /\ Streaming(m, G) /\ Flying(m, G) /\ Copying(m, G) /\ Releasing(m, G)
    BY DEF Pipe
  <1>2. G \in History /\ H \in History /\ Peer(m) \in Machine
    BY <1>1, InOrder, Peers
  <1>3. /\ G.handled \in Nat /\ G.asked \in Nat /\ G.fetched \in Nat /\ G.sent \in Nat
        /\ G.told \in Nat /\ G.freed \in Nat /\ Len(G.reads) \in Nat
    BY <1>2, Marks
  <1>4. Extends(G, H)
    BY <1>3 DEF Extends
  <1>5. /\ Lists(Out(m)', Kind("UserMsg"), G.handled, G.asked, UserMsgs(G))
        /\ Lists(Out(m)', LastWrites, G.fetched, G.sent, LastWritesOf(G))
    BY <1>1, <1>3, SparesLists DEF Asking, Flying
  <1>6. Lists(Out(Peer(m))', LastFrees, G.told, G.freed, LastFreesOf(G))
    BY <1>1, <1>2, <1>3, SparesLists DEF Releasing
  <1>7. Announcing(m, H)'
    BY <1>1, <1>2, AnnouncingKeeps DEF AppQuiet
  <1>8. Asking(m, H)'
    BY <1>1, <1>2, <1>4, <1>5, AskingKeeps
  <1>9. Dealing(m, H)'
    BY <1>1, <1>2, <1>4, DealingKeeps DEF ThreadsQuiet, PollersQuiet
  <1>10. Queueing(m, H)'
    BY <1>1, <1>2, <1>4, QueueingKeeps DEF CopyQuiet
  <1>11. Streaming(m, H)'
    <2>1. NextFetch(m, H)' = NextFetch(m, G)
      BY NextFetchKeeps DEF CopyQuiet, PollersQuiet
    <2> QED BY <1>1, <1>2, <1>4, <2>1, StreamingKeeps
  <1>12. Flying(m, H)'
    BY <1>1, <1>2, <1>4, <1>5, FlyingKeeps
  <1>13. Copying(m, H)'
    BY <1>1, <1>2, <1>4, CopyingKeeps DEF CopyQuiet, PollersQuiet
  <1>14. Releasing(m, H)'
    BY <1>1, <1>2, <1>4, <1>6, ReleasingKeeps DEF CbsQuiet, PollersQuiet
  <1>15. Ordered(H)'
    OBVIOUS
  <1> QED BY <1>7, <1>8, <1>9, <1>10, <1>11, <1>12, <1>13, <1>14, <1>15 DEF Pipe

LEMMA RecvPleaseWritePipe ==
  ASSUME TypeInv, InStep, NEW m \in Machine, RecvPleaseWrite(m)
  PROVE  InStep'
  <1> DEFINE p == Peer(m)
             wr == Head(cq[m])
             k == wr.read
             q == pending_record_queue[m]
             l == Len(cur_record_queue[m])
             r == WorkRecord(k, 0)
  <1>1. p \in Machine /\ p # m /\ Peer(p) = m
    BY Peers
  <1>2. /\ cq[m] # <<>> /\ wr.op = "PleaseWrite" /\ cq' = [cq EXCEPT ![m] = Tail(@)]
        /\ poller[m].at = "Poll" /\ poller' = [poller EXCEPT ![m] = [at |-> "PostRecv"]]
        /\ pending_record_queue' = [pending_record_queue EXCEPT ![m] = Append(@, r)]
        /\ UNCHANGED <<cur_record_queue, cur_write_handle, cur_record, sq, qp_vars, mem_vars,
                       app_vars, cb_vars>>
    BY DEF RecvPleaseWrite, OnRecv, At, AsyncWrite
  <1>3. wr \in Request
    BY <1>2, Ends DEF TypeInv, TypeOK
  <1>4. k \in Read /\ wr = PleaseWrite(k)
    BY <1>2, <1>3, Requests
  <1>5. /\ \A T : Spares(m, T)
        /\ Spares(p, LastWrites) /\ Spares(p, Kind("UserMsg")) /\ Spares(p, LastFrees)
    BY <1>2, <1>3, RecvSpares, Kinds
  <1>6. /\ poller'[p] = poller[p] /\ poller'[m].at = "PostRecv"
        /\ pending_record_queue'[p] = pending_record_queue[p] /\ q \in Seq(Record)
        /\ pending_record_queue'[m] = Append(q, r) /\ cur_record_queue[m] \in Seq(Record)
    BY <1>1, <1>2 DEF TypeInv, TypeOK
  <1>7. \A n \in Machine : /\ AppQuiet(n) /\ ThreadsQuiet(n) /\ CopyQuiet(n) /\ CbsQuiet(n)
                           /\ send_mem'[n] = send_mem[n]
    BY <1>2, DeferredOnly DEF AppQuiet, ThreadsQuiet, CopyQuiet, CbsQuiet, qp_vars, mem_vars,
                              app_vars, cb_vars
  <1>8. PollersQuiet(m) /\ PollersQuiet(p)
    BY <1>1, <1>2, <1>6 DEF PollersQuiet
  <1> HIDE DEF wr, k
  <1>9. \E H \in History : Pipe(p, H)'
    <2>1. HelperQuiet(p)
      BY <1>2, <1>6 DEF HelperQuiet
    <2> QED BY <1>1, <1>5, <1>7, <1>8, <2>1, ReaderElse
  <1>10. PICK G \in History : Pipe(m, G)
    BY DEF InStep
  <1>11. Ordered(G) /\ Wanting(m, G) /\ Writing(m, G) /\ G \in History
    BY <1>10 DEF Pipe
  <1>12. /\ G.queued \in Nat /\ G.wanted \in Nat /\ G.taken \in Nat /\ G.taken <= G.queued
         /\ Len(G.reads) \in Nat
    BY <1>11, Marks, InOrder
  <1>13. /\ G.queued < G.wanted /\ wr = PleaseWrites(G)[G.queued + 1]
         /\ Lists(Out(p)', Kind("PleaseWrite"), G.queued + 1, G.wanted, PleaseWrites(G))
    <2>1. wr \in Kind("PleaseWrite")
      BY <1>2, <1>3, Kinds
    <2>2. Lists(Out(p), Kind("PleaseWrite"), G.queued, G.wanted, PleaseWrites(G))
      BY <1>11 DEF Wanting
    <2> QED BY <1>2, <1>12, <2>1, <2>2, RecvLists DEF wr
  <1>14. G.reads[G.queued + 1] = k
    <2>1. wr = PleaseWrite(G.reads[G.queued + 1])
      BY <1>12, <1>13 DEF PleaseWrites
    <2> QED BY <2>1, RequestFields DEF k
  <1> DEFINE n == G.queued + 1
             H == [G EXCEPT !.queued = n]
  <1>15. n \in Nat
    BY <1>12
  <1> HIDE DEF n
  <1>16. /\ H \in History /\ H.queued = n
         /\ H.reads = G.reads /\ H.done = G.done /\ H.told = G.told /\ H.freed = G.freed
         /\ H.copied = G.copied /\ H.written = G.written /\ H.taken = G.taken
         /\ H.wanted = G.wanted /\ H.pushed = G.pushed /\ H.handled = G.handled
         /\ H.asked = G.asked /\ H.last = G.last /\ H.piece = G.piece /\ H.buffer = G.buffer
         /\ H.fetched = G.fetched /\ H.sent = G.sent
    BY <1>11, <1>15 DEF History
  <1> HIDE DEF H
  <1>17. Ordered(H)
    <2>1. H.taken <= H.queued /\ H.queued <= H.wanted
      BY <1>12, <1>13, <1>16 DEF n
    <2> QED BY <1>11, <1>16, <2>1 DEF Ordered
  <1>18. Wanting(m, H)'
    <2>1. PleaseWrites(H) = PleaseWrites(G)
      BY <1>16 DEF PleaseWrites
    <2> QED BY <1>13, <1>16, <2>1 DEF Wanting, n
  <1>19. Writing(m, H)'
    <2>1. r \in Record /\ r.read = k
      BY <1>4, Records
    <2> HIDE DEF r
    <2>2. /\ Len(q) \in Nat /\ l \in Nat /\ Len(pending_record_queue'[m]) = Len(q) + 1
          /\ DOMAIN q = 1 .. Len(q) /\ DOMAIN pending_record_queue'[m] = 1 .. Len(q) + 1
          /\ \A i \in DOMAIN q : pending_record_queue'[m][i] = q[i]
          /\ pending_record_queue'[m][Len(q) + 1] = r
          /\ \A i \in DOMAIN pending_record_queue'[m] : i \in DOMAIN q \/ i = Len(q) + 1
      BY <1>6, <2>1, Appended, LenProperties
    <2>3. /\ G.taken + l + Len(q) = G.queued
          /\ \A i \in DOMAIN cur_record_queue[m] : cur_record_queue[m][i].read = G.reads[G.taken + i]
          /\ \A i \in DOMAIN q : q[i].read = G.reads[G.taken + l + i]
          /\ G.taken = IF cur_write_handle[m] = "InitWriteHandle" THEN G.written ELSE G.written + 1
          /\ cur_write_handle[m] # "InitWriteHandle" => cur_record[m].read = G.reads[G.taken]
      BY <1>11 DEF Writing
    <2>4. Len(q) \in Nat /\ l \in Nat
      BY <2>2
    <2>5. G.taken + l + (Len(q) + 1) = n
      <3>1. G.taken + l + Len(q) = G.queued
        BY <2>3
      <3>2. G.taken \in Nat /\ G.queued \in Nat
        BY <1>11 DEF History
      <3> QED BY <2>4, <3>1, <3>2 DEF n
    <2>6. pending_record_queue'[m][Len(q) + 1].read = G.reads[G.taken + l + (Len(q) + 1)]
      BY <1>14, <2>1, <2>2, <2>5 DEF n
    <2>7. \A i \in DOMAIN pending_record_queue'[m] :
            pending_record_queue'[m][i].read = G.reads[G.taken + l + i]
      BY <2>2, <2>3, <2>6
    <2>8. G.taken + l + Len(pending_record_queue'[m]) = n
      BY <2>2, <2>5
    <2> QED BY <1>2, <1>16, <2>3, <2>7, <2>8 DEF Writing
  <1>20. Pipe(m, H)'
    <2>1. NextSend(m, H)' = NextSend(m, G)
      BY <1>2, <1>16, NextSendKeeps
    <2>2. G.taken <= H.taken
      BY <1>12, <1>16
    <2> QED BY <1>1, <1>5, <1>7, <1>8, <1>10, <1>16, <1>17, <1>18, <1>19, <2>1, <2>2, HelperPipe
  <1> QED BY <1>9, <1>16, <1>20, BothSources

LEMMA InitWriteHandlePipe ==
  ASSUME TypeInv, InStep, NEW m \in Machine, WriteLoop(m), InitWriteHandle(m)
  PROVE  InStep'
  <1> DEFINE p == Peer(m)
             q == cur_record_queue[m]
             r == pending_record_queue[m]
             cur == IF q = <<>> THEN r ELSE q
  <1>1. p \in Machine /\ p # m /\ Peer(p) = m
    BY Peers
  <1>2. /\ UNCHANGED <<net_vars, poller, qp_vars, mem_vars, app_vars, cb_vars>>
        /\ cur_write_handle[m] = "InitWriteHandle"
        /\ \/ UNCHANGED <<queues, cur_write_handle, cur_record>>
           \/ /\ cur # <<>>
              /\ cur_record' = [cur_record EXCEPT ![m] = Head(cur)]
              /\ cur_record_queue' = [cur_record_queue EXCEPT ![m] = Tail(cur)]
              /\ pending_record_queue' =
                   [pending_record_queue EXCEPT ![m] = IF q = <<>> THEN q ELSE @]
              /\ cur_write_handle' = [cur_write_handle EXCEPT ![m] = "RequestBuffer"]
    BY DEF WriteLoop, InitWriteHandle, SwapQueues
  <1>3. \A n \in Machine : \A T : Spares(n, T)
    BY <1>2 DEF Spares, Out, net_vars
  <1>4. \A n \in Machine : /\ AppQuiet(n) /\ ThreadsQuiet(n) /\ CopyQuiet(n) /\ CbsQuiet(n)
                           /\ PollersQuiet(n) /\ send_mem'[n] = send_mem[n]
    BY <1>2, DeferredOnly DEF AppQuiet, ThreadsQuiet, CopyQuiet, CbsQuiet, PollersQuiet, qp_vars,
                              mem_vars, app_vars, cb_vars
  <1>5. \E H \in History : Pipe(p, H)'
    <2>1. HelperQuiet(p)
      BY <1>1, <1>2 DEF HelperQuiet, queues, TypeInv, TypeOK
    <2> QED BY <1>1, <1>3, <1>4, <2>1, ReaderElse
  <1>6. CASE UNCHANGED <<queues, cur_write_handle, cur_record>>
    <2>1. HelperQuiet(m)
      BY <1>6 DEF HelperQuiet, queues
    <2>2. \E H \in History : Pipe(m, H)'
      BY <1>1, <1>3, <1>4, <2>1, ReaderElse
    <2> QED BY <1>5, <2>2, BothSources
  <1>7. CASE /\ cur # <<>>
             /\ cur_record' = [cur_record EXCEPT ![m] = Head(cur)]
             /\ cur_record_queue' = [cur_record_queue EXCEPT ![m] = Tail(cur)]
             /\ pending_record_queue' =
                  [pending_record_queue EXCEPT ![m] = IF q = <<>> THEN q ELSE @]
             /\ cur_write_handle' = [cur_write_handle EXCEPT ![m] = "RequestBuffer"]
    <2>1. q \in Seq(Record) /\ r \in Seq(Record) /\ cur \in Seq(Record)
      BY DEF TypeInv, TypeOK
    <2>2. /\ cur # <<>> /\ cur_record'[m] = Head(cur) /\ cur_record_queue'[m] = Tail(cur)
          /\ pending_record_queue'[m] = IF q = <<>> THEN <<>> ELSE r
          /\ cur_write_handle'[m] = "RequestBuffer"
      BY <1>7 DEF TypeInv, TypeOK
    <2>3. /\ \A i \in DOMAIN q : q[i].offset = 0
          /\ \A i \in DOMAIN r : r[i].offset = 0
      BY DEF TypeInv, HandlersOK
    <2>4. \A i \in DOMAIN cur : cur[i].offset = 0
      BY <2>3
    <2>5. PICK G \in History : Pipe(m, G)
      BY DEF InStep
    <2>6. Ordered(G) /\ Wanting(m, G) /\ Writing(m, G) /\ Streaming(m, G) /\ G \in History
      BY <2>5 DEF Pipe
    <2>7. /\ G.queued \in Nat /\ G.wanted \in Nat /\ G.taken \in Nat /\ G.written \in Nat
          /\ G.written <= G.taken /\ G.taken <= G.queued
      BY <2>6, Marks, InOrder
    <2>8. /\ G.taken + Len(q) + Len(r) = G.queued
          /\ \A i \in DOMAIN q : q[i].read = G.reads[G.taken + i]
          /\ \A i \in DOMAIN r : r[i].read = G.reads[G.taken + Len(q) + i]
          /\ G.taken = G.written
      BY <1>2, <2>6 DEF Writing
    <2>9. /\ Len(q) \in Nat /\ Len(r) \in Nat /\ DOMAIN q = 1 .. Len(q) /\ DOMAIN r = 1 .. Len(r)
          /\ q = <<>> => Len(q) = 0
      BY <2>1, LenProperties
    <2>10. \A i \in DOMAIN cur : cur[i].read = G.reads[G.taken + i]
      <3>1. CASE q = <<>>
        <4>1. \A i \in DOMAIN r : G.taken + Len(q) + i = G.taken + i
          BY <2>7, <2>9, <3>1
        <4> QED BY <2>8, <3>1, <4>1
      <3>2. CASE q # <<>>
        BY <2>8, <3>2
      <3> QED BY <3>1, <3>2
    <2>11. G.taken + Len(cur) + Len(pending_record_queue'[m]) = G.queued
      <3>1. CASE q = <<>>
        <4>1. Len(pending_record_queue'[m]) = 0 /\ cur = r
          BY <2>2, <3>1
        <4> QED BY <2>7, <2>8, <2>9, <3>1, <4>1
      <3>2. CASE q # <<>>
        <4>1. pending_record_queue'[m] = r /\ cur = q
          BY <2>2, <3>2
        <4> QED BY <2>8, <4>1
      <3> QED BY <3>1, <3>2
    <2>12. \A i \in DOMAIN pending_record_queue'[m] :
             pending_record_queue'[m][i].read = G.reads[G.taken + Len(cur) + i]
      <3>1. CASE q = <<>>
        BY <2>2, <3>1
      <3>2. CASE q # <<>>
        BY <2>2, <2>8, <3>2
      <3> QED BY <3>1, <3>2
    <2> HIDE DEF cur
    <2>13. /\ Len(cur) \in Nat \ {0} /\ Len(Tail(cur)) = Len(cur) - 1 /\ Head(cur) = cur[1]
           /\ DOMAIN cur = 1 .. Len(cur) /\ DOMAIN Tail(cur) = 1 .. Len(cur) - 1
           /\ \A i \in DOMAIN Tail(cur) : i + 1 \in DOMAIN cur /\ Tail(cur)[i] = cur[i + 1]
      BY <2>1, <2>2, Ends
    <2>14. pending_record_queue'[m] \in Seq(Record)
      BY <2>1, <2>2
    <2>15. /\ Len(pending_record_queue'[m]) \in Nat
           /\ DOMAIN pending_record_queue'[m] = 1 .. Len(pending_record_queue'[m])
      BY <2>14, LenProperties
    <2> DEFINE n == G.taken + 1
               H == [G EXCEPT !.taken = n]
    <2>16. n \in Nat
      BY <2>7
    <2> HIDE DEF n
    <2>17. /\ H \in History /\ H.taken = n
           /\ H.reads = G.reads /\ H.done = G.done /\ H.told = G.told /\ H.freed = G.freed
           /\ H.copied = G.copied /\ H.written = G.written /\ H.queued = G.queued
           /\ H.wanted = G.wanted /\ H.pushed = G.pushed /\ H.handled = G.handled
           /\ H.asked = G.asked /\ H.last = G.last /\ H.piece = G.piece
           /\ H.buffer = G.buffer /\ H.fetched = G.fetched /\ H.sent = G.sent
      BY <2>6, <2>16 DEF History
    <2> HIDE DEF H
    <2>18. n <= G.queued
      <3>1. Len(cur) \in Nat \ {0}
        BY <2>13
      <3>2. Len(pending_record_queue'[m]) \in Nat
        BY <2>15
      <3> QED BY <2>7, <2>11, <3>1, <3>2 DEF n
    <2>19. Ordered(H)
      <3>1. H.written <= H.taken /\ H.taken <= H.queued
        BY <2>7, <2>17, <2>18 DEF n
      <3> QED BY <2>6, <2>17, <3>1 DEF Ordered
    <2>20. Wanting(m, H)'
      <3>1. Lists(Out(p)', Kind("PleaseWrite"), G.queued, G.wanted, PleaseWrites(G))
        BY <1>1, <1>3, <2>6, <2>7, SparesLists DEF Wanting
      <3>2. PleaseWrites(H) = PleaseWrites(G)
        BY <2>17 DEF PleaseWrites
      <3> QED BY <2>17, <3>1, <3>2 DEF Wanting
    <2>21. Writing(m, H)'
      <3> DEFINE c == cur_record_queue'[m]
                 d == pending_record_queue'[m]
      <3>1. c = Tail(cur) /\ Len(c) = Len(cur) - 1 /\ Len(cur) \in Nat /\ Len(d) \in Nat
        BY <2>2, <2>13, <2>15
      <3>2. n + Len(c) + Len(d) = G.queued
        <4>1. G.taken + Len(cur) + Len(d) = G.queued
          BY <2>11
        <4>2. Len(c) = Len(cur) - 1 /\ Len(cur) \in Nat /\ Len(d) \in Nat
          BY <3>1
        <4>3. G.taken \in Nat
          BY <2>7
        <4> QED BY <4>1, <4>2, <4>3 DEF n
      <3>3. ASSUME NEW i \in DOMAIN c PROVE c[i].read = G.reads[n + i]
        <4>1. i + 1 \in DOMAIN cur /\ c[i] = cur[i + 1] /\ i \in Nat
          BY <2>13, <3>1
        <4>2. G.taken + (i + 1) = n + i
          BY <2>7, <4>1 DEF n
        <4> QED BY <2>10, <4>1, <4>2
      <3>4. ASSUME NEW i \in DOMAIN d PROVE d[i].read = G.reads[n + Len(c) + i]
        <4>1. i \in Nat
          BY <2>15
        <4>2. G.taken + Len(cur) + i = n + Len(c) + i
          <5>1. Len(c) = Len(cur) - 1 /\ Len(cur) \in Nat /\ G.taken \in Nat
            BY <2>7, <3>1
          <5> QED BY <4>1, <5>1 DEF n
        <4> QED BY <2>12, <4>2
      <3>5. cur_record'[m].read = G.reads[n]
        BY <2>2, <2>10, <2>13 DEF n
      <3>6. n = G.written + 1
        BY <2>8 DEF n
      <3> HIDE DEF c, d
      <3>7. /\ H.taken + Len(c) + Len(d) = H.queued
            /\ \A i \in DOMAIN c : c[i].read = H.reads[H.taken + i]
            /\ \A i \in DOMAIN d : d[i].read = H.reads[H.taken + Len(c) + i]
            /\ H.taken = H.written + 1 /\ cur_record'[m].read = H.reads[H.taken]
        BY <2>17, <3>2, <3>3, <3>4, <3>5, <3>6
      <3> QED BY <2>2, <3>7 DEF Writing, c, d
    <2>22. NextSend(m, H)' = NextSend(m, G)
      <3>1. NextSend(m, G) = <<G.taken + 1, 0>>
        BY <1>2 DEF NextSend
      <3>2. cur_record'[m].offset = 0
        BY <2>2, <2>4, <2>13
      <3> QED BY <2>2, <2>17, <3>1, <3>2 DEF NextSend, n
    <2>23. Pipe(m, H)'
      <3>1. G.taken <= H.taken
        BY <2>7, <2>17 DEF n
      <3> QED BY <1>1, <1>3, <1>4, <2>5, <2>17, <2>19, <2>20, <2>21, <2>22, <3>1, HelperPipe
    <2> QED BY <1>5, <2>17, <2>23, BothSources
  <1> QED BY <1>2, <1>6, <1>7
--------------------------------------------------------------------------------
(* The way back: the last FreeBufferPair of a read and the callbacks.      *)

LEMMA ReturnPipe ==
  ASSUME TypeInv, NEW s \in Machine, NEW G, NEW H, Pipe(s, G), Ordered(H),
         H.reads = G.reads, H.copied = G.copied, H.written = G.written, H.taken = G.taken, H.queued = G.queued,
         H.wanted = G.wanted, H.pushed = G.pushed, H.handled = G.handled, H.asked = G.asked,
         H.piece = G.piece, H.buffer = G.buffer, H.fetched = G.fetched, H.sent = G.sent,
         Announcing(s, H)', Releasing(s, H)',
         ThreadsQuiet(s), HelperQuiet(s), CopyQuiet(s),
         poller'[Peer(s)] = poller[Peer(s)] \/ poller[Peer(s)].at # "Dealing",
         poller'[Peer(s)].at = "ReadCb" <=> poller[Peer(s)].at = "ReadCb",
         send_mem'[s] = send_mem[s], Spares(s, Kind("UserMsg")), Spares(s, LastWrites),
         Spares(Peer(s), Kind("PleaseWrite"))
  PROVE  Pipe(s, H)'
  <1>1. /\ Ordered(G) /\ Announcing(s, G) /\ Asking(s, G) /\ Dealing(s, G) /\ Queueing(s, G)
        /\ Wanting(s, G) /\ Writing(s, G) /\ Streaming(s, G) /\ Flying(s, G) /\ Copying(s, G)
    BY DEF Pipe
  <1>2. G \in History /\ H \in History /\ Peer(s) \in Machine
    BY <1>1, InOrder, Peers
  <1>3. /\ G.handled \in Nat /\ G.asked \in Nat /\ G.fetched \in Nat /\ G.sent \in Nat
        /\ G.queued \in Nat /\ G.wanted \in Nat /\ G.taken \in Nat /\ Len(G.reads) \in Nat
    BY <1>2, Marks
  <1>4. Extends(G, H)
    BY <1>3 DEF Extends
  <1>5. /\ Lists(Out(s)', Kind("UserMsg"), G.handled, G.asked, UserMsgs(G))
        /\ Lists(Out(s)', LastWrites, G.fetched, G.sent, LastWritesOf(G))
    BY <1>1, <1>3, SparesLists DEF Asking, Flying
  <1>6. Lists(Out(Peer(s))', Kind("PleaseWrite"), G.queued, G.wanted, PleaseWrites(G))
    BY <1>1, <1>2, <1>3, SparesLists DEF Wanting
  <1>7. Asking(s, H)' /\ Wanting(s, H)'
    BY <1>1, <1>2, <1>4, <1>5, <1>6, AskingKeeps, WantingKeeps
  <1>8. Dealing(s, H)'
    BY <1>1, <1>2, <1>4, DealingKeeps DEF ThreadsQuiet
  <1>9. Queueing(s, H)'
    BY <1>1, <1>2, <1>4, QueueingKeeps DEF CopyQuiet
  <1>10. Writing(s, H)'
    BY <1>1, <1>2, <1>4, WritingKeeps DEF HelperQuiet
  <1>11. Streaming(s, H)'
    <2>1. NextFetch(s, H)' = NextFetch(s, G)
      BY NextFetchKeeps DEF CopyQuiet
    <2>2. NextSend(s, H)' = NextSend(s, G)
      BY NextSendKeeps DEF HelperQuiet
    <2> QED BY <1>1, <1>2, <1>3, <1>4, <2>1, <2>2, StreamingKeeps
  <1>12. Flying(s, H)'
    BY <1>1, <1>2, <1>4, <1>5, FlyingKeeps
  <1>13. Copying(s, H)'
    BY <1>1, <1>2, <1>4, CopyingKeeps DEF CopyQuiet
  <1>14. Ordered(H)'
    OBVIOUS
  <1> QED BY <1>7, <1>8, <1>9, <1>10, <1>11, <1>12, <1>13, <1>14 DEF Pipe

LEMMA RecvFreeBufferPairPipe ==
  ASSUME TypeInv, InStep, NEW m \in Machine, RecvFreeBufferPair(m)
  PROVE  InStep'
  <1> DEFINE p == Peer(m)
             wr == Head(cq[m])
  <1>1. p \in Machine /\ p # m /\ Peer(p) = m
    BY Peers
  <1>2. /\ cq[m] # <<>> /\ wr.op = "FreeBufferPair" /\ cq' = [cq EXCEPT ![m] = Tail(@)]
        /\ poller[m].at = "Poll"
        /\ poller' = [poller EXCEPT ![m] = [at |-> IF wr.last THEN "ReadDone" ELSE "PostRecv"]]
        /\ FreeBuffer(m, wr.buffer)
        /\ UNCHANGED <<sq, qp_vars, mem_vars, app_vars, cb_vars>>
    BY DEF RecvFreeBufferPair, OnRecv, At, AfterFree
  <1>3. wr \in Request
    BY <1>2, Ends DEF TypeInv, TypeOK
  <1>4. wr.last \in BOOLEAN
    BY <1>2, <1>3, Requests
  <1>5. /\ \A T : Spares(m, T)
        /\ Spares(p, LastWrites) /\ Spares(p, Kind("PleaseWrite")) /\ Spares(p, Kind("UserMsg"))
        /\ wr.last = FALSE => Spares(p, LastFrees)
    BY <1>2, <1>3, RecvSpares, Kinds
  <1>6. /\ poller'[p] = poller[p] /\ poller'[m].at = IF wr.last THEN "ReadDone" ELSE "PostRecv"
    BY <1>1, <1>2 DEF TypeInv, TypeOK
  <1>7. \A n \in Machine : /\ AppQuiet(n) /\ CopyQuiet(n) /\ CbsQuiet(n) /\ HelperQuiet(n)
                           /\ send_mem'[n] = send_mem[n]
    BY <1>2 DEF AppQuiet, CopyQuiet, CbsQuiet, HelperQuiet, FreeBuffer, queues, qp_vars, mem_vars,
                app_vars, cb_vars
  <1>8. \A n \in Machine : ThreadsQuiet(n)
    BY <1>2, DeferredOnly DEF ThreadsQuiet, qp_vars, app_vars
  <1> HIDE DEF wr
  <1>9. \E H \in History : Pipe(p, H)'
    <2>1. PollersQuiet(p)
      BY <1>1, <1>2, <1>6 DEF PollersQuiet
    <2> QED BY <1>1, <1>5, <1>7, <1>8, <2>1, ReaderElse
  <1>10. \E H \in History : Pipe(m, H)'
    <2>1. ASSUME wr.last = FALSE PROVE \E H \in History : Pipe(m, H)'
      <3>1. PollersQuiet(m)
        BY <1>1, <1>2, <1>6, <2>1 DEF PollersQuiet
      <3> QED BY <1>1, <1>5, <1>7, <1>8, <2>1, <3>1, ReaderElse
    <2>2. ASSUME wr.last = TRUE PROVE \E H \in History : Pipe(m, H)'
      <3>1. PICK G \in History : Pipe(m, G)
        BY DEF InStep
      <3>2. /\ Ordered(G) /\ Announcing(m, G) /\ Releasing(m, G)
        BY <3>1 DEF Pipe
      <3>3. /\ G.done \in Nat /\ G.told \in Nat /\ G.freed \in Nat /\ Len(G.reads) \in Nat
            /\ G.done <= G.told /\ G.told <= G.freed
        BY <3>2, Marks, InOrder
      <3>4. /\ G.told < G.freed
            /\ Lists(Out(p)', LastFrees, G.told + 1, G.freed, LastFreesOf(G))
        <4>1. wr \in LastFrees
          BY <1>2, <1>3, <2>2, Kinds
        <4>2. Lists(Out(p), LastFrees, G.told, G.freed, LastFreesOf(G))
          BY <3>2 DEF Releasing
        <4> QED BY <1>2, <3>3, <4>1, <4>2, RecvLists DEF wr
      <3> DEFINE n == G.told + 1
                 H == [G EXCEPT !.told = n]
      <3>5. n \in Nat
        BY <3>3
      <3> HIDE DEF n
      <3>6. /\ H \in History /\ H.told = n
            /\ H.reads = G.reads /\ H.done = G.done /\ H.freed = G.freed
            /\ H.copied = G.copied /\ H.written = G.written /\ H.taken = G.taken
            /\ H.queued = G.queued /\ H.wanted = G.wanted /\ H.pushed = G.pushed
            /\ H.handled = G.handled /\ H.asked = G.asked /\ H.last = G.last
            /\ H.piece = G.piece /\ H.buffer = G.buffer /\ H.fetched = G.fetched
            /\ H.sent = G.sent
        BY <3>1, <3>5 DEF History
      <3> HIDE DEF H
      <3>7. Ordered(H)
        <4>1. H.done <= H.told /\ H.told <= H.freed
          BY <3>3, <3>4, <3>6 DEF n
        <4> QED BY <3>2, <3>6, <4>1 DEF Ordered
      <3>8. Announcing(m, H)'
        BY <1>7, <3>1, <3>2, <3>6, AnnouncingKeeps DEF AppQuiet
      <3>9. Releasing(m, H)'
        <4>1. G.told = G.done
          BY <1>2, <3>2 DEF Releasing
        <4>2. H.told = H.done + 1 /\ poller'[m].at = "ReadDone"
          BY <1>6, <2>2, <3>6, <4>1 DEF n
        <4>3. LastFreesOf(H) = LastFreesOf(G)
          BY <3>6 DEF LastFreesOf
        <4>4. Lists(Out(p)', LastFrees, H.told, H.freed, LastFreesOf(H))
          BY <3>4, <3>6, <4>3 DEF n
        <4>5. /\ \A k \in Read : k \in read_cb' /\ Source[k] = m
                                   <=> \E a \in 1 .. H.copied : H.reads[a] = k
              /\ \A k \in Read : k \in done_cb' /\ Source[k] = m
                                   <=> \E a \in 1 .. H.done : H.reads[a] = k
              /\ H.copied = IF poller'[p].at = "PostFree" /\ poller'[p].last
                              THEN H.freed + 1 ELSE H.freed
          BY <1>2, <1>6, <3>2, <3>6 DEF Releasing, cb_vars
        <4> QED BY <4>2, <4>4, <4>5 DEF Releasing
      <3>10. Pipe(m, H)'
        BY <1>1, <1>5, <1>6, <1>7, <1>8, <3>1, <3>6, <3>7, <3>8, <3>9, ReturnPipe
      <3> QED BY <3>6, <3>10
    <2> QED BY <1>4, <2>1, <2>2
  <1> QED BY <1>9, <1>10, BothSources

\* While the callback of a read is due, its registration is there.
LEMMA Registered ==
  ASSUME CbFirst, NEW m \in Machine, NEW G, Pipe(m, G), poller[m].at = "ReadDone"
  PROVE  Len(read_done_cbs[m]) # 0
  <1>1. Ordered(G) /\ Announcing(m, G) /\ Releasing(m, G)
    BY DEF Pipe
  <1>2. /\ G.done \in Nat /\ G.told \in Nat /\ G.freed \in Nat /\ G.copied \in Nat
        /\ G.written \in Nat /\ G.taken \in Nat /\ G.queued \in Nat /\ G.wanted \in Nat
        /\ G.pushed \in Nat /\ G.handled \in Nat /\ G.asked \in Nat /\ Len(G.reads) \in Nat
    BY <1>1, Marks, InOrder
  <1>3. G.told <= G.asked /\ G.asked <= Len(G.reads)
    <2>1. /\ G.told <= G.freed /\ G.freed <= G.copied /\ G.copied <= G.written
          /\ G.written <= G.taken /\ G.taken <= G.queued /\ G.queued <= G.wanted
          /\ G.wanted <= G.pushed /\ G.pushed <= G.handled /\ G.handled <= G.asked
          /\ G.asked <= Len(G.reads)
      BY <1>1, InOrder
    <2>2. G.told <= G.written
      BY <1>2, <2>1
    <2>3. G.written <= G.wanted
      BY <1>2, <2>1
    <2> QED BY <1>2, <2>1, <2>2, <2>3
  <1>4. G.told = G.done + 1
    BY <1>1 DEF Releasing
  <1>5. G.done + Len(read_done_cbs[m]) = Len(G.reads)
    BY <1>1 DEF Announcing
  <1> QED BY <1>2, <1>3, <1>4, <1>5

LEMMA ReadDoneCbPipe ==
  ASSUME TypeInv, InStep, NEW m \in Machine, ReadDoneCb(m)
  PROVE  InStep'
  <1> DEFINE p == Peer(m)
             c == read_done_cbs[m]
             k == Head(c)
  <1>1. p \in Machine /\ p # m /\ Peer(p) = m
    BY Peers
  <1>2. ASSUME Abort(m) PROVE InStep'
    BY <1>2, UnchangedPipe DEF Abort
  <1>3. ASSUME c # <<>>, done_cb' = done_cb \cup {k},
               read_done_cbs' = [read_done_cbs EXCEPT ![m] = Tail(@)],
               poller' = [poller EXCEPT ![m] = [at |-> "PostRecv"]],
               poller[m].at = "ReadDone",
               UNCHANGED <<helper_vars, net_vars, read_queue, dealing, mem_vars, app_vars, read_cb>>
        PROVE  InStep'
    <2>1. c \in Seq(Read)
      BY DEF TypeInv, TypeOK
    <2>2. /\ k \in Read /\ k = c[1] /\ Len(c) \in Nat \ {0} /\ DOMAIN c = 1 .. Len(c)
          /\ Len(Tail(c)) = Len(c) - 1 /\ DOMAIN Tail(c) = 1 .. Len(c) - 1
          /\ \A i \in DOMAIN Tail(c) : i + 1 \in DOMAIN c /\ Tail(c)[i] = c[i + 1]
      BY <1>3, <2>1, Ends
    <2>3. /\ read_done_cbs'[m] = Tail(c) /\ read_done_cbs'[p] = read_done_cbs[p]
          /\ poller'[p] = poller[p] /\ poller'[m].at = "PostRecv"
      BY <1>1, <1>3 DEF TypeInv, TypeOK
    <2>4. \A n \in Machine : Out(n)' = Out(n)
      BY <1>3 DEF Out, net_vars
    <2>5. \A n \in Machine : \A T : Spares(n, T)
      BY <2>4 DEF Spares
    <2>6. \A n \in Machine : /\ CopyQuiet(n) /\ HelperQuiet(n) /\ send_mem'[n] = send_mem[n]
      BY <1>3 DEF CopyQuiet, HelperQuiet, helper_vars, queues, mem_vars
    <2>7. \A n \in Machine : ThreadsQuiet(n)
      BY <1>3, DeferredOnly DEF ThreadsQuiet, app_vars
    <2>8. PICK G \in History : Pipe(m, G)
      BY DEF InStep
    <2>9. Ordered(G) /\ Announcing(m, G) /\ Releasing(m, G)
      BY <2>8 DEF Pipe
    <2>10. /\ G.done \in Nat /\ G.told \in Nat /\ G.freed \in Nat /\ Len(G.reads) \in Nat
           /\ DOMAIN G.reads = 1 .. Len(G.reads) /\ G.done <= G.told /\ G.told <= G.freed
      BY <2>9, Marks, InOrder
    <2>11. G.told = G.done + 1
      BY <1>3, <2>9 DEF Releasing
    <2>12. /\ G.done + Len(c) = IF ~CbFirst /\ announcing[m] # NoRead THEN Len(G.reads) - 1
                                  ELSE Len(G.reads)
           /\ \A i \in DOMAIN c : c[i] = G.reads[G.done + i]
      BY <2>9 DEF Announcing
    <2>13. k = G.reads[G.done + 1] /\ G.done + 1 \in DOMAIN G.reads
      <3>1. 1 \in DOMAIN c
        BY <2>2
      <3>2. G.done + Len(c) <= Len(G.reads)
        BY <2>10, <2>12
      <3>3. Len(c) \in Nat /\ Len(c) > 0
        BY <2>2
      <3>4. G.done + 1 \in DOMAIN G.reads
        BY <2>10, <3>2, <3>3
      <3>5. c[1] = G.reads[G.done + 1]
        BY <2>12, <3>1
      <3> QED BY <2>2, <3>4, <3>5
    <2>14. Source[k] = m
      BY <2>2, <2>9, <2>13 DEF Announcing
    <2>15. \E H \in History : Pipe(p, H)'
      <3>1. PollersQuiet(p)
        BY <1>1, <1>3, <2>3 DEF PollersQuiet
      <3>2. CbsQuiet(p)
        BY <1>1, <1>3, <2>14 DEF CbsQuiet
      <3>3. AppQuiet(p)
        BY <1>3, <2>3 DEF AppQuiet, app_vars
      <3> QED BY <1>1, <2>5, <2>6, <2>7, <3>1, <3>2, <3>3, ReaderElse
    <2> DEFINE n == G.done + 1
               H == [G EXCEPT !.done = n]
    <2>16. n \in Nat
      BY <2>10
    <2> HIDE DEF n
    <2>17. /\ H \in History /\ H.done = n
           /\ H.reads = G.reads /\ H.told = G.told /\ H.freed = G.freed
           /\ H.copied = G.copied /\ H.written = G.written /\ H.taken = G.taken
           /\ H.queued = G.queued /\ H.wanted = G.wanted /\ H.pushed = G.pushed
           /\ H.handled = G.handled /\ H.asked = G.asked /\ H.last = G.last
           /\ H.piece = G.piece /\ H.buffer = G.buffer /\ H.fetched = G.fetched
           /\ H.sent = G.sent
      BY <2>8, <2>16 DEF History
    <2> HIDE DEF H
    <2>18. Ordered(H)
      <3>1. H.done <= H.told
        BY <2>10, <2>11, <2>17 DEF n
      <3> QED BY <2>9, <2>17, <3>1 DEF Ordered
    <2>19. Announcing(m, H)'
      <3> DEFINE d == read_done_cbs'[m]
      <3>1. d = Tail(c)
        BY <2>3
      <3>2. n + Len(d) = G.done + Len(c)
        BY <2>2, <2>10, <3>1 DEF n
      <3>3. ASSUME NEW i \in DOMAIN d PROVE d[i] = G.reads[n + i]
        <4>1. i + 1 \in DOMAIN c /\ d[i] = c[i + 1] /\ i \in Nat
          BY <2>2, <3>1
        <4>2. G.done + (i + 1) = n + i
          BY <2>10, <4>1 DEF n
        <4> QED BY <2>12, <4>1, <4>2
      <3>4. announcing'[m] = announcing[m] /\ announced' = announced
        BY <1>3 DEF app_vars
      <3>5. H.done + Len(d) = IF ~CbFirst /\ announcing'[m] # NoRead THEN Len(H.reads) - 1
                                ELSE Len(H.reads)
        BY <2>12, <2>17, <3>2, <3>4
      <3>6. \A i \in DOMAIN d : d[i] = H.reads[H.done + i]
        BY <2>17, <3>3
      <3>7. /\ \A x \in Read : x \in announced' /\ Source[x] = m
                                 <=> \E a \in DOMAIN H.reads : H.reads[a] = x
            /\ announcing'[m] # NoRead => Len(H.reads) > 0 /\ H.reads[Len(H.reads)] = announcing'[m]
            /\ Len(H.reads) = IF CbFirst /\ announcing'[m] # NoRead THEN H.asked + 1 ELSE H.asked
        BY <2>9, <2>17, <3>4 DEF Announcing
      <3> QED BY <3>5, <3>6, <3>7 DEF Announcing
    <2>20. Releasing(m, H)'
      <3>1. /\ H.told = H.done /\ poller'[m].at # "ReadDone"
        BY <2>3, <2>11, <2>17 DEF n
      <3>2. LastFreesOf(H) = LastFreesOf(G)
        BY <2>17 DEF LastFreesOf
      <3>3. Lists(Out(p)', LastFrees, H.told, H.freed, LastFreesOf(H))
        BY <1>1, <2>4, <2>9, <2>17, <3>2 DEF Releasing
      <3>4. /\ \A x \in Read : x \in read_cb' /\ Source[x] = m
                                 <=> \E a \in 1 .. H.copied : H.reads[a] = x
            /\ H.copied = IF poller'[p].at = "PostFree" /\ poller'[p].last
                            THEN H.freed + 1 ELSE H.freed
        BY <1>3, <2>3, <2>9, <2>17 DEF Releasing
      <3>5. \A x \in Read : x \in done_cb' /\ Source[x] = m
                              <=> \E a \in 1 .. H.done : H.reads[a] = x
        <4>1. \A x \in Read : x \in done_cb /\ Source[x] = m
                                <=> \E a \in 1 .. G.done : G.reads[a] = x
          BY <2>9 DEF Releasing
        <4>2. \A a : a \in 1 .. n <=> a \in 1 .. G.done \/ a = n
          BY <2>10 DEF n
        <4>3. G.reads[n] = k
          BY <2>13 DEF n
        <4>4. \A x \in Read : (\E a \in 1 .. n : G.reads[a] = x)
                               <=> (\E a \in 1 .. G.done : G.reads[a] = x) \/ x = k
          BY <4>2, <4>3
        <4>5. \A x \in Read : x \in done_cb' <=> x \in done_cb \/ x = k
          BY <1>3
        <4> QED BY <2>14, <2>17, <4>1, <4>4, <4>5
      <3> QED BY <3>1, <3>3, <3>4, <3>5 DEF Releasing
    <2>21. Pipe(m, H)'
      BY <1>1, <2>3, <2>5, <2>6, <2>7, <2>8, <2>17, <2>18, <2>19, <2>20, ReturnPipe
    <2> QED BY <2>15, <2>17, <2>21, BothSources
  <1>4. \/ Abort(m)
        \/ /\ c # <<>> /\ done_cb' = done_cb \cup {k}
           /\ read_done_cbs' = [read_done_cbs EXCEPT ![m] = Tail(@)]
           /\ poller' = [poller EXCEPT ![m] = [at |-> "PostRecv"]]
           /\ poller[m].at = "ReadDone"
           /\ UNCHANGED <<helper_vars, net_vars, read_queue, dealing, mem_vars, app_vars, read_cb>>
    BY DEF ReadDoneCb, At
  <1> QED BY <1>2, <1>3, <1>4

LEMMA PostFreeBufferPairPipe ==
  ASSUME TypeInv, InStep, NEW m \in Machine, PostFreeBufferPair(m)
  PROVE  InStep'
  <1> DEFINE p == Peer(m)
             r == FreeBufferPair(poller[m].buffer, poller[m].last)
  <1>1. p \in Machine /\ p # m /\ Peer(p) = m
    BY Peers
  <1>2. /\ poller[m].at = "PostFree" /\ Post(m, <<r>>)
        /\ poller' = [poller EXCEPT ![m] = [at |-> "PostRecv"]]
        /\ UNCHANGED <<helper_vars, cq, recv_wr, qp_vars, mem_vars, app_vars, cb_vars>>
    BY DEF PostFreeBufferPair, At
  <1>3. poller[m].buffer \in Buffer /\ poller[m].last \in BOOLEAN
    <2>1. poller[m] \in Place
      BY DEF TypeInv, TypeOK
    <2> QED BY <1>2, <2>1, Places
  <1>4. r \in Request /\ r.op = "FreeBufferPair" /\ r.last = poller[m].last
    BY <1>3, IsRequest, RequestFields
  <1>5. /\ \A T : Spares(p, T)
        /\ Spares(m, LastWrites) /\ Spares(m, Kind("UserMsg")) /\ Spares(m, Kind("PleaseWrite"))
        /\ poller[m].last = FALSE => Spares(m, LastFrees)
    BY <1>2, <1>4, PostOneSpares, Kinds
  <1>6. poller'[p] = poller[p] /\ poller'[m].at = "PostRecv"
    BY <1>1, <1>2 DEF TypeInv, TypeOK
  <1>7. \A n \in Machine : /\ AppQuiet(n) /\ CopyQuiet(n) /\ CbsQuiet(n) /\ HelperQuiet(n)
                           /\ send_mem'[n] = send_mem[n]
    BY <1>2 DEF AppQuiet, CopyQuiet, CbsQuiet, HelperQuiet, helper_vars, queues, qp_vars, mem_vars,
                app_vars, cb_vars
  <1>8. \A n \in Machine : ThreadsQuiet(n)
    BY <1>2, DeferredOnly DEF ThreadsQuiet, qp_vars, app_vars
  <1> HIDE DEF r
  <1>9. \E H \in History : Pipe(m, H)'
    <2>1. PollersQuiet(m)
      BY <1>1, <1>2, <1>6 DEF PollersQuiet
    <2> QED BY <1>1, <1>5, <1>7, <1>8, <2>1, ReaderElse
  <1> HIDE DEF p
  <1>10. \E H \in History : Pipe(p, H)'
    <2>1. ASSUME poller[m].last = FALSE PROVE \E H \in History : Pipe(p, H)'
      <3>1. PollersQuiet(p)
        BY <1>1, <1>2, <1>6, <2>1 DEF PollersQuiet
      <3> QED BY <1>1, <1>5, <1>7, <1>8, <2>1, <3>1, ReaderElse
    <2>2. ASSUME poller[m].last = TRUE PROVE \E H \in History : Pipe(p, H)'
      <3>1. PICK G \in History : Pipe(p, G)
        BY <1>1 DEF InStep
      <3>2. /\ Ordered(G) /\ Announcing(p, G) /\ Releasing(p, G)
        BY <3>1 DEF Pipe
      <3>3. /\ G.told \in Nat /\ G.freed \in Nat /\ G.copied \in Nat /\ Len(G.reads) \in Nat
            /\ G.told <= G.freed
        BY <3>2, Marks, InOrder
      <3>4. G.copied = G.freed + 1
        BY <1>1, <1>2, <2>2, <3>2 DEF Releasing
      <3>14. PICK b \in Nat : b = poller[m].buffer
        BY <1>3, BufferNumbers
      <3> DEFINE n == G.freed + 1
                 L == [G.last EXCEPT ![n] = b]
                 H == [G EXCEPT !.freed = n, !.last = L]
      <3>5. n \in Nat
        BY <3>3
      <3> HIDE DEF n
      <3>12. L \in [Nat -> Nat] /\ L[n] = b /\ \A a \in Nat : a # n => L[a] = G.last[a]
        <4>1. G.last \in [Nat -> Nat]
          BY <3>2, Marks, InOrder
        <4> QED BY <3>5, <3>14, <4>1
      <3> HIDE DEF L
      <3>6. /\ H \in History /\ H.freed = n
            /\ H.reads = G.reads /\ H.done = G.done /\ H.told = G.told
            /\ H.copied = G.copied /\ H.written = G.written /\ H.taken = G.taken
            /\ H.queued = G.queued /\ H.wanted = G.wanted /\ H.pushed = G.pushed
            /\ H.handled = G.handled /\ H.asked = G.asked /\ H.piece = G.piece
            /\ H.buffer = G.buffer /\ H.fetched = G.fetched /\ H.sent = G.sent
        <4>1. G \in History /\ L \in [Nat -> Nat]
          BY <3>1, <3>12
        <4> QED BY <3>5, <4>1 DEF History
      <3>13. H.last = L
        BY <3>1 DEF History
      <3> HIDE DEF H
      <3>7. Ordered(H)
        <4>1. H.told <= H.freed /\ H.freed <= H.copied
          BY <3>3, <3>4, <3>6 DEF n
        <4> QED BY <3>2, <3>6, <4>1 DEF Ordered
      <3>8. Announcing(p, H)'
        BY <1>1, <1>7, <3>1, <3>2, <3>6, AnnouncingKeeps DEF AppQuiet
      <3>9. Lists(Out(m)', LastFrees, G.told, n, LastFreesOf(H))
        <4>1. Lists(Out(m), LastFrees, G.told, G.freed, LastFreesOf(G))
          BY <1>1, <3>2 DEF Releasing
        <4>2. \A a \in G.told + 1 .. G.freed : a \in Nat /\ a # n
          BY <3>3 DEF n
        <4>3. \A a \in G.told + 1 .. G.freed : LastFreesOf(H)[a] = LastFreesOf(G)[a]
          BY <3>12, <3>13, <4>2 DEF LastFreesOf
        <4>4. Lists(Out(m), LastFrees, G.told, G.freed, LastFreesOf(H))
          BY <3>3, <4>1, <4>3, ListsSame
        <4>5. r \in LastFrees
          BY <1>4, <2>2, Kinds
        <4>6. LastFreesOf(H)[n] = r
          BY <2>2, <3>5, <3>12, <3>13, <3>14 DEF LastFreesOf, r
        <4> QED BY <1>2, <1>4, <3>3, <4>4, <4>5, <4>6, PostOneLists DEF n
      <3>10. Releasing(p, H)'
        <4>1. /\ \A k \in Read : k \in read_cb' /\ Source[k] = p
                                   <=> \E a \in 1 .. H.copied : H.reads[a] = k
              /\ \A k \in Read : k \in done_cb' /\ Source[k] = p
                                   <=> \E a \in 1 .. H.done : H.reads[a] = k
              /\ H.told = IF poller'[p].at = "ReadDone" THEN H.done + 1 ELSE H.done
          BY <1>2, <1>6, <3>2, <3>6 DEF Releasing, cb_vars
        <4>2. H.copied = H.freed /\ poller'[m].at # "PostFree"
          BY <1>6, <3>4, <3>6 DEF n
        <4> QED BY <1>1, <3>6, <3>9, <4>1, <4>2 DEF Releasing
      <3>11. Pipe(p, H)'
        BY <1>1, <1>2, <1>5, <1>6, <1>7, <1>8, <3>1, <3>6, <3>7, <3>8, <3>10, ReturnPipe
      <3> QED BY <3>6, <3>11
    <2> QED BY <1>3, <2>1, <2>2
  <1> QED BY <1>9, <1>10, BothSources DEF p
--------------------------------------------------------------------------------
(* The reader copies: a piece comes in, a read is finished.                *)

LEMMA CopyPipe ==
  ASSUME TypeInv, NEW s \in Machine, NEW G, NEW H, Pipe(s, G), Ordered(H),
         H.reads = G.reads, H.done = G.done, H.told = G.told, H.freed = G.freed, H.written = G.written,
         H.taken = G.taken, H.queued = G.queued, H.wanted = G.wanted, H.pushed = G.pushed, H.handled = G.handled, H.asked = G.asked,
         H.last = G.last, H.piece = G.piece, H.buffer = G.buffer, H.sent = G.sent,
         Queueing(s, H)', Streaming(s, H)', Flying(s, H)', Copying(s, H)', Releasing(s, H)',
         AppQuiet(s), ThreadsQuiet(s), HelperQuiet(s),
         poller'[Peer(s)] = poller[Peer(s)] \/ poller[Peer(s)].at # "Dealing",
         Spares(s, Kind("UserMsg")), Spares(Peer(s), Kind("PleaseWrite"))
  PROVE  Pipe(s, H)'
  <1>1. /\ Ordered(G) /\ Announcing(s, G) /\ Asking(s, G) /\ Dealing(s, G) /\ Wanting(s, G)
        /\ Writing(s, G)
    BY DEF Pipe
  <1>2. G \in History /\ H \in History /\ Peer(s) \in Machine
    BY <1>1, InOrder, Peers
  <1>3. /\ G.handled \in Nat /\ G.asked \in Nat /\ G.queued \in Nat /\ G.wanted \in Nat
        /\ Len(G.reads) \in Nat
    BY <1>2, Marks
  <1>4. Extends(G, H)
    BY <1>3 DEF Extends
  <1>5. /\ Lists(Out(s)', Kind("UserMsg"), G.handled, G.asked, UserMsgs(G))
        /\ Lists(Out(Peer(s))', Kind("PleaseWrite"), G.queued, G.wanted, PleaseWrites(G))
    BY <1>1, <1>2, <1>3, SparesLists DEF Asking, Wanting
  <1>6. Asking(s, H)' /\ Wanting(s, H)'
    BY <1>1, <1>2, <1>4, <1>5, AskingKeeps, WantingKeeps
  <1>7. Announcing(s, H)'
    BY <1>1, <1>2, AnnouncingKeeps DEF AppQuiet
  <1>8. Dealing(s, H)'
    BY <1>1, <1>2, <1>4, DealingKeeps DEF ThreadsQuiet
  <1>9. Writing(s, H)'
    BY <1>1, <1>2, <1>4, WritingKeeps DEF HelperQuiet
  <1>10. Ordered(H)'
    OBVIOUS
  <1> QED BY <1>6, <1>7, <1>8, <1>9, <1>10 DEF Pipe

\* A read is not finished before its last piece is written.
LEMMA CopiedWritten ==
  ASSUME NEW s \in Machine, NEW G, Pipe(s, G), poller[Peer(s)].at = "ReadCb"
  PROVE  G.copied + 1 <= G.written
  <1>1. Ordered(G) /\ Writing(s, G) /\ Streaming(s, G)
    BY DEF Pipe
  <1>2. /\ G.copied \in Nat /\ G.written \in Nat /\ G.taken \in Nat /\ G.fetched \in Nat
        /\ G.sent \in Nat /\ G.fetched <= G.sent
    BY <1>1, Marks, InOrder
  <1>3. G.piece[G.fetched + 1] = <<G.copied + 2, 0>>
    BY <1>1 DEF Streaming, NextFetch
  <1>4. G.piece[G.sent + 1] = NextSend(s, G)
    BY <1>1 DEF Streaming
  <1>5. G.piece[G.fetched + 1][1] <= G.piece[G.sent + 1][1]
    <2>1. \A i, j \in G.fetched + 1 .. G.sent + 1 : i <= j => G.piece[i][1] <= G.piece[j][1]
      BY <1>1 DEF Streaming
    <2>2. G.fetched + 1 \in G.fetched + 1 .. G.sent + 1 /\ G.sent + 1 \in G.fetched + 1 .. G.sent + 1
          /\ G.fetched + 1 <= G.sent + 1
      BY <1>2
    <2> QED BY <2>1, <2>2
  <1>6. NextSend(s, G)[1] = G.written + 1
    <2>1. G.taken = IF cur_write_handle[s] = "InitWriteHandle" THEN G.written ELSE G.written + 1
      BY <1>1 DEF Writing
    <2> QED BY <2>1 DEF NextSend
  <1>7. G.copied + 2 <= G.written + 1
    BY <1>3, <1>4, <1>5, <1>6
  <1> QED BY <1>2, <1>7

LEMMA ReadCbPipe ==
  ASSUME TypeInv, InStep, NoEmptyRead, NEW m \in Machine, ReadCb(m)
  PROVE  InStep'
  <1> DEFINE p == Peer(m)
             q == read_queue[m]
             d == read_queue'[m]
             k == Head(q).read
  <1>1. p \in Machine /\ p # m /\ Peer(p) = m
    BY Peers
  <1>2. /\ poller[m].at = "ReadCb" /\ read_cb' = read_cb \cup {k}
        /\ read_queue' = [read_queue EXCEPT ![m] = Tail(@)]
        /\ poller' = [poller EXCEPT ![m].at = "PostFree"]
        /\ UNCHANGED <<helper_vars, net_vars, read_done_cbs, dealing, mem_vars, app_vars, done_cb>>
    BY DEF ReadCb, At
  <1>3. q \in Seq(Record) /\ q # <<>> /\ poller[m].last
    <2>1. HandlersOK(m)
      BY DEF TypeInv
    <2> QED BY <1>2, <2>1 DEF HandlersOK, TypeInv, TypeOK
  <1>4. /\ Head(q) \in Record /\ Head(q) = q[1] /\ Len(q) \in Nat \ {0} /\ DOMAIN q = 1 .. Len(q)
        /\ Len(Tail(q)) = Len(q) - 1 /\ DOMAIN Tail(q) = 1 .. Len(q) - 1
        /\ \A i \in DOMAIN Tail(q) : i + 1 \in DOMAIN q /\ Tail(q)[i] = q[i + 1]
        /\ Tail(q) \in Seq(Record)
    BY <1>3, Ends
  <1>5. k \in Read /\ k = q[1].read /\ q[1].offset \in Nat /\ 1 \in DOMAIN q
    BY <1>4, Records
  <1>6. d = Tail(q) /\ read_queue'[p] = read_queue[p]
    BY <1>1, <1>2 DEF TypeInv, TypeOK
  <1>7. /\ poller'[p] = poller[p] /\ poller'[m].at = "PostFree" /\ poller'[m].last = TRUE
    <2>1. poller[m] \in Place /\ poller'[m] = [poller[m] EXCEPT !.at = "PostFree"]
          /\ poller'[p] = poller[p]
      BY <1>1, <1>2 DEF TypeInv, TypeOK
    <2>2. /\ poller[m].last \in BOOLEAN
          /\ poller'[m] = [at |-> "PostFree", buffer |-> poller[m].buffer, last |-> poller[m].last]
      BY <1>2, <2>1, Places
    <2> QED BY <1>3, <2>1, <2>2
  <1>8. \A n \in Machine : Out(n)' = Out(n)
    BY <1>2 DEF Out, net_vars
  <1>9. \A n \in Machine : \A T : Spares(n, T)
    BY <1>8 DEF Spares
  <1>10. \A n \in Machine : /\ AppQuiet(n) /\ HelperQuiet(n) /\ send_mem'[n] = send_mem[n]
    BY <1>2 DEF AppQuiet, HelperQuiet, helper_vars, queues, mem_vars, app_vars
  <1>11. \A n \in Machine : ThreadsQuiet(n)
    BY <1>2, DeferredOnly DEF ThreadsQuiet, app_vars
  <1> HIDE DEF k
  <1>12. PICK G \in History : Pipe(p, G)
    BY <1>1 DEF InStep
  <1>13. /\ Ordered(G) /\ Announcing(p, G) /\ Queueing(p, G) /\ Streaming(p, G) /\ Flying(p, G)
         /\ Copying(p, G) /\ Releasing(p, G)
    BY <1>12 DEF Pipe
  <1>14. /\ G.done \in Nat /\ G.told \in Nat /\ G.freed \in Nat /\ G.copied \in Nat
         /\ G.written \in Nat /\ G.pushed \in Nat /\ G.freed <= G.copied /\ Len(G.reads) \in Nat
         /\ DOMAIN G.reads = 1 .. Len(G.reads) /\ G.taken \in Nat /\ G.fetched \in Nat
         /\ G.sent \in Nat
    BY <1>13, Marks, InOrder
  <1>15. G.copied + 1 <= G.written
    BY <1>1, <1>2, <1>12, CopiedWritten
  <1>16. /\ G.copied + Len(q) = G.pushed
         /\ \A i \in DOMAIN q : q[i].read = G.reads[G.copied + i]
    BY <1>1, <1>13 DEF Queueing
  <1>17. k = G.reads[G.copied + 1] /\ G.copied + 1 \in DOMAIN G.reads
    <2>1. G.pushed <= Len(G.reads)
      <3>1. /\ G.pushed <= G.handled /\ G.handled <= G.asked /\ G.asked <= Len(G.reads)
            /\ G.handled \in Nat /\ G.asked \in Nat
        BY <1>13, Marks, InOrder
      <3> QED BY <1>14, <3>1
    <2>2. Len(q) \in Nat /\ Len(q) > 0 /\ G.copied + Len(q) = G.pushed
      BY <1>4, <1>16
    <2>3. G.copied + 1 \in DOMAIN G.reads
      BY <1>14, <2>1, <2>2
    <2> QED BY <1>5, <1>16, <2>3
  <1>18. Source[k] = p
    BY <1>5, <1>13, <1>17 DEF Announcing
  <1>19. \E H \in History : Pipe(m, H)'
    <2>1. PollersQuiet(m)
      BY <1>1, <1>2, <1>7 DEF PollersQuiet
    <2>2. CbsQuiet(m)
      BY <1>1, <1>2, <1>18 DEF CbsQuiet
    <2>3. CopyQuiet(m)
      BY <1>2, <1>6 DEF CopyQuiet, mem_vars
    <2> QED BY <1>1, <1>9, <1>10, <1>11, <2>1, <2>2, <2>3, ReaderElse
  <1> HIDE DEF p
  <1> DEFINE n == G.copied + 1
             H == [G EXCEPT !.copied = n]
  <1>20. n \in Nat
    BY <1>14
  <1> HIDE DEF n
  <1>21. /\ H \in History /\ H.copied = n
         /\ H.reads = G.reads /\ H.done = G.done /\ H.told = G.told /\ H.freed = G.freed
         /\ H.written = G.written /\ H.taken = G.taken /\ H.queued = G.queued
         /\ H.wanted = G.wanted /\ H.pushed = G.pushed /\ H.handled = G.handled
         /\ H.asked = G.asked /\ H.last = G.last /\ H.piece = G.piece /\ H.buffer = G.buffer
         /\ H.fetched = G.fetched /\ H.sent = G.sent
    BY <1>12, <1>20 DEF History
  <1> HIDE DEF H
  <1>22. Ordered(H)
    <2>1. H.freed <= H.copied /\ H.copied <= H.written
      BY <1>14, <1>15, <1>21 DEF n
    <2> QED BY <1>13, <1>21, <2>1 DEF Ordered
  <1>23. Extends(G, H)
    BY <1>14, <1>21 DEF Extends
  <1>24. Queueing(p, H)'
    <2>1. n + Len(d) = G.pushed
      <3>1. Len(d) = Len(q) - 1 /\ Len(q) \in Nat /\ G.copied + Len(q) = G.pushed
        BY <1>4, <1>6, <1>16
      <3> QED BY <1>14, <3>1 DEF n
    <2>2. ASSUME NEW i \in DOMAIN d PROVE d[i].read = G.reads[n + i]
      <3>1. i + 1 \in DOMAIN q /\ d[i] = q[i + 1] /\ i \in Nat
        BY <1>4, <1>6
      <3>2. G.copied + (i + 1) = n + i
        <4>1. G.copied \in Nat /\ i \in Nat
          BY <1>14, <3>1
        <4> QED BY <4>1 DEF n
      <3> QED BY <1>16, <3>1, <3>2
    <2>3. H.copied + Len(d) = H.pushed /\ \A i \in DOMAIN d : d[i].read = H.reads[H.copied + i]
      BY <1>21, <2>1, <2>2
    <2> QED BY <1>1, <2>3 DEF Queueing
  <1>25. \A i \in DOMAIN d : d[i].offset = 0
    <2>1. \A i \in DOMAIN q : i > 1 => q[i].offset = 0
      BY <1>1, <1>13 DEF Copying
    <2>2. \A i \in DOMAIN d : i + 1 \in DOMAIN q /\ d[i] = q[i + 1] /\ i + 1 > 1
      BY <1>4, <1>6
    <2> QED BY <2>1, <2>2
  <1>26. d # <<>> => 1 \in DOMAIN d /\ d[1] \in Record
    <2>1. d \in Seq(Record)
      BY <1>4, <1>6
    <2> HIDE DEF d
    <2> QED BY <2>1, Ends
  <1>27. Streaming(p, H)'
    <2>1. NextFetch(p, G) = <<G.copied + 2, 0>>
      BY <1>1, <1>2 DEF NextFetch
    <2>2. NextFetch(p, H)' = <<n + 1, 0>>
      <3>1. d # <<>> => d[1].offset = 0
        BY <1>25, <1>26
      <3> QED BY <1>1, <1>7, <1>21, <3>1 DEF NextFetch
    <2>3. NextFetch(p, H)' = NextFetch(p, G)
      <3>1. n + 1 = G.copied + 2
        BY <1>14 DEF n
      <3> QED BY <2>1, <2>2, <3>1
    <2>4. NextSend(p, H)' = NextSend(p, G)
      BY <1>1, <1>10, <1>21, NextSendKeeps DEF HelperQuiet
    <2>5. G.taken <= H.taken
      BY <1>14, <1>21
    <2> QED BY <1>1, <1>12, <1>13, <1>21, <1>23, <2>3, <2>4, <2>5, StreamingKeeps
  <1>28. Flying(p, H)'
    <2>1. Lists(Out(p)', LastWrites, G.fetched, G.sent, LastWritesOf(G))
      BY <1>1, <1>8, <1>13 DEF Flying
    <2> QED BY <1>1, <1>10, <1>12, <1>13, <1>21, <1>23, <2>1, FlyingKeeps
  <1>29. Copying(p, H)'
    <2>1. dst' = dst
      BY <1>2 DEF mem_vars
    <2>2. /\ \A a \in 1 .. G.copied : \A i \in DOMAIN dst[G.reads[a]] :
               dst[G.reads[a]][i] = <<G.reads[a], i>>
          /\ \A i \in 0 .. q[1].offset - 1 : dst[q[1].read][i] = <<q[1].read, i>>
          /\ ~(q[1].offset < Bytes[q[1].read])
      BY <1>1, <1>2, <1>3, <1>13 DEF Copying
    <2>3. \A i \in DOMAIN dst[k] : dst[k][i] = <<k, i>>
      <3>1. DOMAIN dst[k] = 0 .. Bytes[k] - 1 /\ Bytes[k] \in Nat
        BY <1>5, WriteHelperAssumption DEF TypeInv, TypeOK
      <3>2. Bytes[k] <= q[1].offset
        BY <1>5, <2>2, <3>1
      <3>3. \A i \in DOMAIN dst[k] : i \in 0 .. q[1].offset - 1
        BY <1>5, <3>1, <3>2
      <3> QED BY <1>5, <2>2, <3>3
    <2>4. ASSUME NEW a \in 1 .. n
          PROVE  \A i \in DOMAIN dst[G.reads[a]] : dst[G.reads[a]][i] = <<G.reads[a], i>>
      <3>1. a \in 1 .. G.copied \/ a = n
        BY <1>14 DEF n
      <3>2. G.reads[n] = k
        BY <1>17 DEF n
      <3> QED BY <2>2, <2>3, <3>1, <3>2
    <2>5. d # <<>> => /\ d[1].offset = 0 /\ d[1].offset < Bytes[d[1].read]
      <3>1. d # <<>> => d[1].offset = 0 /\ d[1].read \in Read
        BY <1>25, <1>26, Records
      <3> QED BY <3>1 DEF NoEmptyRead
    <2>6. d # <<>> => \A i \in 0 .. d[1].offset - 1 : FALSE
      BY <2>5
    <2>7. \A a \in 1 .. H.copied : \A i \in DOMAIN dst'[H.reads[a]] :
            dst'[H.reads[a]][i] = <<H.reads[a], i>>
      BY <1>21, <2>1, <2>4
    <2>8. poller'[m].at # "ReadCb"
      BY <1>7
    <2> HIDE DEF d
    <2> QED BY <1>1, <1>25, <2>5, <2>6, <2>7, <2>8 DEF Copying, d
  <1>30. Releasing(p, H)'
    <2>1. G.copied = G.freed
      BY <1>1, <1>2, <1>13 DEF Releasing
    <2>2. H.copied = H.freed + 1
      BY <1>21, <2>1 DEF n
    <2>3. Lists(Out(m)', LastFrees, H.told, H.freed, LastFreesOf(H))
      <3>1. LastFreesOf(H) = LastFreesOf(G)
        BY <1>21 DEF LastFreesOf
      <3> QED BY <1>1, <1>8, <1>13, <1>21, <3>1 DEF Releasing
    <2>4. \A x \in Read : x \in read_cb' /\ Source[x] = p
                            <=> \E a \in 1 .. H.copied : H.reads[a] = x
      <3>1. \A x \in Read : x \in read_cb /\ Source[x] = p
                              <=> \E a \in 1 .. G.copied : G.reads[a] = x
        BY <1>13 DEF Releasing
      <3>2. \A a : a \in 1 .. n <=> a \in 1 .. G.copied \/ a = n
        BY <1>14 DEF n
      <3>3. G.reads[n] = k
        BY <1>17 DEF n
      <3>4. \A x \in Read : (\E a \in 1 .. n : G.reads[a] = x)
                             <=> (\E a \in 1 .. G.copied : G.reads[a] = x) \/ x = k
        BY <3>2, <3>3
      <3>5. \A x \in Read : x \in read_cb' <=> x \in read_cb \/ x = k
        BY <1>2
      <3> QED BY <1>18, <1>21, <3>1, <3>4, <3>5
    <2>5. /\ \A x \in Read : x \in done_cb' /\ Source[x] = p
                               <=> \E a \in 1 .. H.done : H.reads[a] = x
          /\ H.told = IF poller'[p].at = "ReadDone" THEN H.done + 1 ELSE H.done
      BY <1>2, <1>7, <1>13, <1>21 DEF Releasing
    <2> QED BY <1>1, <1>7, <2>2, <2>3, <2>4, <2>5 DEF Releasing
  <1>31. poller[m].at # "Dealing"
    BY <1>2
  <1>32. Pipe(p, H)'
    BY <1>1, <1>9, <1>10, <1>11, <1>12, <1>21, <1>22, <1>24, <1>27, <1>28, <1>29, <1>30, <1>31,
       CopyPipe
  <1>33. \E F \in History : Pipe(Peer(m), F)'
    BY <1>21, <1>32 DEF p
  <1> QED BY <1>19, <1>33, BothSources
--------------------------------------------------------------------------------
(* The source writes a piece.                                              *)

\* No piece under way is in the buffer that is being filled.
LEMMA OtherBuffers ==
  ASSUME TypeInv, HeldOnce, NEW m \in Machine, NEW b \in Buffer, Held(m, b), NEW G, Ordered(G),
         Flying(m, G), NEW j \in G.fetched + 1 .. G.sent
  PROVE  G.buffer[j] \in Buffer /\ G.buffer[j] # b
  <1> DEFINE r == LastWritesOf(G)[j]
             c == cq[Peer(m)]
             q == sq[m]
  <1>1. Peer(m) \in Machine /\ c \in Seq(Request) /\ q \in Seq(Request)
    BY Peers DEF TypeInv, TypeOK
  <1>2. G.fetched \in Nat /\ G.sent \in Nat /\ j \in Nat
    BY Marks, InOrder
  <1>3. \E x \in DOMAIN Out(m) : Out(m)[x] = r /\ r \in LastWrites
    <2>1. PICK f \in [G.fetched + 1 .. G.sent -> DOMAIN Out(m)] :
            /\ \A a \in G.fetched + 1 .. G.sent : Out(m)[f[a]] = LastWritesOf(G)[a]
            /\ \A i \in DOMAIN Out(m) :
                 Out(m)[i] \in LastWrites <=> \E a \in G.fetched + 1 .. G.sent : f[a] = i
      BY DEF Flying, Lists
    <2>2. f[j] \in DOMAIN Out(m) /\ Out(m)[f[j]] = r
      BY <2>1
    <2> QED BY <2>1, <2>2
  <1>4. r.op = "RdmaWrite" /\ r.buffer = G.buffer[j] /\ r.imm = G.buffer[j] /\ r \in Request
    BY <1>2, <1>3, RequestFields DEF LastWritesOf, LastWrites
  <1>5. G.buffer[j] \in Buffer
    BY <1>4, Requests
  <1> HIDE DEF r
  <1>6. ASSUME G.buffer[j] = b PROVE FALSE
    <2>1. r \in Writes(b)
      BY <1>4, <1>6 DEF Writes
    <2>2. Where(q, Writes(b)) = {} /\ Where(c, Writes(b)) = {}
      BY HeldNotUnderWay
    <2>3. PICK x \in DOMAIN Out(m) : Out(m)[x] = r
      BY <1>3
    <2> HIDE DEF c, q
    <2>4. Out(m) = c \o q
      BY DEF Out, c, q
    <2>5. /\ Len(c) \in Nat /\ Len(q) \in Nat /\ DOMAIN c = 1 .. Len(c) /\ DOMAIN q = 1 .. Len(q)
          /\ DOMAIN Out(m) = 1 .. Len(c) + Len(q)
          /\ \A i \in 1 .. Len(c) + Len(q) :
               Out(m)[i] = IF i <= Len(c) THEN c[i] ELSE q[i - Len(c)]
      <3>1. /\ c \o q \in Seq(Request) /\ Len(c \o q) = Len(c) + Len(q)
            /\ \A i \in 1 .. Len(c) + Len(q) :
                 (c \o q)[i] = IF i <= Len(c) THEN c[i] ELSE q[i - Len(c)]
        BY <1>1, ConcatProperties
      <3> QED BY <1>1, <2>4, <3>1, LenProperties
    <2>6. \/ x \in DOMAIN c /\ c[x] = r
          \/ x - Len(c) \in DOMAIN q /\ q[x - Len(c)] = r
      <3>1. x \in 1 .. Len(c) + Len(q) /\ Len(c) \in Nat /\ Len(q) \in Nat
        BY <2>5
      <3>2. x \in 1 .. Len(c) \/ (x - Len(c) \in 1 .. Len(q) /\ ~(x <= Len(c)))
        BY <3>1
      <3>3. x \in 1 .. Len(c) => x <= Len(c)
        BY <3>1
      <3> QED BY <2>3, <2>5, <3>2, <3>3
    <2> QED BY <2>1, <2>2, <2>6 DEF Where
  <1> QED BY <1>5, <1>6

\* The history with one piece more.
WithPiece(G, j, w, t, b) ==
  [G EXCEPT !.sent = j, !.written = w, !.piece = [@ EXCEPT ![j + 1] = t],
            !.buffer = [@ EXCEPT ![j] = b]]

AddsPiece(G, H, j, w, t, b) ==
  /\ H \in History
  /\ H.sent = j /\ H.written = w /\ H.piece[j + 1] = t /\ H.buffer[j] = b
  /\ \A i \in Nat : i # j + 1 => H.piece[i] = G.piece[i]
  /\ \A i \in Nat : i # j => H.buffer[i] = G.buffer[i]
  /\ H.reads = G.reads /\ H.done = G.done /\ H.told = G.told /\ H.freed = G.freed
  /\ H.copied = G.copied /\ H.taken = G.taken /\ H.queued = G.queued /\ H.wanted = G.wanted
  /\ H.pushed = G.pushed /\ H.handled = G.handled /\ H.asked = G.asked /\ H.last = G.last
  /\ H.fetched = G.fetched

LEMMA NewPiece ==
  ASSUME NEW G \in History, NEW j \in Nat, NEW w \in Nat, NEW t \in Nat \X Nat, NEW b \in Nat
  PROVE  AddsPiece(G, WithPiece(G, j, w, t, b), j, w, t, b)
  <1> DEFINE P == [G.piece EXCEPT ![j + 1] = t]
             B == [G.buffer EXCEPT ![j] = b]
             H == WithPiece(G, j, w, t, b)
  <1>1. /\ P \in [Nat -> Nat \X Nat] /\ P[j + 1] = t
        /\ \A i \in Nat : i # j + 1 => P[i] = G.piece[i]
    <2>1. G.piece \in [Nat -> Nat \X Nat]
      BY Marks
    <2>2. j + 1 \in Nat
      OBVIOUS
    <2> QED BY <2>1, <2>2
  <1>2. B \in [Nat -> Nat] /\ B[j] = b /\ \A i \in Nat : i # j => B[i] = G.buffer[i]
    <2>1. G.buffer \in [Nat -> Nat]
      BY Marks
    <2> QED BY <2>1
  <1>3. H = [G EXCEPT !.sent = j, !.written = w, !.piece = P, !.buffer = B]
    BY DEF WithPiece
  <1> HIDE DEF P, B, H
  <1>4. /\ H \in History /\ H.sent = j /\ H.written = w /\ H.piece = P /\ H.buffer = B
        /\ H.reads = G.reads /\ H.done = G.done /\ H.told = G.told /\ H.freed = G.freed
        /\ H.copied = G.copied /\ H.taken = G.taken /\ H.queued = G.queued
        /\ H.wanted = G.wanted /\ H.pushed = G.pushed /\ H.handled = G.handled
        /\ H.asked = G.asked /\ H.last = G.last /\ H.fetched = G.fetched
    <2>1. P \in [Nat -> Nat \X Nat] /\ B \in [Nat -> Nat]
      BY <1>1, <1>2
    <2> QED BY <1>3, <2>1 DEF History
  <1>5. /\ H.piece[j + 1] = t /\ \A i \in Nat : i # j + 1 => H.piece[i] = G.piece[i]
    BY <1>1, <1>4
  <1>6. /\ H.buffer[j] = b /\ \A i \in Nat : i # j => H.buffer[i] = G.buffer[i]
    BY <1>2, <1>4
  <1>7. AddsPiece(G, H, j, w, t, b)
    BY <1>4, <1>5, <1>6 DEF AddsPiece
  <1> QED BY <1>7 DEF H

LEMMA PieceStreams ==
  ASSUME NEW m \in Machine, NEW G, NEW H \in History, Ordered(G), Streaming(m, G),
         H.sent = G.sent + 1, H.fetched = G.fetched, H.taken = G.taken, H.reads = G.reads,
         \A i \in Nat : i # G.sent + 2 => H.piece[i] = G.piece[i],
         H.piece[G.sent + 2] = PieceAfter(G, G.sent + 1),
         G.piece[G.sent + 1][1] = G.taken, G.taken > 0,
         G.piece[G.sent + 1][2] < Bytes[G.reads[G.taken]],
         NextFetch(m, H)' = NextFetch(m, G), NextSend(m, H)' = PieceAfter(G, G.sent + 1)
  PROVE  Streaming(m, H)'
  <1>1. G.fetched \in Nat /\ G.sent \in Nat /\ G.taken \in Nat /\ G.fetched <= G.sent
    BY Marks, InOrder
  <1>2. /\ G.piece[G.fetched + 1] = NextFetch(m, G)
        /\ \A j \in G.fetched + 1 .. G.sent :
             /\ G.piece[j][1] \in 1 .. G.taken
             /\ G.piece[j][2] < Bytes[G.reads[G.piece[j][1]]]
             /\ G.piece[j + 1] = PieceAfter(G, j)
        /\ \A i, j \in G.fetched + 1 .. G.sent + 1 : i <= j => G.piece[i][1] <= G.piece[j][1]
    BY DEF Streaming
  <1>3. \A j \in G.fetched + 1 .. G.sent + 1 :
          /\ j \in Nat /\ H.piece[j] = G.piece[j]
          /\ j \in G.fetched + 1 .. G.sent \/ j = G.sent + 1
          /\ j \in G.fetched + 1 .. G.sent => j + 1 \in G.fetched + 1 .. G.sent + 1
    <2>1. \A j \in G.fetched + 1 .. G.sent + 1 :
            /\ j \in Nat /\ j # G.sent + 2
            /\ j \in G.fetched + 1 .. G.sent \/ j = G.sent + 1
            /\ j \in G.fetched + 1 .. G.sent => j + 1 \in G.fetched + 1 .. G.sent + 1
      BY <1>1
    <2> QED BY <2>1
  <1>4. \A j \in G.fetched + 1 .. G.sent + 1 : PieceAfter(H, j) = PieceAfter(G, j)
    BY <1>3 DEF PieceAfter, PieceRecord
  <1>5. G.fetched + 1 \in G.fetched + 1 .. G.sent + 1 /\ G.sent + 1 \in G.fetched + 1 .. G.sent + 1
        /\ H.sent + 1 = G.sent + 2 /\ G.sent + 1 + 1 = G.sent + 2
    BY <1>1
  <1>6. H.piece[H.fetched + 1] = NextFetch(m, H)' /\ H.piece[H.sent + 1] = NextSend(m, H)'
    BY <1>2, <1>3, <1>5
  <1>7. ASSUME NEW j \in H.fetched + 1 .. H.sent
        PROVE  /\ H.piece[j][1] \in 1 .. H.taken
               /\ H.piece[j][2] < Bytes[H.reads[H.piece[j][1]]]
               /\ H.piece[j + 1] = PieceAfter(H, j)
    <2>1. j \in G.fetched + 1 .. G.sent + 1
      OBVIOUS
    <2>2. ASSUME j \in G.fetched + 1 .. G.sent PROVE H.piece[j + 1] = G.piece[j + 1]
      BY <1>3, <2>1, <2>2
    <2>3. G.taken \in 1 .. G.taken
      BY <1>1
    <2> QED BY <1>2, <1>3, <1>4, <1>5, <2>1, <2>2, <2>3
  <1>8. G.taken <= H.piece[G.sent + 2][1]
    BY <1>1 DEF PieceAfter
  <1>9. ASSUME NEW i \in H.fetched + 1 .. H.sent + 1, NEW j \in H.fetched + 1 .. H.sent + 1, i <= j
        PROVE  H.piece[i][1] <= H.piece[j][1]
    <2>1. i \in Nat /\ j \in Nat
      BY <1>1, <1>9
    <2>2. H.piece[i][1] \in Nat /\ H.piece[j][1] \in Nat
      <3>1. H.piece \in [Nat -> Nat \X Nat]
        BY Marks
      <3> QED BY <2>1, <3>1
    <2>3. \/ j \in G.fetched + 1 .. G.sent + 1 /\ i \in G.fetched + 1 .. G.sent + 1
          \/ j = G.sent + 2 /\ i = j
          \/ j = G.sent + 2 /\ i \in G.fetched + 1 .. G.sent + 1 /\ i <= G.sent + 1
      BY <1>1, <1>9
    <2>4. ASSUME j \in G.fetched + 1 .. G.sent + 1, i \in G.fetched + 1 .. G.sent + 1
          PROVE  H.piece[i][1] <= H.piece[j][1]
      BY <1>2, <1>3, <1>9, <2>4
    <2>5. ASSUME j = G.sent + 2, i \in G.fetched + 1 .. G.sent + 1, i <= G.sent + 1
          PROVE  H.piece[i][1] <= H.piece[j][1]
      <3>1. H.piece[i][1] <= G.taken
        BY <1>2, <1>3, <1>5, <2>5
      <3> QED BY <1>1, <1>8, <2>2, <2>5, <3>1
    <2> QED BY <2>2, <2>3, <2>4, <2>5
  <1> QED BY <1>6, <1>7, <1>9 DEF Streaming

LEMMA PieceFlies ==
  ASSUME TypeInv, NEW m \in Machine, NEW G, NEW H \in History, Ordered(G), Streaming(m, G),
         Flying(m, G), H.sent = G.sent + 1, H.fetched = G.fetched, H.reads = G.reads,
         \A i \in Nat : /\ i # G.sent + 2 => H.piece[i] = G.piece[i]
                        /\ i # G.sent + 1 => H.buffer[i] = G.buffer[i],
         NEW b \in Buffer, H.buffer[G.sent + 1] = b,
         NEW r, r = PieceRecord(G, G.sent + 1), NEW n \in 1 .. BufferBytes, n = TransferBytes(r),
         Post(m, PieceRequests(b, n)), UNCHANGED cq,
         \A j \in G.fetched + 1 .. G.sent : G.buffer[j] \in Buffer /\ G.buffer[j] # b,
         \A c \in Buffer : c # b => send_mem'[m][c] = send_mem[m][c],
         \A i \in 0 .. n - 1 : send_mem'[m][b][i] = <<r.read, r.offset + i>>
  PROVE  Flying(m, H)'
  <1> DEFINE e == PieceRequests(b, n)
  <1>1. G.fetched \in Nat /\ G.sent \in Nat /\ G.fetched <= G.sent
    BY Marks, InOrder
  <1>2. n \in 0 .. BufferBytes /\ n \in Nat /\ n > 0
    BY WriteHelperAssumption
  <1>3. /\ e \in Seq(Request) /\ Len(e) = n
        /\ \A i \in 1 .. n : e[i] = RdmaWrite(b, i - 1, IF i = n THEN b ELSE IntMax)
    BY <1>2, Elements
  <1> HIDE DEF e
  <1>4. /\ \A i \in 1 .. Len(e) - 1 : e[i] \notin LastWrites
        /\ e[Len(e)] = RdmaWrite(b, n - 1, b) /\ e[Len(e)] \in LastWrites
    <2>1. \A i \in 1 .. Len(e) - 1 : i \in 1 .. n /\ i # n
      BY <1>2, <1>3
    <2>2. \A i \in 1 .. Len(e) - 1 : e[i].imm = IntMax
      BY <1>3, <2>1, RequestFields
    <2>3. n \in 1 .. n /\ Len(e) = n
      BY <1>2, <1>3
    <2>4. e[Len(e)] = RdmaWrite(b, n - 1, b)
      BY <1>3, <2>3
    <2>5. n \in 1 .. Len(e) /\ e[n] \in Request
      <3>1. n \in DOMAIN e /\ DOMAIN e = 1 .. Len(e)
        BY <1>3, <2>3, LenProperties
      <3>2. e \in [DOMAIN e -> Request]
        BY <1>3
      <3> QED BY <3>1, <3>2
    <2>6. e[Len(e)] \in LastWrites
      BY <2>3, <2>4, <2>5, BufferNumbers, RequestFields DEF LastWrites
    <2> QED BY <2>2, <2>4, <2>6 DEF LastWrites
  <1>5. Out(m)' = Out(m) \o e /\ Out(m) \in Seq(Request)
    BY <1>3, OutPost, OutType DEF e
  <1>6. \A j \in G.fetched + 1 .. G.sent :
          j \in Nat /\ PieceRecord(H, j) = PieceRecord(G, j) /\ H.buffer[j] = G.buffer[j]
    <2>1. \A j \in G.fetched + 1 .. G.sent : j \in Nat /\ j # G.sent + 2 /\ j # G.sent + 1
      BY <1>1
    <2> QED BY <2>1 DEF PieceRecord
  <1>7. PieceRecord(H, G.sent + 1) = r /\ G.sent + 1 \in Nat
    <2>1. G.sent + 1 \in Nat /\ G.sent + 1 # G.sent + 2
      BY <1>1
    <2> QED BY <2>1 DEF PieceRecord
  <1>8. Lists(Out(m)', LastWrites, G.fetched, G.sent + 1, LastWritesOf(H))
    <2>1. \A j \in G.fetched + 1 .. G.sent : LastWritesOf(H)[j] = LastWritesOf(G)[j]
      BY <1>6 DEF LastWritesOf
    <2>2. Lists(Out(m), LastWrites, G.fetched, G.sent, LastWritesOf(G))
      BY DEF Flying
    <2>3. Lists(Out(m), LastWrites, G.fetched, G.sent, LastWritesOf(H))
      BY <1>1, <2>1, <2>2, ListsSame
    <2>4. LastWritesOf(H)[G.sent + 1] = e[Len(e)]
      BY <1>4, <1>7 DEF LastWritesOf
    <2>5. Len(e) > 0
      BY <1>2, <1>3
    <2>6. /\ Out(m) \in Seq(Request) /\ e \in Seq(Request) /\ G.fetched \in Nat /\ G.sent \in Nat
          /\ G.fetched <= G.sent /\ Out(m)' = Out(m) \o e
          /\ \A i \in 1 .. Len(e) - 1 : e[i] \notin LastWrites
          /\ e[Len(e)] \in LastWrites
      BY <1>1, <1>3, <1>4, <1>5
    <2>7. Lists(Out(m) \o e, LastWrites, G.fetched, G.sent + 1, LastWritesOf(H))
      BY <2>3, <2>4, <2>5, <2>6, ListsNext
    <2> QED BY <2>6, <2>7
  <1>9. ASSUME NEW j \in H.fetched + 1 .. H.sent,
               NEW i \in 0 .. TransferBytes(PieceRecord(H, j)) - 1
        PROVE  send_mem'[m][H.buffer[j]][i]
                 = <<PieceRecord(H, j).read, PieceRecord(H, j).offset + i>>
    <2>1. j \in G.fetched + 1 .. G.sent \/ j = G.sent + 1
      BY <1>1
    <2>2. ASSUME j \in G.fetched + 1 .. G.sent
          PROVE  send_mem'[m][H.buffer[j]][i]
                   = <<PieceRecord(H, j).read, PieceRecord(H, j).offset + i>>
      <3>1. /\ H.buffer[j] = G.buffer[j] /\ PieceRecord(H, j) = PieceRecord(G, j)
            /\ i \in 0 .. TransferBytes(PieceRecord(G, j)) - 1
        BY <1>6, <1>9, <2>2
      <3>2. send_mem'[m][G.buffer[j]] = send_mem[m][G.buffer[j]]
        BY <2>2
      <3>3. send_mem[m][G.buffer[j]][i] = <<PieceRecord(G, j).read, PieceRecord(G, j).offset + i>>
        BY <2>2, <3>1 DEF Flying
      <3> QED BY <3>1, <3>2, <3>3
    <2>3. ASSUME j = G.sent + 1
          PROVE  send_mem'[m][H.buffer[j]][i]
                   = <<PieceRecord(H, j).read, PieceRecord(H, j).offset + i>>
      BY <1>7, <1>9, <2>3
    <2> QED BY <2>1, <2>2, <2>3
  <1>10. Lists(Out(m)', LastWrites, H.fetched, H.sent, LastWritesOf(H))
    BY <1>8
  <1> QED BY <1>9, <1>10 DEF Flying

LEMMA WritePiecePipe ==
  ASSUME TypeInv, HeldOnce, InStep, NoEmptyRead, NEW m \in Machine, WritePiece(m)
  PROVE  InStep'
  <1> DEFINE p == Peer(m)
             r == cur_record[m]
             n == TransferBytes(r)
             c == buffer_id[m]
             rest == [r EXCEPT !.offset = @ + n]
             e == PieceRequests(c, n)
  <1>1. p \in Machine /\ p # m /\ Peer(p) = m
    BY Peers
  <1>2. /\ cur_write_handle[m] = "DoCurWrite"
        /\ cur_record' = [cur_record EXCEPT ![m] = rest]
        /\ cur_write_handle' = [cur_write_handle EXCEPT ![m] = HandleAfter(rest)]
        /\ send_mem' = [send_mem EXCEPT ![m][c] =
                          [i \in Unit |-> IF i < n THEN SourceData(r.read, r.offset + i)
                                                   ELSE @[i]]]
        /\ Post(m, e)
        /\ UNCHANGED <<pending_record_queue, cur_record_queue, cq, poller, qp_vars, dst, app_vars,
                       cb_vars>>
    BY DEF WritePiece, DoCurWrite, SgeCount, queues
  <1>3. /\ r \in Record /\ r.offset <= Bytes[r.read] /\ c \in Buffer
        /\ r.offset < Bytes[r.read]
    BY <1>2 DEF TypeInv, HandlersOK
  <1>4. /\ n \in 0 .. BufferBytes /\ n \in Nat /\ n \in 1 .. BufferBytes /\ r.read \in Read
        /\ r.offset \in Nat /\ Bytes[r.read] \in Nat
    <2>1. n \in 0 .. BufferBytes /\ n > 0
      BY <1>3, TransferBounds
    <2>2. r.read \in Read /\ r.offset \in Nat
      BY <1>3, Records
    <2> HIDE DEF r, n
    <2>3. n \in Nat /\ n \in 1 .. BufferBytes
      BY <2>1, WriteHelperAssumption
    <2> QED BY <2>1, <2>2, <2>3, WriteHelperAssumption
  <1>5. rest \in Record /\ rest.offset = r.offset + n /\ rest.read = r.read
    BY <1>3, <1>4 DEF Record
  <1>6. /\ cur_record'[m] = rest /\ cur_record'[p] = cur_record[p]
        /\ cur_write_handle'[m] = IF r.offset + n < Bytes[r.read] THEN "RequestBuffer"
                                    ELSE "InitWriteHandle"
        /\ cur_write_handle'[p] = cur_write_handle[p]
    <2>1. /\ cur_record'[m] = rest /\ cur_record'[p] = cur_record[p]
          /\ cur_write_handle'[m] = HandleAfter(rest)
          /\ cur_write_handle'[p] = cur_write_handle[p]
      <3> HIDE DEF rest
      <3> QED BY <1>1, <1>2 DEF TypeInv, TypeOK
    <2> QED BY <1>5, <2>1 DEF HandleAfter
  <1>7. /\ e \in Seq(Request) /\ Len(e) = n
        /\ \A i \in 1 .. n : e[i] = RdmaWrite(c, i - 1, IF i = n THEN c ELSE IntMax)
    BY <1>3, <1>4, Elements
  <1>8. /\ send_mem'[p] = send_mem[p]
        /\ \A x \in Buffer : x # c => send_mem'[m][x] = send_mem[m][x]
        /\ \A i \in 0 .. n - 1 : send_mem'[m][c][i] = SourceData(r.read, r.offset + i)
    <2> HIDE DEF n, r, c
    <2>1. /\ send_mem'[p] = send_mem[p]
          /\ \A x \in Buffer : x # c => send_mem'[m][x] = send_mem[m][x]
      BY <1>1, <1>2, <1>3 DEF TypeInv, TypeOK
    <2>2. send_mem'[m][c] = [i \in Unit |-> IF i < n THEN SourceData(r.read, r.offset + i)
                                                     ELSE send_mem[m][c][i]]
      BY <1>1, <1>2, <1>3 DEF TypeInv, TypeOK
    <2>3. \A i \in 0 .. n - 1 : i \in Unit /\ i < n
      BY <1>4, WriteHelperAssumption DEF Unit
    <2> QED BY <2>1, <2>2, <2>3
  <1> HIDE DEF n, e
  <1>9. /\ \A T : Spares(p, T)
        /\ Spares(m, Kind("UserMsg")) /\ Spares(m, Kind("PleaseWrite")) /\ Spares(m, LastFrees)
    <2>1. \A i \in 1 .. Len(e) : e[i].op = "RdmaWrite"
      BY <1>7, RequestFields
    <2>2. \A i \in 1 .. Len(e) : /\ e[i] \notin Kind("UserMsg") /\ e[i] \notin Kind("PleaseWrite")
                                 /\ e[i] \notin LastFrees
      BY <2>1 DEF Kind, LastFrees
    <2> QED BY <1>2, <1>7, <2>2, PostSpares
  <1>10. \A s \in Machine : AppQuiet(s) /\ CopyQuiet(s) /\ CbsQuiet(s) /\ PollersQuiet(s)
    BY <1>2 DEF AppQuiet, CopyQuiet, CbsQuiet, PollersQuiet, qp_vars, app_vars, cb_vars
  <1>11. \A s \in Machine : ThreadsQuiet(s)
    BY <1>2, DeferredOnly DEF ThreadsQuiet, qp_vars, app_vars
  <1>12. \E H \in History : Pipe(p, H)'
    <2>1. HelperQuiet(p)
      BY <1>2, <1>6 DEF HelperQuiet
    <2> QED BY <1>1, <1>8, <1>9, <1>10, <1>11, <2>1, ReaderElse
  <1>13. PICK G \in History : Pipe(m, G)
    BY DEF InStep
  <1>14. /\ Ordered(G) /\ Announcing(m, G) /\ Asking(m, G) /\ Dealing(m, G) /\ Queueing(m, G)
         /\ Wanting(m, G) /\ Writing(m, G) /\ Streaming(m, G) /\ Flying(m, G) /\ Copying(m, G)
         /\ Releasing(m, G)
    BY <1>13 DEF Pipe
  <1>15. /\ G.written \in Nat /\ G.taken \in Nat /\ G.sent \in Nat /\ G.fetched \in Nat
         /\ G.queued \in Nat /\ G.fetched <= G.sent /\ G.taken <= G.queued /\ G.copied \in Nat
         /\ G.copied <= G.written /\ Len(G.reads) \in Nat
    BY <1>14, Marks, InOrder
  <1>16. G.taken = G.written + 1 /\ r.read = G.reads[G.taken]
    BY <1>2, <1>14 DEF Writing
  <1>17. G.piece[G.sent + 1] = <<G.taken, r.offset>>
    BY <1>2, <1>14 DEF Streaming, NextSend
  <1>18. PieceRecord(G, G.sent + 1) = r
    <2>1. r = WorkRecord(r.read, r.offset)
      BY <1>3, Records
    <2> QED BY <1>16, <1>17, <2>1 DEF PieceRecord
  <1>19. PieceAfter(G, G.sent + 1)
           = IF r.offset + n >= Bytes[r.read] THEN <<G.taken + 1, 0>> ELSE <<G.taken, r.offset + n>>
    BY <1>17, <1>18 DEF PieceAfter, n
  <1>20. PICK b \in Buffer : b = c
    BY <1>3
  <1>21. PICK w \in {G.written, G.taken} :
           w = IF cur_write_handle'[m] = "InitWriteHandle" THEN G.taken ELSE G.written
    OBVIOUS
  <1>22. w \in Nat /\ PieceAfter(G, G.sent + 1) \in Nat \X Nat /\ b \in Nat /\ G.sent + 1 \in Nat
    <2>1. w \in Nat
      BY <1>15, <1>21
    <2>2. G.taken + 1 \in Nat /\ r.offset + n \in Nat
      BY <1>4, <1>15
    <2>3. PieceAfter(G, G.sent + 1) \in Nat \X Nat
      BY <1>15, <1>19, <2>2
    <2> QED BY <1>15, <2>1, <2>3, BufferNumbers
  <1> DEFINE t == PieceAfter(G, G.sent + 1)
  <1> HIDE DEF t
  <1> DEFINE H == WithPiece(G, G.sent + 1, w, t, b)
  <1>23. /\ H \in History
         /\ H.sent = G.sent + 1 /\ H.written = w /\ H.piece[(G.sent + 1) + 1] = t
         /\ H.buffer[G.sent + 1] = b
         /\ \A i \in Nat : /\ i # (G.sent + 1) + 1 => H.piece[i] = G.piece[i]
                           /\ i # G.sent + 1 => H.buffer[i] = G.buffer[i]
         /\ H.reads = G.reads /\ H.done = G.done /\ H.told = G.told /\ H.freed = G.freed
         /\ H.copied = G.copied /\ H.taken = G.taken /\ H.queued = G.queued
         /\ H.wanted = G.wanted /\ H.pushed = G.pushed /\ H.handled = G.handled
         /\ H.asked = G.asked /\ H.last = G.last /\ H.fetched = G.fetched
    <2> DEFINE j == G.sent + 1
    <2>1. G \in History /\ j \in Nat /\ w \in Nat /\ t \in Nat \X Nat /\ b \in Nat
      BY <1>13, <1>22 DEF t
    <2>2. H = WithPiece(G, j, w, t, b)
      OBVIOUS
    <2> HIDE DEF j, H
    <2>3. AddsPiece(G, H, j, w, t, b)
      BY <2>1, <2>2, NewPiece
    <2> QED BY <2>3 DEF AddsPiece, j
  <1> HIDE DEF H
  <1>24. (G.sent + 1) + 1 = G.sent + 2
    BY <1>15
  <1>25. Extends(G, H)
    BY <1>15, <1>23 DEF Extends
  <1>26. Ordered(H)
    <2>1. H.copied <= H.written /\ H.written <= H.taken
      <3>1. w = G.written \/ w = G.taken
        BY <1>21
      <3>2. G.copied <= w /\ w <= G.taken
        BY <1>15, <1>16, <3>1
      <3> QED BY <1>23, <3>2
    <2>2. H.fetched <= H.sent
      BY <1>15, <1>23
    <2> QED BY <1>14, <1>23, <2>1, <2>2 DEF Ordered
  <1>27. Writing(m, H)'
    <2>1. cur_record'[m].read = H.reads[H.taken]
      BY <1>5, <1>6, <1>16, <1>23
    <2>2. H.taken = IF cur_write_handle'[m] = "InitWriteHandle" THEN H.written ELSE H.written + 1
      BY <1>16, <1>21, <1>23
    <2>3. /\ G.taken + Len(cur_record_queue[m]) + Len(pending_record_queue[m]) = G.queued
          /\ \A i \in DOMAIN cur_record_queue[m] : cur_record_queue[m][i].read = G.reads[G.taken + i]
          /\ \A i \in DOMAIN pending_record_queue[m] :
               pending_record_queue[m][i].read = G.reads[G.taken + Len(cur_record_queue[m]) + i]
      BY <1>14 DEF Writing
    <2> QED BY <1>2, <1>23, <2>1, <2>2, <2>3 DEF Writing
  <1>28. NextSend(m, H)' = t
    <2>1. ASSUME r.offset + n >= Bytes[r.read] PROVE NextSend(m, H)' = t
      <3>1. cur_write_handle'[m] = "InitWriteHandle" /\ t = <<G.taken + 1, 0>>
        BY <1>4, <1>6, <1>19, <2>1 DEF t
      <3> QED BY <1>23, <3>1 DEF NextSend
    <2>2. ASSUME r.offset + n < Bytes[r.read] PROVE NextSend(m, H)' = t
      <3>1. cur_write_handle'[m] = "RequestBuffer" /\ t = <<G.taken, r.offset + n>>
        BY <1>4, <1>6, <1>19, <2>2 DEF t
      <3> QED BY <1>5, <1>6, <1>23, <3>1 DEF NextSend
    <2> QED BY <1>4, <2>1, <2>2
  <1>29. Streaming(m, H)'
    <2>1. NextFetch(m, H)' = NextFetch(m, G)
      BY <1>2, <1>23, NextFetchKeeps DEF qp_vars
    <2>2. G.piece[G.sent + 1][1] = G.taken /\ G.piece[G.sent + 1][2] = r.offset /\ G.taken > 0
      BY <1>15, <1>16, <1>17
    <2>3. G.piece[G.sent + 1][2] < Bytes[G.reads[G.taken]]
      BY <1>3, <1>16, <2>2
    <2>4. /\ H.sent = G.sent + 1 /\ H.fetched = G.fetched /\ H.taken = G.taken /\ H.reads = G.reads
          /\ \A i \in Nat : i # G.sent + 2 => H.piece[i] = G.piece[i]
          /\ H.piece[G.sent + 2] = PieceAfter(G, G.sent + 1)
      BY <1>23, <1>24 DEF t
    <2>5. NextSend(m, H)' = PieceAfter(G, G.sent + 1)
      BY <1>28 DEF t
    <2> QED BY <1>14, <2>1, <2>2, <2>3, <2>4, <2>5, <1>23, PieceStreams
  <1>30. r.read \notin done_cb
    <2>1. \A k \in Read : k \in done_cb /\ Source[k] = m <=> \E a \in 1 .. G.done : G.reads[a] = k
      BY <1>14 DEF Releasing
    <2>2. /\ G.done \in Nat /\ G.done < G.taken /\ G.taken <= Len(G.reads)
      <3>1. /\ G.done \in Nat /\ G.told \in Nat /\ G.freed \in Nat
            /\ G.done <= G.told /\ G.told <= G.freed /\ G.freed <= G.copied
        BY <1>14, Marks, InOrder
      <3>2. /\ G.wanted \in Nat /\ G.pushed \in Nat /\ G.handled \in Nat /\ G.asked \in Nat
            /\ G.queued <= G.wanted /\ G.wanted <= G.pushed /\ G.pushed <= G.handled
            /\ G.handled <= G.asked /\ G.asked <= Len(G.reads)
        BY <1>14, Marks, InOrder
      <3>3. G.done < G.taken
        BY <1>15, <1>16, <3>1
      <3>4. G.taken <= Len(G.reads)
        BY <1>15, <3>2
      <3> QED BY <3>1, <3>3, <3>4
    <2>3. G.taken \in DOMAIN G.reads /\ \A a \in 1 .. G.done : a \in DOMAIN G.reads /\ a # G.taken
      <3>1. DOMAIN G.reads = 1 .. Len(G.reads)
        BY <1>14, Marks, InOrder
      <3> QED BY <1>15, <1>16, <2>2, <3>1
    <2>4. \A a, x \in DOMAIN G.reads : G.reads[a] = G.reads[x] => a = x
      BY <1>14, InOrder
    <2>5. Source[r.read] = m
      BY <1>4, <1>14, <1>16, <2>3 DEF Announcing
    <2> QED BY <1>4, <1>16, <2>1, <2>3, <2>4, <2>5
  <1>31. Flying(m, H)'
    <2>1. \A i \in 0 .. n - 1 : send_mem'[m][b][i] = <<r.read, r.offset + i>>
      BY <1>8, <1>20, <1>30 DEF SourceData
    <2>2. \A x \in Buffer : x # b => send_mem'[m][x] = send_mem[m][x]
      BY <1>8, <1>20
    <2>3. Post(m, PieceRequests(b, n)) /\ UNCHANGED cq /\ n = TransferBytes(r)
          /\ n \in 1 .. BufferBytes
      BY <1>2, <1>4, <1>20 DEF e, n
    <2>4. \A j \in G.fetched + 1 .. G.sent : G.buffer[j] \in Buffer /\ G.buffer[j] # b
      BY <1>2, <1>14, <1>20, OtherBuffers DEF Held
    <2>5. /\ H.sent = G.sent + 1 /\ H.fetched = G.fetched /\ H.reads = G.reads
          /\ \A i \in Nat : /\ i # G.sent + 2 => H.piece[i] = G.piece[i]
                            /\ i # G.sent + 1 => H.buffer[i] = G.buffer[i]
          /\ H.buffer[G.sent + 1] = b
      BY <1>23, <1>24
    <2> QED BY <1>14, <1>18, <2>1, <2>2, <2>3, <2>4, <2>5, <1>23, PieceFlies
  <1>32. Announcing(m, H)' /\ Dealing(m, H)' /\ Queueing(m, H)' /\ Copying(m, H)'
    BY <1>1, <1>10, <1>11, <1>13, <1>14, <1>23, <1>25, AnnouncingKeeps, DealingKeeps,
       QueueingKeeps, CopyingKeeps DEF AppQuiet, ThreadsQuiet, CopyQuiet, PollersQuiet
  <1>33. Asking(m, H)' /\ Wanting(m, H)' /\ Releasing(m, H)'
    <2>1. /\ G.handled \in Nat /\ G.asked \in Nat /\ G.wanted \in Nat /\ G.told \in Nat
          /\ G.freed \in Nat
      BY <1>14, Marks, InOrder
    <2>2. /\ Lists(Out(m)', Kind("UserMsg"), G.handled, G.asked, UserMsgs(G))
          /\ Lists(Out(p)', Kind("PleaseWrite"), G.queued, G.wanted, PleaseWrites(G))
          /\ Lists(Out(p)', LastFrees, G.told, G.freed, LastFreesOf(G))
      BY <1>1, <1>9, <1>14, <1>15, <2>1, SparesLists DEF Asking, Wanting, Releasing
    <2> QED BY <1>10, <1>13, <1>14, <1>23, <1>25, <2>2, AskingKeeps, WantingKeeps, ReleasingKeeps
            DEF CbsQuiet, PollersQuiet
  <1>34. Ordered(H)'
    BY <1>26
  <1>35. Pipe(m, H)'
    BY <1>27, <1>29, <1>31, <1>32, <1>33, <1>34 DEF Pipe
  <1> QED BY <1>12, <1>23, <1>35, BothSources

\* The piece whose last element is the oldest completion is the next of the
\* oldest read in progress, and its bytes are in the receive buffer.
LEMMA NextPiece ==
  ASSUME TypeInv, Arriving, NEW m \in Machine, NEW G, Pipe(Peer(m), G), poller[m].at = "Poll",
         cq[m] # <<>>, Head(cq[m]).op = "RdmaWrite", Head(cq[m]).imm # IntMax
  PROVE  LET j == G.fetched + 1
             q == read_queue[m]
         IN /\ G.fetched < G.sent /\ q # <<>>
            /\ Head(cq[m]) = LastWritesOf(G)[j]
            /\ G.piece[j] = <<G.copied + 1, q[1].offset>> /\ PieceRecord(G, j) = q[1]
            /\ \A i \in 0 .. TransferBytes(q[1]) - 1 :
                 recv_mem[m][Head(cq[m]).imm][i] = <<q[1].read, q[1].offset + i>>
  <1> DEFINE p == Peer(m)
             c == cq[m]
             wr == Head(c)
             b == wr.imm
             j == G.fetched + 1
             q == read_queue[m]
  <1>1. p \in Machine /\ Peer(p) = m
    BY Peers
  <1>2. /\ Ordered(G) /\ Queueing(p, G) /\ Streaming(p, G) /\ Flying(p, G)
    BY DEF Pipe
  <1>3. /\ G.fetched \in Nat /\ G.sent \in Nat /\ G.copied \in Nat /\ G.taken \in Nat
        /\ G.pushed \in Nat /\ j \in Nat /\ G.taken <= G.pushed
    <2>1. /\ G.fetched \in Nat /\ G.sent \in Nat /\ G.copied \in Nat /\ G.taken \in Nat
          /\ G.queued \in Nat /\ G.wanted \in Nat /\ G.pushed \in Nat
          /\ G.taken <= G.queued /\ G.queued <= G.wanted /\ G.wanted <= G.pushed
      BY <1>2, Marks, InOrder
    <2> QED BY <2>1
  <1>4. wr \in Request /\ wr \in LastWrites /\ c[1] = wr /\ 1 \in DOMAIN c /\ b \in Buffer
    <2>1. c \in Seq(Request)
      BY DEF TypeInv, TypeOK
    <2>2. wr \in Request /\ c[1] = wr /\ 1 \in DOMAIN c
      BY <2>1, Ends
    <2> QED BY <2>2, Kinds, Requests
  <1>5. G.fetched < G.sent /\ wr = LastWritesOf(G)[j]
    <2>1. c \in Seq(Request) /\ sq[p] \in Seq(Request)
      BY <1>1 DEF TypeInv, TypeOK
    <2>2. Out(p) # <<>> /\ Head(Out(p)) = wr /\ Out(p) \in Seq(Request)
      <3>1. Out(p) = c \o sq[p] /\ Out(p) \in Seq(Request)
        BY <1>1, OutType DEF Out
      <3>2. c # <<>>
        OBVIOUS
      <3> HIDE DEF p, c
      <3>3. c \o sq[p] # <<>> /\ Head(c \o sq[p]) = Head(c)
        BY <2>1, <3>2, ConcatHeadTail
      <3> QED BY <3>1, <3>3
    <2>3. Lists(Out(p), LastWrites, G.fetched, G.sent, LastWritesOf(G))
      BY <1>2 DEF Flying
    <2> QED BY <1>3, <1>4, <2>2, <2>3, ListsTail
  <1>6. /\ wr.block = TransferBytes(PieceRecord(G, j)) - 1 /\ b = G.buffer[j]
    BY <1>3, <1>5, RequestFields DEF LastWritesOf
  <1> HIDE DEF b, wr, c
  <1>7. j \in G.fetched + 1 .. G.sent
    BY <1>3, <1>5
  <1>8. q # <<>>
    <2>1. G.piece[j][1] \in 1 .. G.taken /\ G.piece[j] = NextFetch(p, G)
      BY <1>2, <1>7 DEF Streaming
    <2>2. ASSUME q = <<>> PROVE FALSE
      <3>1. G.piece[j][1] = G.copied + 1
        BY <1>1, <2>1, <2>2 DEF NextFetch
      <3>2. G.copied = G.pushed
        <4>1. Len(q) = 0 /\ G.copied + Len(q) = G.pushed
          BY <1>1, <1>2, <2>2 DEF Queueing
        <4> QED BY <1>3, <4>1
      <3> QED BY <1>3, <2>1, <3>1, <3>2
    <2> QED BY <2>2
  <1>9. G.piece[j] = <<G.copied + 1, q[1].offset>>
    BY <1>1, <1>2, <1>8 DEF Streaming, NextFetch
  <1>10. PieceRecord(G, j) = q[1]
    <2>1. q \in Seq(Record)
      BY DEF TypeInv, TypeOK
    <2>2. q[1] \in Record /\ 1 \in DOMAIN q
      BY <1>8, <2>1, Ends
    <2>3. q[1].read = G.reads[G.copied + 1]
      BY <1>1, <1>2, <2>2 DEF Queueing
    <2>4. PieceRecord(G, j) = WorkRecord(q[1].read, q[1].offset)
      BY <1>9, <2>3 DEF PieceRecord
    <2> QED BY <2>2, <2>4, Records
  <1>11. ASSUME NEW i \in 0 .. TransferBytes(q[1]) - 1
         PROVE  recv_mem[m][b][i] = <<q[1].read, q[1].offset + i>>
    <2>1. send_mem[p][b][i] = <<q[1].read, q[1].offset + i>>
      BY <1>2, <1>6, <1>7, <1>10, <1>11 DEF Flying
    <2>2. 1 \in Where(cq[Peer(p)], Writes(b))
      BY <1>1, <1>4 DEF Where, Writes, LastWrites, b, c
    <2>3. i \in 0 .. cq[Peer(p)][1].block
      BY <1>1, <1>4, <1>6, <1>10, <1>11 DEF c
    <2>4. Moved(p, b, i)
      BY <1>1, <1>4, <2>2, <2>3 DEF Arriving, Elementwise
    <2> QED BY <1>1, <2>1, <2>4 DEF Moved
  <1> QED BY <1>5, <1>8, <1>9, <1>10, <1>11 DEF b, wr, c

\* SyncRead of a piece of t units in buffer b: they are copied to the memory of
\* the oldest read in progress, and its offset is moved.
SyncedFrom(m, q, b, t) ==
  LET r == q[1]
      last == r.offset + t >= Bytes[r.read]
  IN /\ \A i \in 0 .. Bytes[r.read] - 1 :
          dst'[r.read][i] = IF i \in r.offset .. r.offset + t - 1
                              THEN recv_mem[m][b][i - r.offset] ELSE dst[r.read][i]
     /\ \A k \in Read : k # r.read => dst'[k] = dst[k]
     /\ Len(read_queue'[m]) = Len(q) /\ DOMAIN read_queue'[m] = DOMAIN q
     /\ read_queue'[m][1].read = r.read /\ read_queue'[m][1].offset = r.offset + t
     /\ \A i \in DOMAIN q : i # 1 => read_queue'[m][i] = q[i]
     /\ read_queue'[Peer(m)] = read_queue[Peer(m)]
     /\ poller'[m].at = (IF last THEN "ReadCb" ELSE "PostFree") /\ poller'[m].last = last
     /\ poller'[Peer(m)] = poller[Peer(m)]

LEMMA Synced ==
  ASSUME TypeInv, NEW m \in Machine, SyncRead(m), ~Abort(m)
  PROVE  /\ read_queue[m] # <<>> /\ read_queue[m][1] \in Record
         /\ SyncedFrom(m, read_queue[m], Head(cq[m]).imm, TransferBytes(read_queue[m][1]))
  <1> DEFINE q == read_queue[m]
             r == Head(q)
             t == TransferBytes(r)
             b == Head(cq[m]).imm
             last == r.offset + t >= Bytes[r.read]
             w == [r EXCEPT !.offset = @ + t]
             v == [q EXCEPT ![1] = w]
             next == [at |-> IF last THEN "ReadCb" ELSE "PostFree", buffer |-> b, last |-> last]
  <1>1. /\ q # <<>>
        /\ dst' = [dst EXCEPT ![r.read] =
             [i \in DOMAIN @ |-> IF i \in r.offset .. r.offset + t - 1
                                   THEN recv_mem[m][b][i - r.offset] ELSE @[i]]]
        /\ read_queue' = [read_queue EXCEPT ![m][1].offset = @ + t]
        /\ poller' = [poller EXCEPT ![m] = next]
    BY DEF SyncRead, SgeCount, OnRecv
  <1>2. q \in Seq(Record) /\ Peer(m) \in Machine /\ Peer(m) # m
    BY Peers DEF TypeInv, TypeOK
  <1>3. r \in Record /\ r = q[1] /\ Len(q) \in Nat \ {0} /\ DOMAIN q = 1 .. Len(q) /\ 1 \in 1 .. Len(q)
    <2>1. q \in Seq(Record) /\ q # <<>>
      BY <1>1, <1>2
    <2> HIDE DEF q
    <2>2. Head(q) \in Record /\ Head(q) = q[1] /\ Len(q) \in Nat \ {0} /\ DOMAIN q = 1 .. Len(q)
      BY <2>1, Ends
    <2> QED BY <2>2
  <1>4. r.read \in Read /\ r.offset \in Nat /\ r.offset <= Bytes[r.read]
    BY <1>3, Records DEF TypeInv, HandlersOK
  <1>5. t \in Nat
    BY <1>3, <1>4, TransferBounds, WriteHelperAssumption
  <1>6. /\ poller'[m].at = (IF last THEN "ReadCb" ELSE "PostFree") /\ poller'[m].last = last
        /\ poller'[Peer(m)] = poller[Peer(m)]
    <2>1. next.at = (IF last THEN "ReadCb" ELSE "PostFree") /\ next.last = last
      BY Places2
    <2> HIDE DEF next, last
    <2>2. poller'[m] = next /\ poller'[Peer(m)] = poller[Peer(m)]
      BY <1>1, <1>2 DEF TypeInv, TypeOK
    <2> QED BY <2>1, <2>2
  <1> HIDE DEF b, t, next
  <1>7. w \in Record /\ w.read = r.read /\ w.offset = r.offset + t
    BY <1>3, <1>4, <1>5 DEF Record
  <1>8. read_queue' = [read_queue EXCEPT ![m] = v]
    BY <1>1, <1>3 DEF TypeInv, TypeOK
  <1>9. /\ dst'[r.read] \in [0 .. Bytes[r.read] - 1 -> Data]
        /\ \A i \in 0 .. Bytes[r.read] - 1 :
             dst'[r.read][i] = IF i \in r.offset .. r.offset + t - 1
                                 THEN recv_mem[m][b][i - r.offset] ELSE dst[r.read][i]
        /\ \A k \in Read : k # r.read => dst'[k] = dst[k]
    <2> DEFINE copy == [i \in DOMAIN dst[r.read] |->
                          IF i \in r.offset .. r.offset + t - 1
                            THEN recv_mem[m][b][i - r.offset] ELSE dst[r.read][i]]
    <2>1. dst' = [dst EXCEPT ![r.read] = copy] /\ DOMAIN dst = Read
      BY <1>1 DEF TypeInv, TypeOK
    <2>2. DOMAIN dst[r.read] = 0 .. Bytes[r.read] - 1
      BY <1>4 DEF TypeInv, TypeOK
    <2>3. \A i \in 0 .. Bytes[r.read] - 1 :
            copy[i] = IF i \in r.offset .. r.offset + t - 1
                        THEN recv_mem[m][b][i - r.offset] ELSE dst[r.read][i]
      BY <2>2
    <2>5. TypeInv'
      BY SyncReadType
    <2> HIDE DEF copy, r
    <2>4. dst'[r.read] = copy /\ \A k \in Read : k # r.read => dst'[k] = dst[k]
      BY <1>4, <2>1
    <2>6. dst'[r.read] \in [0 .. Bytes[r.read] - 1 -> Data]
      BY <1>4, <2>5 DEF TypeInv, TypeOK
    <2> QED BY <2>3, <2>4, <2>6
  <1> HIDE DEF q, r, w
  <1>10. v \in Seq(Record) /\ Len(v) = Len(q) /\ \A x \in 1 .. Len(q) : v[x] = IF x = 1 THEN w ELSE q[x]
    BY <1>2, <1>3, <1>7, ExceptSeq
  <1>11. DOMAIN v = DOMAIN q /\ v[1] = w
    BY <1>3, <1>10, LenProperties
  <1> HIDE DEF v
  <1>12. read_queue'[m] = v /\ read_queue'[Peer(m)] = read_queue[Peer(m)]
    BY <1>2, <1>8 DEF TypeInv, TypeOK
  <1>13. SyncedFrom(m, q, b, t)
    BY <1>3, <1>6, <1>7, <1>9, <1>10, <1>11, <1>12 DEF SyncedFrom
  <1> QED BY <1>1, <1>3, <1>13 DEF q, b, t

\* The reader's memory and marks after a piece was copied.
LEMMA PieceCopied ==
  ASSUME TypeInv, NEW m \in Machine, NEW G, NEW H \in History, Pipe(Peer(m), G),
         poller[m].at = "Poll", NEW q, q = read_queue[m], q # <<>>,
         NEW b, NEW t \in Nat, t = TransferBytes(q[1]), q[1].offset + t <= Bytes[q[1].read],
         \A i \in 0 .. t - 1 : recv_mem[m][b][i] = <<q[1].read, q[1].offset + i>>,
         SyncedFrom(m, q, b, t),
         H.copied = G.copied, H.reads = G.reads
  PROVE  Copying(Peer(m), H)'
  <1> DEFINE p == Peer(m)
             k == q[1].read
             o == q[1].offset
             d == read_queue'[m]
  <1>0. /\ \A i \in 0 .. Bytes[q[1].read] - 1 :
             dst'[q[1].read][i] = IF i \in q[1].offset .. q[1].offset + t - 1
                                    THEN recv_mem[m][b][i - q[1].offset] ELSE dst[q[1].read][i]
        /\ \A x \in Read : x # q[1].read => dst'[x] = dst[x]
        /\ DOMAIN d = DOMAIN q
        /\ d[1].read = q[1].read /\ d[1].offset = q[1].offset + t
        /\ \A i \in DOMAIN q : i # 1 => d[i] = q[i]
        /\ poller'[m].at = IF q[1].offset + t >= Bytes[q[1].read] THEN "ReadCb" ELSE "PostFree"
    BY DEF SyncedFrom
  <1>1. p \in Machine /\ Peer(p) = m
    BY Peers
  <1>2. Ordered(G) /\ Queueing(p, G) /\ Copying(p, G)
    BY DEF Pipe
  <1>3. 1 \in DOMAIN q /\ k \in Read /\ o \in Nat /\ Len(q) \in Nat \ {0} /\ Bytes[k] \in Nat
    <2>1. q \in Seq(Record)
      BY DEF TypeInv, TypeOK
    <2>2. q[1] \in Record /\ 1 \in DOMAIN q /\ Len(q) \in Nat \ {0}
      BY <2>1, Ends
    <2> QED BY <2>2, Records, WriteHelperAssumption
  <1>4. /\ G.copied \in Nat /\ k = G.reads[G.copied + 1] /\ DOMAIN G.reads = 1 .. Len(G.reads)
        /\ Len(G.reads) \in Nat /\ G.copied + 1 <= Len(G.reads)
        /\ \A a, x \in DOMAIN G.reads : G.reads[a] = G.reads[x] => a = x
        /\ \A a \in DOMAIN G.reads : G.reads[a] \in Read
    <2>1. k = G.reads[G.copied + 1] /\ G.copied + Len(q) = G.pushed
      BY <1>1, <1>2, <1>3 DEF Queueing
    <2>2. /\ G.pushed \in Nat /\ G.handled \in Nat /\ G.asked \in Nat /\ Len(G.reads) \in Nat
          /\ G.pushed <= G.handled /\ G.handled <= G.asked /\ G.asked <= Len(G.reads)
          /\ G.copied \in Nat
      BY <1>2, Marks, InOrder
    <2>3. G.copied + 1 <= Len(G.reads)
      BY <1>3, <2>1, <2>2
    <2> QED BY <1>2, <2>1, <2>2, <2>3, Marks, InOrder
  <1> HIDE DEF k, o
  <1>5. ASSUME NEW a \in 1 .. G.copied
        PROVE  \A i \in DOMAIN dst'[G.reads[a]] : dst'[G.reads[a]][i] = <<G.reads[a], i>>
    <2>1. a \in DOMAIN G.reads /\ G.copied + 1 \in DOMAIN G.reads /\ a # G.copied + 1
      BY <1>4
    <2>2. G.reads[a] # k /\ G.reads[a] \in Read
      BY <1>4, <2>1
    <2>3. dst'[G.reads[a]] = dst[G.reads[a]]
      BY <1>0, <2>2 DEF k
    <2>4. \A i \in DOMAIN dst[G.reads[a]] : dst[G.reads[a]][i] = <<G.reads[a], i>>
      BY <1>2 DEF Copying
    <2> QED BY ONLY <2>3, <2>4
  <1>6. ASSUME NEW i \in 0 .. o + t - 1
        PROVE  dst'[k][i] = <<k, i>>
    <2>1. i \in 0 .. Bytes[k] - 1
      <3>1. o + t <= Bytes[k]
        BY DEF k, o
      <3> QED BY <1>3, <3>1
    <2>2. dst'[k][i] = IF i \in o .. o + t - 1 THEN recv_mem[m][b][i - o] ELSE dst[k][i]
      BY <1>0, <2>1 DEF k, o
    <2>3. ASSUME i \in o .. o + t - 1 PROVE dst'[k][i] = <<k, i>>
      <3>1. i - o \in 0 .. t - 1 /\ o + (i - o) = i
        BY <1>3, <2>3
      <3>2. recv_mem[m][b][i - o] = <<k, o + (i - o)>>
        BY <3>1 DEF k, o
      <3> QED BY <2>2, <2>3, <3>1, <3>2
    <2>4. ASSUME i \notin o .. o + t - 1 PROVE dst'[k][i] = <<k, i>>
      <3>1. i \in 0 .. o - 1
        BY <1>3, <2>4
      <3>2. dst[k][i] = <<k, i>>
        BY <1>1, <1>2, <3>1 DEF Copying, k, o
      <3> QED BY <2>2, <2>4, <3>2
    <2> QED BY <2>3, <2>4
  <1> HIDE DEF d
  <1>7. d[1].read = k /\ d[1].offset = o + t
    BY <1>0 DEF k, o
  <1>8. d[1].offset < Bytes[d[1].read] <=> poller'[m].at # "ReadCb"
    <2>1. poller'[m].at = IF o + t >= Bytes[k] THEN "ReadCb" ELSE "PostFree"
      BY <1>0 DEF k, o
    <2>2. o + t \in Nat
      BY <1>3
    <2> QED BY <1>3, <1>7, <2>1, <2>2
  <1>9. \A i \in DOMAIN d : i > 1 => d[i].offset = 0
    <2>1. \A i \in DOMAIN q : i > 1 => q[i].offset = 0
      BY <1>1, <1>2 DEF Copying
    <2>2. q \in Seq(Record)
      BY DEF TypeInv, TypeOK
    <2>3. \A i \in DOMAIN q : i > 1 => i # 1
      OBVIOUS
    <2> QED BY <1>0, <2>1, <2>3
  <1>10. \A a \in 1 .. H.copied : \A i \in DOMAIN dst'[H.reads[a]] :
           dst'[H.reads[a]][i] = <<H.reads[a], i>>
    <2>1. H.copied = G.copied /\ H.reads = G.reads
      OBVIOUS
    <2> QED BY ONLY <1>5, <2>1
  <1>11. ASSUME NEW i \in 0 .. d[1].offset - 1
         PROVE  dst'[d[1].read][i] = <<d[1].read, i>>
    <2>1. i \in 0 .. o + t - 1
      BY <1>3, <1>7
    <2>2. dst'[k][i] = <<k, i>>
      BY <1>6, <2>1
    <2> QED BY <1>7, <2>2
  <1> QED BY <1>1, <1>8, <1>9, <1>10, <1>11 DEF Copying, d

LEMMA SyncReadPipe ==
  ASSUME TypeInv, InStep, Arriving, NEW m \in Machine, SyncRead(m)
  PROVE  InStep'
  <1> DEFINE p == Peer(m)
             wr == Head(cq[m])
             q == read_queue[m]
             t == TransferBytes(q[1])
             last == q[1].offset + t >= Bytes[q[1].read]
  <1>1. p \in Machine /\ p # m /\ Peer(p) = m
    BY Peers
  <1>2. ASSUME Abort(m) PROVE InStep'
    BY <1>2, UnchangedPipe DEF Abort
  <1>3. ASSUME ~Abort(m) PROVE InStep'
    <2>1. /\ cq[m] # <<>> /\ wr.op = "RdmaWrite" /\ wr.imm # IntMax /\ poller[m].at = "Poll"
          /\ cq' = [cq EXCEPT ![m] = Tail(@)]
          /\ UNCHANGED <<helper_vars, sq, read_done_cbs, dealing, send_mem, recv_mem, app_vars,
                         cb_vars>>
      BY <1>3 DEF SyncRead, OnRecv, At
    <2>2. wr \in Request /\ wr \in LastWrites
      <3>1. wr \in Request
        BY <2>1, Ends DEF TypeInv, TypeOK
      <3> QED BY <2>1, <3>1, Kinds
    <2>3. /\ \A T : Spares(m, T)
          /\ Spares(p, Kind("UserMsg")) /\ Spares(p, Kind("PleaseWrite")) /\ Spares(p, LastFrees)
      <3>1. \A T : wr \notin T => Spares(p, T)
        BY <2>1, RecvSpares
      <3>2. wr \notin Kind("UserMsg") /\ wr \notin Kind("PleaseWrite") /\ wr \notin LastFrees
        BY <2>1, <2>2, Kinds
      <3>3. \A T : Spares(m, T)
        BY <2>1, RecvSpares
      <3> QED BY <3>1, <3>2, <3>3
    <2>25. q # <<>> /\ q[1] \in Record /\ SyncedFrom(m, q, wr.imm, t)
      BY <1>3, Synced
    <2>4. /\ \A k \in Read : k # q[1].read => dst'[k] = dst[k]
          /\ Len(read_queue'[m]) = Len(q) /\ DOMAIN read_queue'[m] = DOMAIN q
          /\ read_queue'[m][1].read = q[1].read /\ read_queue'[m][1].offset = q[1].offset + t
          /\ \A i \in DOMAIN q : i # 1 => read_queue'[m][i] = q[i]
          /\ read_queue'[p] = read_queue[p]
          /\ poller'[m].at = (IF last THEN "ReadCb" ELSE "PostFree") /\ poller'[m].last = last
          /\ poller'[p] = poller[p]
      BY <2>25 DEF SyncedFrom
    <2>5. \A n \in Machine : /\ AppQuiet(n) /\ HelperQuiet(n) /\ CbsQuiet(n)
                             /\ send_mem'[n] = send_mem[n]
      BY <2>1 DEF AppQuiet, HelperQuiet, CbsQuiet, helper_vars, queues, app_vars, cb_vars
    <2>6. \A n \in Machine : ThreadsQuiet(n)
      BY <2>1, DeferredOnly DEF ThreadsQuiet, app_vars
    <2>7. PICK G \in History : Pipe(p, G)
      BY <1>1 DEF InStep
    <2>8. /\ Ordered(G) /\ Announcing(p, G) /\ Queueing(p, G) /\ Streaming(p, G) /\ Flying(p, G)
          /\ Copying(p, G) /\ Releasing(p, G)
      BY <2>7 DEF Pipe
    <2>9. /\ G.fetched \in Nat /\ G.sent \in Nat /\ G.copied \in Nat /\ G.taken \in Nat
          /\ Len(G.reads) \in Nat /\ G.told \in Nat /\ G.freed \in Nat
      BY <2>8, Marks, InOrder
    <2>10. /\ G.fetched < G.sent /\ wr = LastWritesOf(G)[G.fetched + 1]
           /\ G.piece[G.fetched + 1] = <<G.copied + 1, q[1].offset>>
           /\ PieceRecord(G, G.fetched + 1) = q[1]
           /\ \A i \in 0 .. t - 1 : recv_mem[m][wr.imm][i] = <<q[1].read, q[1].offset + i>>
      BY <2>1, <2>7, NextPiece
    <2>11. /\ t \in Nat /\ q[1].offset + t <= Bytes[q[1].read] /\ q[1].offset \in Nat
           /\ q[1].read \in Read /\ 1 \in DOMAIN q
      <3>1. q \in Seq(Record) /\ 1 \in DOMAIN q
        <4>1. q \in Seq(Record)
          BY DEF TypeInv, TypeOK
        <4> HIDE DEF q
        <4> QED BY <2>4, <2>25, <4>1, Ends
      <3>2. q[1].offset <= Bytes[q[1].read] /\ q[1].offset \in Nat /\ q[1].read \in Read
        BY <2>4, <2>25, <3>1, Records DEF TypeInv, HandlersOK
      <3>3. t \in 0 .. BufferBytes /\ q[1].offset + t <= Bytes[q[1].read]
        BY <2>4, <2>25, <3>2, TransferBounds
      <3> QED BY <3>1, <3>2, <3>3, WriteHelperAssumption
    <2>12. Source[q[1].read] = p
      <3>1. q[1].read = G.reads[G.copied + 1]
        BY <1>1, <2>8, <2>11 DEF Queueing
      <3>2. G.copied + 1 \in DOMAIN G.reads
        <4>1. /\ G.pushed \in Nat /\ G.handled \in Nat /\ G.asked \in Nat
              /\ G.pushed <= G.handled /\ G.handled <= G.asked /\ G.asked <= Len(G.reads)
              /\ DOMAIN G.reads = 1 .. Len(G.reads)
          BY <2>8, Marks, InOrder
        <4>2. G.copied + Len(q) = G.pushed /\ Len(q) \in Nat \ {0}
          <5>1. G.copied + Len(q) = G.pushed
            BY <1>1, <2>8 DEF Queueing
          <5>2. q \in Seq(Record)
            BY DEF TypeInv, TypeOK
          <5> HIDE DEF q
          <5> QED BY <2>4, <2>25, <5>1, <5>2, Ends
        <4> HIDE DEF q
        <4> QED BY <2>9, <4>1, <4>2
      <3> QED BY <2>8, <2>11, <3>1, <3>2 DEF Announcing
    <2>13. \E H \in History : Pipe(m, H)'
      <3>1. PollersQuiet(m)
        BY <1>1, <2>1, <2>4, <2>25 DEF PollersQuiet
      <3>2. CopyQuiet(m)
        BY <1>1, <2>4, <2>25, <2>12 DEF CopyQuiet
      <3> QED BY <1>1, <2>3, <2>5, <2>6, <3>1, <3>2, ReaderElse
    <2> HIDE DEF q, t, wr, p
    <2> DEFINE n == G.fetched + 1
               H == [G EXCEPT !.fetched = n]
    <2>14. n \in Nat
      BY <2>9
    <2> HIDE DEF n
    <2>15. /\ H \in History /\ H.fetched = n
           /\ H.reads = G.reads /\ H.done = G.done /\ H.told = G.told /\ H.freed = G.freed
           /\ H.copied = G.copied /\ H.written = G.written /\ H.taken = G.taken
           /\ H.queued = G.queued /\ H.wanted = G.wanted /\ H.pushed = G.pushed
           /\ H.handled = G.handled /\ H.asked = G.asked /\ H.last = G.last
           /\ H.piece = G.piece /\ H.buffer = G.buffer /\ H.sent = G.sent
      BY <2>7, <2>14 DEF History
    <2> HIDE DEF H
    <2>16. Ordered(H)
      <3>1. H.fetched <= H.sent
        BY <2>9, <2>10, <2>15 DEF n
      <3> QED BY <2>8, <2>15, <3>1 DEF Ordered
    <2>17. Extends(G, H)
      BY <2>9, <2>15 DEF Extends
    <2>18. Queueing(p, H)'
      <3>1. \A i \in DOMAIN q : read_queue'[m][i].read = q[i].read
        BY <2>4, <2>25
      <3> QED BY <1>1, <2>4, <2>25, <2>8, <2>15, <2>17, <3>1, QueueingKeeps DEF q
    <2>19. Streaming(p, H)'
      <3>1. /\ G.piece[G.sent + 1] = NextSend(p, G)
            /\ \A j \in G.fetched + 1 .. G.sent :
                 /\ G.piece[j][1] \in 1 .. G.taken
                 /\ G.piece[j][2] < Bytes[G.reads[G.piece[j][1]]]
                 /\ G.piece[j + 1] = PieceAfter(G, j)
            /\ \A i, j \in G.fetched + 1 .. G.sent + 1 : i <= j => G.piece[i][1] <= G.piece[j][1]
        BY <2>8 DEF Streaming
      <3>2. NextSend(p, H)' = NextSend(p, G)
        BY <1>1, <2>5, <2>15, NextSendKeeps DEF HelperQuiet
      <3>3. /\ n \in G.fetched + 1 .. G.sent
            /\ \A j \in n + 1 .. G.sent : j \in G.fetched + 1 .. G.sent
            /\ \A j \in n + 1 .. G.sent + 1 : j \in G.fetched + 1 .. G.sent + 1
        BY <2>9, <2>10 DEF n
      <3>4. \A j : PieceAfter(H, j) = PieceAfter(G, j)
        BY <2>15 DEF PieceAfter, PieceRecord
      <3>5. G.piece[n + 1] = IF last THEN <<(G.copied + 1) + 1, 0>>
                                     ELSE <<G.copied + 1, q[1].offset + t>>
        BY <2>10, <3>1, <3>3 DEF PieceAfter, n, t, last
      <3>6. NextFetch(p, H)' = IF last THEN <<G.copied + 2, 0>>
                                       ELSE <<G.copied + 1, q[1].offset + t>>
        <4>1. read_queue'[m] # <<>>
          BY <2>4, <2>25, <2>11
        <4> HIDE DEF last
        <4> QED BY <1>1, <2>4, <2>25, <2>15, <4>1 DEF NextFetch
      <3>7. G.piece[n + 1] = NextFetch(p, H)'
        <4>1. (G.copied + 1) + 1 = G.copied + 2
          BY <2>9
        <4> QED BY <3>5, <3>6, <4>1
      <3> QED BY <2>15, <3>1, <3>2, <3>3, <3>4, <3>7 DEF Streaming
    <2>20. Flying(p, H)'
      <3>1. Lists(Out(p)', LastWrites, n, G.sent, LastWritesOf(H))
        <4>1. Lists(Out(p), LastWrites, G.fetched, G.sent, LastWritesOf(G))
          BY <2>8 DEF Flying
        <4>2. LastWritesOf(H) = LastWritesOf(G)
          BY <2>15 DEF LastWritesOf, PieceRecord
        <4> QED BY <2>1, <2>2, <2>9, <4>1, <4>2, RecvLists DEF n, p, wr
      <3>2. \A j \in n + 1 .. G.sent : j \in G.fetched + 1 .. G.sent
        BY <2>9 DEF n
      <3>3. \A j : PieceRecord(H, j) = PieceRecord(G, j)
        BY <2>15 DEF PieceRecord
      <3>4. \A j \in G.fetched + 1 .. G.sent : \A i \in 0 .. TransferBytes(PieceRecord(G, j)) - 1 :
              send_mem[p][G.buffer[j]][i] = <<PieceRecord(G, j).read, PieceRecord(G, j).offset + i>>
        BY <2>8 DEF Flying
      <3>5. send_mem' = send_mem
        BY <2>1
      <3> QED BY <2>15, <3>1, <3>2, <3>3, <3>4, <3>5 DEF Flying
    <2>21. Copying(p, H)'
      <3>1. /\ H \in History /\ H.copied = G.copied /\ H.reads = G.reads /\ Pipe(Peer(m), G)
            /\ poller[m].at = "Poll" /\ q = read_queue[m] /\ q # <<>> /\ t \in Nat
            /\ t = TransferBytes(q[1]) /\ q[1].offset + t <= Bytes[q[1].read]
        BY <2>1, <2>25, <2>7, <2>11, <2>15 DEF p, q, t
      <3>3. Copying(Peer(m), H)'
        BY <2>10, <2>25, <3>1, PieceCopied
      <3> QED BY <3>3 DEF p
    <2>22. Releasing(p, H)'
      <3>1. /\ \A k \in Read : k \in read_cb' /\ Source[k] = p
                                 <=> \E a \in 1 .. H.copied : H.reads[a] = k
            /\ \A k \in Read : k \in done_cb' /\ Source[k] = p
                                 <=> \E a \in 1 .. H.done : H.reads[a] = k
            /\ H.told = IF poller'[p].at = "ReadDone" THEN H.done + 1 ELSE H.done
        BY <2>1, <2>4, <2>25, <2>8, <2>15 DEF Releasing, cb_vars
      <3>2. H.copied = H.freed /\ ~(poller'[m].at = "PostFree" /\ poller'[m].last)
        <4>1. G.copied = G.freed
          BY <1>1, <2>1, <2>8 DEF Releasing
        <4> QED BY <2>4, <2>25, <2>15, <4>1
      <3>3. Lists(Out(m)', LastFrees, H.told, H.freed, LastFreesOf(H))
        <4>1. Lists(Out(m), LastFrees, G.told, G.freed, LastFreesOf(G))
          BY <1>1, <2>8 DEF Releasing
        <4>2. LastFreesOf(H) = LastFreesOf(G)
          BY <2>15 DEF LastFreesOf
        <4> QED BY <2>3, <2>9, <2>15, <4>1, <4>2, SparesLists
      <3> QED BY <1>1, <3>1, <3>2, <3>3 DEF Releasing
    <2>23. Pipe(p, H)'
      <3>1. poller[m].at # "Dealing"
        BY <2>1
      <3> QED BY <1>1, <2>3, <2>5, <2>6, <2>7, <2>15, <2>16, <2>18, <2>19, <2>20, <2>21, <2>22,
                 <3>1, CopyPipe
    <2>24. \E F \in History : Pipe(Peer(m), F)'
      BY <2>15, <2>23 DEF p
    <2> QED BY <2>13, <2>24, BothSources
  <1> QED BY <1>2, <1>3
--------------------------------------------------------------------------------
(* The fourth layer as a whole.                                            *)

\* Nothing is announced yet.
Unwritten ==
  [reads |-> <<>>, done |-> 0, told |-> 0, freed |-> 0, copied |-> 0, written |-> 0, taken |-> 0,
   queued |-> 0, wanted |-> 0, pushed |-> 0, handled |-> 0, asked |-> 0,
   last |-> [j \in Nat |-> 0], piece |-> [j \in Nat |-> <<1, 0>>], buffer |-> [j \in Nat |-> 0],
   fetched |-> 0, sent |-> 0]

LEMMA InStepInit == Init => InStep
  <1> SUFFICES ASSUME Init, NEW s \in Machine PROVE Pipe(s, Unwritten) /\ Unwritten \in History
    BY DEF InStep
  <1> DEFINE G == Unwritten
             p == Peer(s)
  <1>1. p \in Machine
    BY Peers
  <1>2. /\ G.reads = <<>> /\ G.done = 0 /\ G.told = 0 /\ G.freed = 0 /\ G.copied = 0
        /\ G.written = 0 /\ G.taken = 0 /\ G.queued = 0 /\ G.wanted = 0 /\ G.pushed = 0
        /\ G.handled = 0 /\ G.asked = 0 /\ G.fetched = 0 /\ G.sent = 0
        /\ G.piece[0 + 1] = <<1, 0>>
    BY DEF Unwritten
  <1>3. G \in History
    <2>1. <<>> \in Seq(Read)
      BY EmptySeq
    <2>2. /\ [j \in Nat |-> 0] \in [Nat -> Nat] /\ [j \in Nat |-> <<1, 0>>] \in [Nat -> Nat \X Nat]
      OBVIOUS
    <2> QED BY <2>1, <2>2 DEF Unwritten, History
  <1> HIDE DEF G
  <1>4. /\ sq[s] = <<>> /\ sq[p] = <<>> /\ cq[s] = <<>> /\ cq[p] = <<>> /\ announced = {}
        /\ announcing[s] = NoRead /\ read_done_cbs[s] = <<>> /\ deferred = {} /\ dealing = {}
        /\ read_queue[p] = <<>> /\ cur_record_queue[s] = <<>> /\ pending_record_queue[s] = <<>>
        /\ cur_write_handle[s] = "InitWriteHandle" /\ poller[s].at = "Poll" /\ poller[p].at = "Poll"
        /\ read_cb = {} /\ done_cb = {}
    BY <1>1, Places2 DEF Init, HelperInit
  <1>5. Out(s) = <<>> /\ Out(p) = <<>>
    <2>1. <<>> \o <<>> = <<>>
      OBVIOUS
    <2> QED BY <1>1, <1>4, <2>1, Peers DEF Out
  <1>6. \A T, M : Lists(<<>>, T, 0, 0, M)
    BY ListsEmpty
  <1>7. Len(<<>>) = 0 /\ DOMAIN <<>> = {} /\ 0 + 1 .. 0 = {} /\ 1 .. 0 = {}
    OBVIOUS
  <1>8. Ordered(G)
    BY <1>2, <1>3, <1>7 DEF Ordered
  <1>9. Announcing(s, G)
    BY <1>2, <1>4, <1>7 DEF Announcing
  <1>10. Asking(s, G) /\ Wanting(s, G)
    BY <1>2, <1>5, <1>6 DEF Asking, Wanting
  <1>11. Dealing(s, G)
    BY <1>2, <1>4, <1>7 DEF Dealing
  <1>12. Queueing(s, G)
    BY <1>2, <1>4, <1>7 DEF Queueing
  <1>13. Writing(s, G)
    BY <1>2, <1>4, <1>7 DEF Writing
  <1>14. Streaming(s, G)
    <2>1. NextFetch(s, G) = <<1, 0>> /\ NextSend(s, G) = <<1, 0>>
      BY <1>2, <1>4 DEF NextFetch, NextSend
    <2>2. G.fetched + 1 .. G.sent = {} /\ G.fetched + 1 .. G.sent + 1 = {1}
      BY <1>2
    <2>3. G.piece[1] = <<1, 0>> /\ G.fetched + 1 = 1 /\ G.sent + 1 = 1 /\ G.piece[1][1] = 1
      BY <1>2
    <2>4. \A i, j \in {1} : i <= j => G.piece[i][1] <= G.piece[j][1]
      BY <2>3
    <2> QED BY <2>1, <2>2, <2>3, <2>4 DEF Streaming
  <1>15. Flying(s, G)
    BY <1>2, <1>5, <1>6, <1>7 DEF Flying
  <1>16. Copying(s, G)
    BY <1>2, <1>4, <1>7 DEF Copying
  <1>17. Releasing(s, G)
    BY <1>2, <1>4, <1>5, <1>6, <1>7 DEF Releasing
  <1>18. Pipe(s, G)
    BY <1>8, <1>9, <1>10, <1>11, <1>12, <1>13, <1>14, <1>15, <1>16, <1>17 DEF Pipe
  <1> QED BY <1>3, <1>18 DEF G

LEMMA InStepNext ==
  ASSUME TypeInv, HeldOnce, Arriving, InStep, NoEmptyRead, OneThread, [Next]_vars
  PROVE  InStep'
  <1>1. ASSUME NEW m \in Machine, NEW k \in Read,
               \/ RegisterReadDoneCb(m, k) \/ SendMsg(m, k)
               \/ WorkerDoRead(m, k) \/ PostPleaseWrite(m, k)
        PROVE  InStep'
    BY <1>1, RegisterReadDoneCbPipe, SendMsgPipe, WorkerDoReadPipe, PostPleaseWritePipe
  <1>2. ASSUME NEW m \in Machine, PollCQ(m) PROVE InStep'
    <2>1. CASE \/ RecvUserMsg(m) \/ RecvPleaseWrite(m) \/ RecvFreeBufferPair(m)
               \/ RecvElement(m) \/ SyncRead(m)
      BY <2>1, RecvUserMsgPipe, RecvPleaseWritePipe, RecvFreeBufferPairPipe, RecvElementPipe,
         SyncReadPipe
    <2>2. CASE WriteLoop(m)
      BY <2>2, InitWriteHandlePipe, RequestBufferPipe DEF WriteLoop
    <2>3. CASE \/ WritePiece(m) \/ ReadDoneCb(m) \/ ReadCb(m) \/ PostFreeBufferPair(m)
               \/ PostRecvRequest(m)
      BY <2>3, WritePiecePipe, ReadDoneCbPipe, ReadCbPipe, PostFreeBufferPairPipe,
         PostRecvRequestPipe
    <2> QED BY <1>2, <2>1, <2>2, <2>3 DEF PollCQ
  <1>3. CASE UNCHANGED vars
    BY <1>3, UnchangedPipe DEF vars
  <1> QED BY <1>1, <1>2, <1>3, DeliverPipe DEF Next

LEMMA InStepInvariant == NoEmptyRead /\ OneThread => (Spec => []InStep)
  <1>1. ASSUME NoEmptyRead, OneThread PROVE Spec => []InStep
    <2>1. TypeInv /\ HeldOnce /\ Arriving /\ InStep /\ [Next]_vars => InStep'
      BY <1>1, InStepNext
    <2> QED BY <1>1, <2>1, InStepInit, TypeInvariant, HeldOnceInvariant, ArrivingInvariant,
               PTL DEF Spec
  <1> QED BY <1>1

\* When a read's callback runs at the reader (RDMARecvDone of its last piece),
\* its memory holds the bytes of its source, each in its place, although no
\* message says which read a piece belongs to.
THEOREM DataArrives == NoEmptyRead /\ OneThread => (Spec => []DataIntegrity)
  <1>1. TypeInv /\ InStep => DataIntegrity
    <2> SUFFICES ASSUME TypeInv, InStep, NEW k \in read_cb, NEW i \in DOMAIN dst[k]
                 PROVE  dst[k][i] = <<k, i>>
      BY DEF DataIntegrity
    <2>1. k \in Read /\ Source[k] \in Machine
      BY ReadTransferAssumption DEF TypeInv, TypeOK
    <2>2. PICK G \in History : Pipe(Source[k], G)
      BY <2>1 DEF InStep
    <2>3. PICK a \in 1 .. G.copied : G.reads[a] = k
      BY <2>1, <2>2 DEF Pipe, Releasing
    <2>4. \A j \in DOMAIN dst[G.reads[a]] : dst[G.reads[a]][j] = <<G.reads[a], j>>
      BY <2>2 DEF Pipe, Copying
    <2> QED BY <2>3, <2>4
  <1>2. ASSUME NoEmptyRead, OneThread PROVE Spec => []DataIntegrity
    BY <1>1, <1>2, TypeInvariant, InStepInvariant, PTL
  <1> QED BY <1>2

\* No completion finds the bookkeeping of its read missing, if the application
\* registers each callback before it announces the read: read_queue_ is never
\* empty when a piece arrives, and read_done_cbs_ never when a read is done.
THEOREM NoCheckFails == NoEmptyRead /\ OneThread /\ CbFirst => (Spec => []NoCheckFailure)
  <1>1. Init => NoCheckFailure
    BY DEF Init, NoCheckFailure
  <1>2. ASSUME CbFirst, TypeInv, Arriving, InStep, NEW m \in Machine,
               ReadDoneCb(m) \/ SyncRead(m)
        PROVE  aborted' = aborted
    <2>1. CASE ReadDoneCb(m)
      <3>1. PICK G \in History : Pipe(m, G)
        BY <1>2 DEF InStep
      <3>2. poller[m].at = "ReadDone"
        BY <2>1 DEF ReadDoneCb, At
      <3>3. read_done_cbs[m] # <<>>
        <4>1. Len(read_done_cbs[m]) # 0
          BY <1>2, <3>1, <3>2, Registered
        <4> QED BY <4>1
      <3> QED BY <2>1, <3>3 DEF ReadDoneCb
    <2>2. CASE SyncRead(m)
      <3>1. ASSUME At(m, "Poll"), read_queue[m] = <<>> PROVE FALSE
        <4>1. PICK G \in History : Pipe(Peer(m), G)
          BY <1>2, Peers DEF InStep
        <4>2. /\ cq[m] # <<>> /\ Head(cq[m]).op = "RdmaWrite" /\ Head(cq[m]).imm # IntMax
              /\ poller[m].at = "Poll"
          BY <2>2, <3>1 DEF SyncRead, At
        <4> QED BY <1>2, <3>1, <4>1, <4>2, NextPiece
      <3> QED BY <2>2, <3>1 DEF SyncRead, OnRecv
    <2> QED BY <1>2, <2>1, <2>2
  <1>3. ASSUME CbFirst, TypeInv, Arriving, InStep, [Next]_vars PROVE aborted' = aborted
    <2>1. ASSUME NEW m \in Machine, NEW k \in Read,
                 \/ RegisterReadDoneCb(m, k) \/ SendMsg(m, k)
                 \/ WorkerDoRead(m, k) \/ PostPleaseWrite(m, k)
          PROVE  aborted' = aborted
      BY <2>1 DEF RegisterReadDoneCb, SendMsg, WorkerDoRead, PostPleaseWrite
    <2>2. ASSUME NEW m \in Machine,
                 \/ RecvUserMsg(m) \/ RecvPleaseWrite(m) \/ RecvFreeBufferPair(m) \/ RecvElement(m)
          PROVE  aborted' = aborted
      BY <2>2 DEF RecvUserMsg, RecvPleaseWrite, RecvFreeBufferPair, RecvElement, OnRecv
    <2>3. ASSUME NEW m \in Machine,
                 \/ WriteLoop(m) \/ WritePiece(m) \/ ReadCb(m) \/ PostFreeBufferPair(m)
                 \/ PostRecvRequest(m) \/ Deliver(m)
          PROVE  aborted' = aborted
      BY <2>3 DEF WriteLoop, WritePiece, ReadCb, PostFreeBufferPair, PostRecvRequest, Deliver
    <2>4. CASE UNCHANGED vars
      BY <2>4 DEF vars
    <2>5. ASSUME NEW m \in Machine, PollCQ(m) PROVE aborted' = aborted
      BY <1>2, <1>3, <2>2, <2>3, <2>5 DEF PollCQ
    <2> QED BY <1>3, <2>1, <2>3, <2>4, <2>5 DEF Next
  <1>4. ASSUME NoEmptyRead, OneThread, CbFirst PROVE Spec => []NoCheckFailure
    <2>1. TypeInv /\ Arriving /\ InStep /\ NoCheckFailure /\ [Next]_vars => NoCheckFailure'
      BY <1>3, <1>4 DEF NoCheckFailure
    <2> QED BY <1>1, <1>4, <2>1, TypeInvariant, ArrivingInvariant, InStepInvariant, PTL DEF Spec
  <1> QED BY <1>4
--------------------------------------------------------------------------------
(* The read service.                                                       *)

\* The reads of the records of a queue.
ReadsOf(q) == [i \in DOMAIN q |-> q[i].read]

LEMMA ReadsOfQueue ==
  ASSUME NEW q \in Seq(Record)
  PROVE  /\ ReadsOf(q) \in Seq(Read) /\ Len(ReadsOf(q)) = Len(q)
         /\ \A i \in 1 .. Len(q) : ReadsOf(q)[i] = q[i].read
         /\ \A w \in Record : ReadsOf(Append(q, w)) = Append(ReadsOf(q), w.read)
         /\ q # <<>> => /\ ReadsOf(q) # <<>> /\ Head(ReadsOf(q)) = Head(q).read
                        /\ ReadsOf(Tail(q)) = Tail(ReadsOf(q))
  <1>1. ASSUME NEW x \in Seq(Record)
        PROVE  /\ ReadsOf(x) \in Seq(Read) /\ Len(ReadsOf(x)) = Len(x) /\ Len(x) \in Nat
               /\ \A i \in 1 .. Len(x) : ReadsOf(x)[i] = x[i].read
    <2>1. Len(x) \in Nat /\ DOMAIN x = 1 .. Len(x) /\ \A i \in 1 .. Len(x) : x[i] \in Record
      BY LenProperties, ElementOfSeq
    <2>2. \A i \in 1 .. Len(x) : x[i].read \in Read
      BY <2>1, Records
    <2>3. ReadsOf(x) \in [1 .. Len(x) -> Read]
      BY <2>1, <2>2 DEF ReadsOf
    <2>4. ReadsOf(x) \in Seq(Read) /\ DOMAIN ReadsOf(x) = 1 .. Len(x)
      BY <2>1, <2>3, SeqDef
    <2>5. Len(ReadsOf(x)) = Len(x)
      <3>1. Len(ReadsOf(x)) \in Nat /\ DOMAIN ReadsOf(x) = 1 .. Len(ReadsOf(x))
        BY <2>4, LenProperties
      <3>2. \A n1, n2 \in Nat : 1 .. n1 = 1 .. n2 => n1 = n2
        <4>1. \A n1, n2 \in Nat : n1 < n2 => n2 \in 1 .. n2 /\ n2 \notin 1 .. n1
          OBVIOUS
        <4>2. \A n1, n2 \in Nat : n1 < n2 \/ n2 < n1 \/ n1 = n2
          OBVIOUS
        <4> QED BY <4>1, <4>2
      <3> QED BY <2>1, <2>4, <3>1, <3>2
    <2> QED BY <2>1, <2>4, <2>5 DEF ReadsOf
  <1>2. ASSUME NEW w \in Record PROVE ReadsOf(Append(q, w)) = Append(ReadsOf(q), w.read)
    <2>1. Append(q, w) \in Seq(Record) /\ Len(Append(q, w)) = Len(q) + 1 /\ Len(q) \in Nat
          /\ \A i \in 1 .. Len(q) : Append(q, w)[i] = q[i] /\ Append(q, w)[Len(q) + 1] = w
      BY AppendProperties, LenProperties
    <2>2. w.read \in Read
      BY Records
    <2>3. /\ Append(ReadsOf(q), w.read) \in Seq(Read)
          /\ Len(Append(ReadsOf(q), w.read)) = Len(q) + 1
          /\ \A i \in 1 .. Len(q) : Append(ReadsOf(q), w.read)[i] = ReadsOf(q)[i]
          /\ Append(ReadsOf(q), w.read)[Len(q) + 1] = w.read
      BY <1>1, <2>2, AppendProperties
    <2>4. /\ ReadsOf(Append(q, w)) \in Seq(Read) /\ Len(ReadsOf(Append(q, w))) = Len(q) + 1
          /\ \A i \in 1 .. Len(q) + 1 : ReadsOf(Append(q, w))[i] = Append(q, w)[i].read
      BY <1>1, <2>1
    <2>5. Append(q, w)[Len(q) + 1] = w
      BY AppendProperties
    <2>6. \A i \in 1 .. Len(q) + 1 : i \in 1 .. Len(q) \/ i = Len(q) + 1
      BY <2>1
    <2>7. \A i \in 1 .. Len(q) + 1 : ReadsOf(Append(q, w))[i] = Append(ReadsOf(q), w.read)[i]
      BY <1>1, <2>1, <2>3, <2>4, <2>5, <2>6
    <2> QED BY <2>3, <2>4, <2>7, SeqEqual
  <1>3. ASSUME q # <<>>
        PROVE  /\ ReadsOf(q) # <<>> /\ Head(ReadsOf(q)) = Head(q).read
               /\ ReadsOf(Tail(q)) = Tail(ReadsOf(q))
    <2>1. /\ Tail(q) \in Seq(Record) /\ Len(q) \in Nat \ {0} /\ Len(Tail(q)) = Len(q) - 1
          /\ Head(q) = q[1] /\ DOMAIN Tail(q) = 1 .. Len(q) - 1
          /\ \A i \in DOMAIN Tail(q) : Tail(q)[i] = q[i + 1]
      BY <1>3, Ends
    <2>2. ReadsOf(q) # <<>>
      BY <1>1, <2>1, EmptySeq
    <2>3. /\ Tail(ReadsOf(q)) \in Seq(Read) /\ Len(Tail(ReadsOf(q))) = Len(q) - 1
          /\ Head(ReadsOf(q)) = ReadsOf(q)[1]
          /\ \A i \in 1 .. Len(q) - 1 : Tail(ReadsOf(q))[i] = ReadsOf(q)[i + 1]
      <3>1. ReadsOf(q) \in Seq(Read) /\ Len(ReadsOf(q)) = Len(q)
        BY <1>1
      <3> QED BY <2>2, <3>1, Ends
    <2>4. /\ ReadsOf(Tail(q)) \in Seq(Read) /\ Len(ReadsOf(Tail(q))) = Len(q) - 1
          /\ \A i \in 1 .. Len(q) - 1 : ReadsOf(Tail(q))[i] = Tail(q)[i].read
      BY <1>1, <2>1
    <2>5. \A i \in 1 .. Len(q) - 1 : i + 1 \in 1 .. Len(q)
      BY <2>1
    <2>6. \A i \in 1 .. Len(q) - 1 : ReadsOf(Tail(q))[i] = Tail(ReadsOf(q))[i]
      BY <1>1, <2>1, <2>3, <2>4, <2>5
    <2>7. 1 \in 1 .. Len(q)
      BY <2>1
    <2>8. ReadsOf(Tail(q)) = Tail(ReadsOf(q))
      BY <2>3, <2>4, <2>6, SeqEqual
    <2> QED BY <1>1, <2>1, <2>2, <2>3, <2>7, <2>8
  <1> QED BY <1>1, <1>2, <1>3

LEMMA RequestedReads ==
  /\ Requested = [s \in Machine |-> ReadsOf(read_queue[Peer(s)])]
  /\ Requested' = [s \in Machine |-> ReadsOf(read_queue'[Peer(s)])]
  BY DEF Requested, ReadsOf

\* A step that neither takes a read on nor finishes one.
LEMMA ServiceStutters ==
  ASSUME \A n \in Machine : ReadsOf(read_queue'[n]) = ReadsOf(read_queue[n]),
         read_cb' = read_cb, done_cb' = done_cb
  PROVE  UNCHANGED Service!vars
  <1>1. \A s \in Machine : ReadsOf(read_queue'[Peer(s)]) = ReadsOf(read_queue[Peer(s)])
    BY Peers
  <1>2. Requested' = Requested
    BY <1>1, RequestedReads
  <1> QED BY <1>2 DEF Service!vars

LEMMA PushRecordRequests ==
  ASSUME TypeInv, NEW m \in Machine, NEW k \in Read, Source[k] = Peer(m), PushRecord(m, k),
         read_cb' = read_cb, done_cb' = done_cb
  PROVE  Service!Request(k)
  <1> DEFINE p == Peer(m)
             q == read_queue[m]
             w == WorkRecord(k, 0)
  <1>1. p \in Machine /\ p # m /\ Peer(p) = m /\ \A n \in Machine : n = m \/ n = p
    BY Peers
  <1>2. q \in Seq(Record) /\ w \in Record /\ w.read = k
    BY Records DEF TypeInv, TypeOK
  <1> HIDE DEF w
  <1>3. read_queue'[m] = Append(q, w) /\ read_queue'[p] = read_queue[p]
    BY <1>1 DEF PushRecord, TypeInv, TypeOK, w
  <1>4. ReadsOf(read_queue'[m]) = Append(ReadsOf(q), k)
    BY <1>2, <1>3, ReadsOfQueue
  <1>5. Requested' = [Requested EXCEPT ![p] = Append(@, k)]
    <2>1. Requested[p] = ReadsOf(q) /\ DOMAIN Requested = Machine
      BY <1>1, RequestedReads
    <2>2. \A s \in Machine : ReadsOf(read_queue'[Peer(s)])
                               = IF s = p THEN Append(ReadsOf(q), k) ELSE Requested[s]
      BY <1>1, <1>3, <1>4, RequestedReads
    <2> HIDE DEF q
    <2> QED BY <1>1, <2>1, <2>2, RequestedReads
  <1> QED BY <1>5 DEF Service!Request

LEMMA ReadCbCompletes ==
  ASSUME TypeInv, InStep, NEW m \in Machine, ReadCb(m)
  PROVE  Service!Complete(Peer(m))
  <1> DEFINE p == Peer(m)
             q == read_queue[m]
             k == Head(q).read
  <1>1. p \in Machine /\ p # m /\ Peer(p) = m /\ \A n \in Machine : n = m \/ n = p
    BY Peers
  <1>2. /\ read_queue' = [read_queue EXCEPT ![m] = Tail(@)] /\ poller[m].at = "ReadCb"
        /\ read_cb' = read_cb \cup {k} /\ done_cb' = done_cb
    BY DEF ReadCb, At
  <1>3. q \in Seq(Record) /\ q # <<>>
    <2>1. HandlersOK(m)
      BY DEF TypeInv
    <2> QED BY <1>2, <2>1 DEF HandlersOK, TypeInv, TypeOK
  <1>4. read_queue'[m] = Tail(q) /\ read_queue'[p] = read_queue[p]
    BY <1>1, <1>2 DEF TypeInv, TypeOK
  <1>5. /\ ReadsOf(q) # <<>> /\ Head(ReadsOf(q)) = k
        /\ ReadsOf(read_queue'[m]) = Tail(ReadsOf(q))
    BY <1>3, <1>4, ReadsOfQueue
  <1>6. Requested[p] = ReadsOf(q) /\ DOMAIN Requested = Machine
    BY <1>1, RequestedReads
  <1>7. Requested' = [Requested EXCEPT ![p] = Tail(@)]
    <2>1. \A s \in Machine : ReadsOf(read_queue'[Peer(s)])
                               = IF s = p THEN Tail(ReadsOf(q)) ELSE Requested[s]
      BY <1>1, <1>4, <1>5, RequestedReads
    <2> HIDE DEF p, q
    <2>2. /\ DOMAIN Requested = Machine /\ Requested[p] = ReadsOf(q)
          /\ Requested' = [s \in Machine |-> ReadsOf(read_queue'[Peer(s)])]
      BY <1>6, RequestedReads
    <2>3. Requested' = [s \in Machine |-> IF s = p THEN Tail(ReadsOf(q)) ELSE Requested[s]]
      BY <2>1, <2>2
    <2> QED BY <1>1, <2>2, <2>3
  <1>8. k \notin done_cb
    <2>1. PICK G \in History : Pipe(p, G)
      BY <1>1 DEF InStep
    <2>2. Ordered(G) /\ Announcing(p, G) /\ Queueing(p, G) /\ Releasing(p, G)
      BY <2>1 DEF Pipe
    <2>3. /\ G.done \in Nat /\ G.copied \in Nat /\ G.pushed \in Nat /\ Len(G.reads) \in Nat
          /\ G.done <= G.copied /\ G.pushed <= Len(G.reads) /\ DOMAIN G.reads = 1 .. Len(G.reads)
          /\ \A a, b \in DOMAIN G.reads : G.reads[a] = G.reads[b] => a = b
          /\ \A a \in DOMAIN G.reads : G.reads[a] \in Read
      <3>1. /\ G.done \in Nat /\ G.told \in Nat /\ G.freed \in Nat /\ G.copied \in Nat
            /\ G.pushed \in Nat /\ G.handled \in Nat /\ G.asked \in Nat /\ Len(G.reads) \in Nat
            /\ G.done <= G.told /\ G.told <= G.freed /\ G.freed <= G.copied
            /\ G.pushed <= G.handled /\ G.handled <= G.asked /\ G.asked <= Len(G.reads)
        BY <2>2, Marks, InOrder
      <3>2. G.done <= G.copied /\ G.pushed <= Len(G.reads)
        BY <3>1
      <3> QED BY <2>2, <3>1, <3>2, Marks, InOrder
    <2>4. Len(q) \in Nat \ {0} /\ 1 \in DOMAIN q /\ Head(q) = q[1]
      BY <1>3, Ends
    <2>5. k = G.reads[G.copied + 1] /\ G.copied + Len(q) = G.pushed
      BY <1>1, <2>2, <2>4 DEF Queueing
    <2> HIDE DEF q, k
    <2>6. G.copied + 1 \in DOMAIN G.reads
      BY <2>3, <2>4, <2>5
    <2>7. \A a \in 1 .. G.done : a \in DOMAIN G.reads /\ a # G.copied + 1
      BY <2>3, <2>4, <2>5
    <2>8. k \in Read /\ Source[k] = p
      BY <2>2, <2>3, <2>5, <2>6 DEF Announcing
    <2>9. k \in done_cb /\ Source[k] = p <=> \E a \in 1 .. G.done : G.reads[a] = k
      BY <2>2, <2>8 DEF Releasing
    <2> QED BY <2>3, <2>5, <2>6, <2>7, <2>8, <2>9
  <1> HIDE DEF q, k
  <1>9. (read_cb \ done_cb)' = (read_cb \ done_cb) \cup {k}
    BY <1>2, <1>8
  <1> QED BY <1>2, <1>5, <1>6, <1>7, <1>9 DEF Service!Complete

LEMMA ReadDoneCbReleases ==
  ASSUME TypeInv, InStep, NEW m \in Machine, ReadDoneCb(m), read_done_cbs[m] # <<>>
  PROVE  \E k \in Read : Service!Release(k)
  <1> DEFINE c == read_done_cbs[m]
             k == Head(c)
  <1>1. /\ poller[m].at = "ReadDone" /\ done_cb' = done_cb \cup {k}
        /\ UNCHANGED <<read_queue, read_cb>>
    BY DEF ReadDoneCb, At
  <1>2. c \in Seq(Read) /\ c # <<>>
    BY DEF TypeInv, TypeOK
  <1>3. k \in Read /\ k = c[1] /\ 1 \in DOMAIN c
    BY <1>2, Ends
  <1>4. PICK G \in History : Pipe(m, G)
    BY DEF InStep
  <1>5. Ordered(G) /\ Announcing(m, G) /\ Releasing(m, G)
    BY <1>4 DEF Pipe
  <1>6. k = G.reads[G.done + 1]
    BY <1>3, <1>5 DEF Announcing
  <1>7. G.told = G.done + 1
    BY <1>1, <1>5 DEF Releasing
  <1>8. /\ G.done \in Nat /\ G.copied \in Nat /\ Len(G.reads) \in Nat
        /\ G.done + 1 <= G.copied /\ G.copied <= Len(G.reads) /\ DOMAIN G.reads = 1 .. Len(G.reads)
        /\ \A a, b \in DOMAIN G.reads : G.reads[a] = G.reads[b] => a = b
    <2>1. /\ G.done \in Nat /\ G.told \in Nat /\ G.freed \in Nat /\ G.copied \in Nat
          /\ G.told <= G.freed /\ G.freed <= G.copied
      BY <1>5, Marks, InOrder
    <2>2. /\ G.written \in Nat /\ G.taken \in Nat /\ G.queued \in Nat /\ G.wanted \in Nat
          /\ G.pushed \in Nat /\ G.copied <= G.written /\ G.written <= G.taken
          /\ G.taken <= G.queued /\ G.queued <= G.wanted /\ G.wanted <= G.pushed
      BY <1>5, Marks, InOrder
    <2>3. /\ G.handled \in Nat /\ G.asked \in Nat /\ Len(G.reads) \in Nat
          /\ G.pushed <= G.handled /\ G.handled <= G.asked /\ G.asked <= Len(G.reads)
      BY <1>5, Marks, InOrder
    <2>4. G.done + 1 <= G.copied
      BY <1>7, <2>1
    <2>5. G.copied <= G.pushed
      BY <2>1, <2>2
    <2>6. G.copied <= Len(G.reads)
      BY <2>1, <2>2, <2>3, <2>5
    <2> QED BY <1>5, <2>1, <2>3, <2>4, <2>6, Marks, InOrder
  <1> HIDE DEF c, k
  <1>9. G.done + 1 \in 1 .. G.copied /\ G.done + 1 \in DOMAIN G.reads
        /\ \A a \in 1 .. G.done : a \in DOMAIN G.reads /\ a # G.done + 1
    BY <1>8
  <1>10. Source[k] = m
    BY <1>3, <1>5, <1>6, <1>9 DEF Announcing
  <1>11. k \in read_cb
    <2>1. k \in read_cb /\ Source[k] = m <=> \E a \in 1 .. G.copied : G.reads[a] = k
      BY <1>3, <1>5 DEF Releasing
    <2> QED BY <1>6, <1>9, <2>1
  <1>12. k \notin done_cb
    <2>1. k \in done_cb /\ Source[k] = m <=> \E a \in 1 .. G.done : G.reads[a] = k
      BY <1>3, <1>5 DEF Releasing
    <2> QED BY <1>6, <1>8, <1>9, <1>10, <2>1
  <1>13. (read_cb \ done_cb)' = (read_cb \ done_cb) \ {k}
    BY <1>1
  <1>14. Requested' = Requested
    BY <1>1 DEF Requested
  <1>15. Service!Release(k)
    BY <1>1, <1>11, <1>12, <1>13, <1>14 DEF Service!Release
  <1> QED BY <1>3, <1>15

\* The read a completed user message asks for is one of the sender's.
LEMMA AskedOfPeer ==
  ASSUME TypeInv, InStep, NEW m \in Machine, RecvUserMsg(m)
  PROVE  Head(cq[m]).read \in Read /\ Source[Head(cq[m]).read] = Peer(m)
  <1> DEFINE p == Peer(m)
             wr == Head(cq[m])
             k == wr.read
  <1>1. p \in Machine /\ p # m /\ Peer(p) = m
    BY Peers
  <1>2. cq[m] # <<>> /\ wr.op = "UserMsg" /\ cq' = [cq EXCEPT ![m] = Tail(@)] /\ sq' = sq
    BY DEF RecvUserMsg, OnRecv
  <1>3. wr \in Request
    BY <1>2, Ends DEF TypeInv, TypeOK
  <1>4. k \in Read /\ wr = UserMsg(k) /\ wr \in Kind("UserMsg")
    BY <1>2, <1>3, Requests, Kinds
  <1> HIDE DEF wr, k
  <1>5. PICK G \in History : Pipe(p, G)
    BY <1>1 DEF InStep
  <1>6. Ordered(G) /\ Announcing(p, G) /\ Asking(p, G)
    BY <1>5 DEF Pipe
  <1>7. /\ G.handled \in Nat /\ G.asked \in Nat /\ Len(G.reads) \in Nat
        /\ DOMAIN G.reads = 1 .. Len(G.reads) /\ G.asked <= Len(G.reads)
    BY <1>6, Marks, InOrder
  <1>8. G.handled < G.asked /\ wr = UserMsgs(G)[G.handled + 1]
    <2>1. Lists(Out(p), Kind("UserMsg"), G.handled, G.asked, UserMsgs(G))
      BY <1>6 DEF Asking
    <2>2. /\ cq[m] # <<>> /\ cq' = [cq EXCEPT ![m] = Tail(@)] /\ UNCHANGED sq
          /\ Head(cq[m]) \in Kind("UserMsg")
      BY <1>2, <1>4 DEF wr
    <2>3. /\ G.handled < G.asked /\ Head(cq[m]) = UserMsgs(G)[G.handled + 1]
          /\ Lists(Out(p)', Kind("UserMsg"), G.handled + 1, G.asked, UserMsgs(G))
      BY <1>7, <2>1, <2>2, RecvLists
    <2> QED BY <2>3 DEF wr
  <1>9. G.handled + 1 \in DOMAIN G.reads
    BY <1>7, <1>8
  <1>10. wr = UserMsg(G.reads[G.handled + 1])
    BY <1>7, <1>8, <1>9 DEF UserMsgs
  <1>11. G.reads[G.handled + 1] = k
    BY <1>10, RequestFields DEF k
  <1>12. Source[k] = p
    BY <1>4, <1>6, <1>9, <1>11 DEF Announcing
  <1> QED BY <1>4, <1>12 DEF k, wr

\* SyncRead moves the offset of the front record, and fails without it.
LEMMA SyncReadStutters ==
  ASSUME TypeInv, NEW m \in Machine, SyncRead(m)
  PROVE  UNCHANGED Service!vars
  <1>1. CASE Abort(m)
    BY <1>1, ServiceStutters DEF Abort, qp_vars, cb_vars
  <1>2. CASE ~Abort(m)
    <2> DEFINE q == read_queue[m]
               d == read_queue'[m]
    <2>1. q # <<>> /\ SyncedFrom(m, q, Head(cq[m]).imm, TransferBytes(q[1]))
      BY <1>2, Synced
    <2>2. /\ DOMAIN d = DOMAIN q /\ d[1].read = q[1].read
          /\ \A i \in DOMAIN q : i # 1 => d[i] = q[i]
          /\ read_queue'[Peer(m)] = read_queue[Peer(m)]
      BY <2>1 DEF SyncedFrom
    <2>3. \A i \in DOMAIN q : d[i].read = q[i].read
      BY <2>2
    <2>4. ReadsOf(d) = ReadsOf(q)
      BY <2>2, <2>3 DEF ReadsOf
    <2>5. \A n \in Machine : ReadsOf(read_queue'[n]) = ReadsOf(read_queue[n])
      BY <2>2, <2>4, Peers
    <2>6. read_cb' = read_cb /\ done_cb' = done_cb
      BY <1>2 DEF SyncRead, cb_vars
    <2> QED BY <2>5, <2>6, ServiceStutters
  <1> QED BY <1>1, <1>2

LEMMA ServiceInit == Init => Service!Init
  <1> SUFFICES ASSUME Init PROVE Service!Init
    OBVIOUS
  <1>1. \A s \in Machine : read_queue[Peer(s)] = <<>>
    BY Peers DEF Init
  <1>2. ReadsOf(<<>>) = <<>>
    <2>1. <<>> \in Seq(Record) /\ Len(<<>>) = 0
      BY EmptySeq
    <2>2. ReadsOf(<<>>) \in Seq(Read) /\ Len(ReadsOf(<<>>)) = 0
      BY <2>1, ReadsOfQueue
    <2> QED BY <2>2, EmptySeq
  <1>3. Requested = [s \in Machine |-> <<>>]
    BY <1>1, <1>2, RequestedReads
  <1>4. read_cb \ done_cb = {} /\ done_cb = {}
    BY DEF Init
  <1> QED BY <1>3, <1>4 DEF Service!Init

LEMMA ServiceNext ==
  ASSUME TypeInv, InStep, [Next]_vars
  PROVE  [Service!Next]_(Service!vars)
  <1> DEFINE Goal == [Service!Next]_(Service!vars)
  <1>1. ASSUME NEW m \in Machine, NEW k \in Read, WorkerDoRead(m, k) PROVE Goal
    <2>1. Service!Request(k)
      BY <1>1, SourceOf, PushRecordRequests DEF WorkerDoRead, cb_vars
    <2> QED BY <2>1 DEF Service!Next
  <1>2. ASSUME NEW m \in Machine, RecvUserMsg(m) PROVE Goal
    <2> DEFINE k == Head(cq[m]).read
    <2>1. k \in Read /\ Source[k] = Peer(m)
      BY <1>2, AskedOfPeer
    <2>2. read_cb' = read_cb /\ done_cb' = done_cb
      BY <1>2 DEF RecvUserMsg, cb_vars
    <2>3. PushRecord(m, k) \/ read_queue' = read_queue
      BY <1>2 DEF RecvUserMsg, qp_vars
    <2>4. CASE PushRecord(m, k)
      <3>1. Service!Request(k)
        BY <2>1, <2>2, <2>4, PushRecordRequests
      <3> QED BY <2>1, <3>1 DEF Service!Next
    <2>5. CASE read_queue' = read_queue
      BY <2>2, <2>5, ServiceStutters
    <2> QED BY <2>3, <2>4, <2>5
  <1>3. ASSUME NEW m \in Machine, ReadCb(m) PROVE Goal
    <2>1. Service!Complete(Peer(m)) /\ Peer(m) \in Machine
      BY <1>3, ReadCbCompletes, Peers
    <2> QED BY <2>1 DEF Service!Next
  <1>4. ASSUME NEW m \in Machine, ReadDoneCb(m) PROVE Goal
    <2>1. CASE read_done_cbs[m] # <<>>
      <3>1. \E k \in Read : Service!Release(k)
        BY <1>4, <2>1, ReadDoneCbReleases
      <3> QED BY <3>1 DEF Service!Next
    <2>2. CASE read_done_cbs[m] = <<>>
      BY <1>4, <2>2, ServiceStutters DEF ReadDoneCb, Abort, qp_vars, cb_vars
    <2> QED BY <2>1, <2>2
  <1>5. ASSUME UNCHANGED <<read_queue, read_cb, done_cb>> PROVE Goal
    BY <1>5, ServiceStutters
  <1>6. ASSUME NEW m \in Machine, NEW k \in Read,
               RegisterReadDoneCb(m, k) \/ SendMsg(m, k) \/ PostPleaseWrite(m, k)
        PROVE  UNCHANGED <<read_queue, read_cb, done_cb>>
    BY <1>6 DEF RegisterReadDoneCb, SendMsg, PostPleaseWrite, qp_vars, cb_vars
  <1>7. ASSUME NEW m \in Machine,
               \/ RecvPleaseWrite(m) \/ RecvFreeBufferPair(m) \/ RecvElement(m) \/ WriteLoop(m)
               \/ WritePiece(m) \/ PostFreeBufferPair(m) \/ PostRecvRequest(m) \/ Deliver(m)
        PROVE  UNCHANGED <<read_queue, read_cb, done_cb>>
    BY <1>7 DEF RecvPleaseWrite, RecvFreeBufferPair, RecvElement, WriteLoop, WritePiece,
                PostFreeBufferPair, PostRecvRequest, Deliver, qp_vars, cb_vars
  <1>8. ASSUME UNCHANGED vars PROVE Goal
    <2>1. UNCHANGED <<read_queue, read_cb, done_cb>>
      BY <1>8 DEF vars, qp_vars, cb_vars
    <2> QED BY <1>5, <2>1
  <1>9. ASSUME NEW m \in Machine, SyncRead(m) PROVE Goal
    BY <1>9, SyncReadStutters
  <1>10. ASSUME NEW m \in Machine, PollCQ(m) \/ Deliver(m) PROVE Goal
    <2>1. \/ RecvUserMsg(m) \/ SyncRead(m) \/ ReadDoneCb(m) \/ ReadCb(m)
          \/ RecvPleaseWrite(m) \/ RecvFreeBufferPair(m) \/ RecvElement(m) \/ WriteLoop(m)
          \/ WritePiece(m) \/ PostFreeBufferPair(m) \/ PostRecvRequest(m) \/ Deliver(m)
      BY <1>10 DEF PollCQ
    <2> HIDE DEF Goal
    <2> QED BY <1>2, <1>3, <1>4, <1>5, <1>7, <1>9, <2>1
  <1> HIDE DEF Goal
  <1>11. ASSUME NEW m \in Machine, NEW k \in Read,
                \/ RegisterReadDoneCb(m, k) \/ SendMsg(m, k)
                \/ WorkerDoRead(m, k) \/ PostPleaseWrite(m, k)
         PROVE  Goal
    BY <1>1, <1>5, <1>6, <1>11
  <1>12. Goal
    <2>1. Next \/ UNCHANGED vars
      OBVIOUS
    <2>2. CASE Next
      BY <1>10, <1>11, <2>2 DEF Next
    <2> QED BY <1>8, <2>1, <2>2
  <1> QED BY <1>12 DEF Goal

\* The connection implements the read service: whatever the pollers, the other
\* threads and the deliveries do, the reads of one source complete in the order
\* of DoRead, and a source is told of a read once, after its last byte is copied.
THEOREM ImplementsReadService == NoEmptyRead /\ OneThread => (Spec => ServiceRefinement)
  <1>1. ASSUME NoEmptyRead, OneThread PROVE Spec => ServiceRefinement
    <2>1. TypeInv /\ InStep /\ [Next]_vars => [Service!Next]_(Service!vars)
      BY ServiceNext
    <2> QED BY <1>1, <2>1, ServiceInit, TypeInvariant, InStepInvariant,
               PTL DEF Spec, ServiceRefinement, Service!Spec
  <1> QED BY <1>1
--------------------------------------------------------------------------------
(* No two machines wait for each other.                                    *)

\* When the write helper's loop has ended, it waits for a buffer with none
\* idle, or it has nothing to write.
Parked ==
  \A m \in Machine :
    ~writing[m] =>
      \/ cur_write_handle[m] = "RequestBuffer" /\ idle_buffer_queue[m] = <<>>
      \/ /\ cur_write_handle[m] = "InitWriteHandle"
         /\ cur_record_queue[m] = <<>>
         /\ pending_record_queue[m] = <<>>

LEMMA ParkedNext == TypeInv /\ Parked /\ [Next]_vars => Parked'
  <1> SUFFICES ASSUME TypeInv, Parked, [Next]_vars PROVE Parked'
    OBVIOUS
  <1>1. /\ pending_record_queue \in [Machine -> Seq(Record)]
        /\ cur_record_queue \in [Machine -> Seq(Record)]
        /\ idle_buffer_queue \in [Machine -> Seq(Buffer)]
        /\ cur_write_handle \in [Machine -> Handle]
        /\ writing \in [Machine -> BOOLEAN]
    BY DEF TypeInv, TypeOK
  <1>2. ASSUME UNCHANGED helper_vars PROVE Parked'
    BY <1>2 DEF Parked, helper_vars
  <1>3. ASSUME NEW m \in Machine, NEW r, AsyncWrite(m, r) PROVE Parked'
    BY <1>1, <1>3 DEF Parked, AsyncWrite, StartWriting
  <1>4. ASSUME NEW m \in Machine, NEW b, FreeBuffer(m, b) PROVE Parked'
    BY <1>1, <1>4 DEF Parked, FreeBuffer, StartWriting, queues
  <1>5. ASSUME NEW m \in Machine, InitWriteHandle(m) PROVE Parked'
    BY <1>1, <1>5 DEF Parked, InitWriteHandle, SwapQueues, StopWriting, queues
  <1>6. ASSUME NEW m \in Machine, RequestBuffer(m) PROVE Parked'
    BY <1>1, <1>6 DEF Parked, RequestBuffer, StopWriting, queues
  <1>7. ASSUME NEW m \in Machine, DoCurWrite(m) PROVE Parked'
    BY <1>1, <1>7 DEF Parked, DoCurWrite, HandleAfter, queues
  <1>8. ASSUME NEW m \in Machine, PollCQ(m) PROVE Parked'
    <2>1. CASE RecvPleaseWrite(m) \/ RecvFreeBufferPair(m)
      BY <1>3, <1>4, <2>1 DEF RecvPleaseWrite, RecvFreeBufferPair
    <2>2. CASE WriteLoop(m) \/ WritePiece(m)
      BY <1>5, <1>6, <1>7, <2>2 DEF WriteLoop, WritePiece
    <2>3. CASE RecvUserMsg(m) \/ RecvElement(m) \/ SyncRead(m)
      BY <1>2, <2>3 DEF RecvUserMsg, RecvElement, SyncRead, Abort
    <2>4. CASE ReadDoneCb(m) \/ ReadCb(m) \/ PostFreeBufferPair(m) \/ PostRecvRequest(m)
      BY <1>2, <2>4 DEF ReadDoneCb, ReadCb, PostFreeBufferPair, PostRecvRequest, Abort
    <2> QED BY <1>8, <2>1, <2>2, <2>3, <2>4 DEF PollCQ
  <1>9. ASSUME NEW m \in Machine, NEW k \in Read,
               \/ RegisterReadDoneCb(m, k) \/ SendMsg(m, k)
               \/ WorkerDoRead(m, k) \/ PostPleaseWrite(m, k)
        PROVE  Parked'
    BY <1>2, <1>9 DEF RegisterReadDoneCb, SendMsg, WorkerDoRead, PostPleaseWrite
  <1>10. ASSUME NEW m \in Machine, Deliver(m) PROVE Parked'
    BY <1>2, <1>10 DEF Deliver
  <1>11. CASE UNCHANGED vars
    BY <1>2, <1>11 DEF vars
  <1> QED BY <1>8, <1>9, <1>10, <1>11 DEF Next

\* Nothing is listed in an empty queue.
LEMMA ListsNone ==
  ASSUME NEW T, NEW lo \in Nat, NEW hi \in Nat, NEW M, Lists(<<>>, T, lo, hi, M)
  PROVE  hi <= lo
  <1>1. PICK f : f \in [lo + 1 .. hi -> DOMAIN <<>>]
    BY DEF Lists
  <1>2. DOMAIN <<>> = {}
    OBVIOUS
  <1>3. lo + 1 .. hi = {}
    BY <1>1, <1>2
  <1> QED BY <1>3

\* Nobody has anything to do: no handler runs, and the connection is empty,
\* for every receive request is posted.
LEMMA AtRest ==
  ASSUME TypeInv, ~\E m \in Machine : Moving(m)
  PROVE  /\ \A m \in Machine : /\ poller[m].at = "Poll" /\ ~writing[m] /\ announcing[m] = NoRead
                               /\ sq[m] = <<>> /\ cq[m] = <<>>
         /\ deferred = {} /\ dealing = {}
  <1>1. \A m \in Machine : /\ poller[m] = Polling /\ ~writing[m] /\ announcing[m] = NoRead
                           /\ cq[m] = <<>> /\ ~(sq[m] # <<>> /\ recv_wr[Peer(m)] > 0)
    BY DEF Moving
  <1>2. \A m \in Machine : recv_wr[m] > 0
    <2> SUFFICES ASSUME NEW m \in Machine PROVE recv_wr[m] > 0
      OBVIOUS
    <2>1. recv_wr[m] \in Nat /\ recv_wr[m] + Len(cq[m]) + Busy(m) = RecvWrNum
      BY ReadTransferAssumption DEF TypeInv, TypeOK, HandlersOK
    <2>2. Len(<<>>) = 0
      OBVIOUS
    <2>3. Len(cq[m]) = 0 /\ Busy(m) = 0
      BY <1>1, <2>2 DEF Busy
    <2> QED BY <2>1, <2>3, ReadTransferAssumption
  <1>3. \A m \in Machine : sq[m] = <<>>
    BY <1>1, <1>2, Peers
  <1>4. ASSUME NEW k \in deferred \cup dealing PROVE FALSE
    <2>1. k \in Read
      BY DEF TypeInv, TypeOK
    <2>2. PICK m \in Machine : m = Reader(k)
      BY <2>1, ReadTransferAssumption, Peers DEF Reader
    <2>3. \E j \in deferred \cup dealing : Reader(j) = m
      BY <1>4, <2>2
    <2>4. Moving(m)
      BY <2>3 DEF Moving
    <2> QED BY <2>4
  <1>5. \A m \in Machine : poller[m].at = "Poll"
    BY <1>1, Places2
  <1> QED BY <1>1, <1>3, <1>4, <1>5

\* Then every buffer is idle, so the write helper has nothing to write.
LEMMA HelperAtRest ==
  ASSUME TypeInv, HeldOnce, Parked, RegisterBufferNum > 0, ~\E m \in Machine : Moving(m),
         NEW s \in Machine
  PROVE  /\ cur_write_handle[s] = "InitWriteHandle"
         /\ cur_record_queue[s] = <<>> /\ pending_record_queue[s] = <<>>
  <1> DEFINE p == Peer(s)
  <1>1. /\ p \in Machine /\ ~writing[s] /\ sq[s] = <<>> /\ cq[s] = <<>> /\ sq[p] = <<>>
        /\ cq[p] = <<>> /\ poller[p].at = "Poll"
    BY AtRest, Peers
  <1>2. 0 \in Buffer
    BY WriteHelperAssumption DEF Buffer
  <1>3. PICK l \in {"idle", "held", "write", "arrived", "copied", "free", "freed"} : HeldAt(s, 0, l)
    BY <1>2 DEF HeldOnce, Somewhere
  <1>4. \A T : ~OneOf(<<>>, T)
    <2>1. DOMAIN <<>> = {}
      OBVIOUS
    <2> QED BY <2>1 DEF OneOf, Where
  <1>5. l \notin {"write", "arrived", "free", "freed"}
    BY <1>1, <1>3, <1>4 DEF HeldAt
  <1>6. l # "copied"
    BY <1>1, <1>3 DEF HeldAt, Copied
  <1>7. l # "held"
    <2>1. cur_write_handle[s] # "DoCurWrite"
      BY <1>1 DEF TypeInv, HandlersOK
    <2> QED BY <1>3, <2>1 DEF HeldAt, Held
  <1>8. OneOf(idle_buffer_queue[s], {0})
    BY <1>3, <1>5, <1>6, <1>7 DEF HeldAt
  <1>9. idle_buffer_queue[s] # <<>>
    BY <1>4, <1>8
  <1> QED BY <1>1, <1>9 DEF Parked

\* And every mark of the history is at its end.
LEMMA MarksAtRest ==
  ASSUME TypeInv, HeldOnce, Parked, RegisterBufferNum > 0, ~\E m \in Machine : Moving(m),
         NEW s \in Machine, NEW G \in History, Pipe(s, G)
  PROVE  G.done = Len(G.reads)
  <1> DEFINE p == Peer(s)
  <1>1. /\ p \in Machine /\ Peer(p) = s
        /\ \A m \in Machine : /\ poller[m].at = "Poll" /\ announcing[m] = NoRead
                              /\ sq[m] = <<>> /\ cq[m] = <<>>
        /\ deferred = {} /\ dealing = {}
    BY AtRest, Peers
  <1>2. /\ cur_write_handle[s] = "InitWriteHandle"
        /\ cur_record_queue[s] = <<>> /\ pending_record_queue[s] = <<>>
    BY HelperAtRest
  <1>3. Out(s) = <<>> /\ Out(p) = <<>>
    <2>1. <<>> \o <<>> = <<>>
      OBVIOUS
    <2> QED BY <1>1, <2>1 DEF Out
  <1>4. /\ Ordered(G) /\ Announcing(s, G) /\ Asking(s, G) /\ Dealing(s, G) /\ Queueing(s, G)
        /\ Wanting(s, G) /\ Writing(s, G) /\ Streaming(s, G) /\ Flying(s, G) /\ Releasing(s, G)
    BY DEF Pipe
  <1> USE Marks
  <1>5. G.asked <= G.handled
    BY <1>3, <1>4, ListsNone DEF Asking
  <1>6. G.wanted <= G.queued
    BY <1>3, <1>4, ListsNone DEF Wanting
  <1>7. G.sent <= G.fetched
    BY <1>3, <1>4, ListsNone DEF Flying
  <1>8. G.freed <= G.told
    BY <1>3, <1>4, ListsNone DEF Releasing
  <1>9. /\ G.done <= G.told /\ G.told <= G.freed /\ G.freed <= G.copied
        /\ G.copied <= G.written /\ G.written <= G.taken /\ G.taken <= G.queued
        /\ G.queued <= G.wanted /\ G.wanted <= G.pushed /\ G.pushed <= G.handled
        /\ G.handled <= G.asked /\ G.asked <= Len(G.reads) /\ G.fetched <= G.sent
    BY <1>4, InOrder
  <1>10. Len(G.reads) = G.asked
    BY <1>1, <1>4 DEF Announcing
  <1>11. \A a \in 1 .. Len(G.reads) : G.reads[a] \in Read /\ Source[G.reads[a]] = s
    BY <1>4 DEF Announcing
  <1>12. G.handled <= G.pushed
    <2>1. ASSUME NEW a \in G.pushed + 1 .. G.handled PROVE FALSE
      <3>1. a \in 1 .. Len(G.reads)
        BY <1>9
      <3>2. G.reads[a] \in deferred
        BY <1>4, <1>11, <3>1 DEF Dealing
      <3> QED BY <1>1, <3>2
    <2>2. G.handled \notin G.pushed + 1 .. G.handled
      BY <2>1
    <2> QED BY <2>2
  <1>13. G.pushed <= G.wanted
    <2>1. ASSUME NEW a \in G.wanted + 1 .. G.pushed PROVE FALSE
      <3>1. a \in 1 .. Len(G.reads)
        BY <1>9
      <3>2. G.reads[a] \in dealing
        BY <1>4, <1>11, <3>1 DEF Dealing
      <3> QED BY <1>1, <3>2
    <2>2. G.pushed \notin G.wanted + 1 .. G.pushed
      BY <2>1
    <2> QED BY <2>2
  <1>14. G.taken = G.queued
    <2>1. Len(<<>>) = 0
      OBVIOUS
    <2> QED BY <1>2, <1>4, <2>1 DEF Writing
  <1>15. G.copied = G.taken
    <2>1. G.fetched = G.sent
      BY <1>7, <1>9
    <2>2. NextFetch(s, G) = NextSend(s, G)
      BY <1>4, <2>1 DEF Streaming
    <2>3. NextSend(s, G) = <<G.taken + 1, 0>>
      BY <1>2 DEF NextSend
    <2>4. \E o : NextFetch(s, G) = <<G.copied + 1, o>>
      BY <1>1 DEF NextFetch
    <2>5. G.copied + 1 = G.taken + 1
      BY <2>2, <2>3, <2>4
    <2> QED BY <2>5
  <1>16. G.told = G.done /\ G.copied = G.freed
    BY <1>1, <1>4 DEF Releasing
  <1> QED BY <1>5, <1>6, <1>8, <1>9, <1>10, <1>12, <1>13, <1>14, <1>15, <1>16

\* With at least one pair of buffers, no order of steps leaves the two machines
\* waiting for each other - for a receive request, a buffer, or a wake-up of
\* the write helper - with a read unfinished.
THEOREM NeverStuck ==
  NoEmptyRead /\ OneThread /\ RegisterBufferNum > 0 => (Spec => []NothingStuck)
  <1>1. ASSUME TypeInv, HeldOnce, InStep, Parked, RegisterBufferNum > 0 PROVE NothingStuck
    <2> SUFFICES ASSUME ~\E m \in Machine : Moving(m), NEW k \in announced PROVE k \in done_cb
      BY DEF NothingStuck
    <2>1. k \in Read /\ Source[k] \in Machine
      BY <1>1, ReadTransferAssumption DEF TypeInv, TypeOK
    <2>2. PICK G \in History : Pipe(Source[k], G)
      BY <1>1, <2>1 DEF InStep
    <2>3. PICK a \in DOMAIN G.reads : G.reads[a] = k
      BY <2>1, <2>2 DEF Pipe, Announcing
    <2>4. G.done = Len(G.reads)
      BY <1>1, <2>1, <2>2, MarksAtRest
    <2>5. a \in 1 .. G.done
      BY <2>2, <2>4, Marks
    <2> QED BY <2>1, <2>2, <2>3, <2>5 DEF Pipe, Releasing
  <1>2. Init => Parked
    BY DEF Init, HelperInit, Parked
  <1>3. ASSUME NoEmptyRead, OneThread, RegisterBufferNum > 0 PROVE Spec => []NothingStuck
    BY <1>1, <1>2, <1>3, ParkedNext, TypeInvariant, HeldOnceInvariant, InStepInvariant,
       PTL DEF Spec
  <1> QED BY <1>3
================================================================================
