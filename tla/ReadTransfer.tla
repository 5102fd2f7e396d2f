------------------------------ MODULE ReadTransfer ------------------------------
(***************************************************************************)
(* A remote read from end to end over one connection (IBVerbsQP, its       *)
(* write helper, its read helper, the poller that drives them and the      *)
(* application on both machines):                                          *)
(*                                                                         *)
(*   source  SendMsg(k), RegisterReadDoneCb                                *)
(*   reader  handler: DoRead(k) - push on read_queue, send PleaseWrite     *)
(*   source  AsyncWrite(k): cut into pieces, RDMA-write each in a buffer   *)
(*   reader  SyncRead of each piece; after the last the reader's callback; *)
(*           send FreeBufferPair                                           *)
(*   source  FreeBuffer; after the last piece the read-done callback       *)
(*                                                                         *)
(* Every machine is both source and reader.  The connection is reliable    *)
(* and ordered (IBV_QPT_RC, unbounded retries); a request is delivered     *)
(* when the peer has posted a receive request, and an RDMA write moves the *)
(* send buffer's content at that moment.  Sizes count scatter/gather       *)
(* elements: SgeBytes is one unit and a buffer holds BufferBytes of them.  *)
(* Completions of the sending side touch none of this state (SendPool).    *)
(***************************************************************************)
EXTENDS WriteHelper, FiniteSets

CONSTANTS Source,      \* Source[k]: the machine whose memory read k reads
          RecvWrNum,   \* receive requests posted by PostAllRecvRequest
          CbFirst,     \* the application registers the callback, then sends
          Deferred,    \* reads whose handler leaves DoRead to another thread
          NoRead       \* "no read"

IntMax == 2147483647

\* The buffers are numbered by an int, up to but not with IntMax.
ASSUME ReadTransferAssumption == /\ IsFiniteSet(Machine) /\ Cardinality(Machine) = 2
                                 /\ Source \in [Read -> Machine]
                                 /\ RecvWrNum \in Nat \ {0}
                                 /\ CbFirst \in BOOLEAN
                                 /\ Deferred \subseteq Read
                                 /\ NoRead \notin Read
                                 /\ RegisterBufferNum <= IntMax

VARIABLES sq,             \* requests posted and not delivered
          cq,             \* receive completions not yet handled
          recv_wr,        \* posted receive requests
          poller,         \* where the poller's thread is
          read_queue,     \* records of the reads in progress here
          read_done_cbs,  \* callbacks registered for reads of this memory
          send_mem,       \* registered buffers the pieces leave from
          recv_mem,       \* registered buffers the pieces arrive in
          dst,            \* the memory each read copies into
          announcing,     \* the read the application is announcing
          announced,      \* reads whose announcement has begun
          deferred,       \* reads handed to other threads
          dealing,        \* reads pushed, their PleaseWrite not yet posted
          read_cb,        \* reads whose callback has run at the reader
          done_cb,        \* reads whose callback has run at the source
          aborted         \* machines where a CHECK has failed

net_vars == <<sq, cq, recv_wr>>
mem_vars == <<send_mem, recv_mem, dst>>
app_vars == <<announcing, announced, deferred>>
cb_vars == <<read_cb, done_cb>>
qp_vars == <<read_queue, read_done_cbs, dealing>>
vars == <<helper_vars, net_vars, poller, qp_vars, mem_vars, app_vars, cb_vars, aborted>>

Peer(m) == CHOOSE n \in Machine : n # m
Reader(k) == Peer(Source[k])

Unit == 0 .. BufferBytes - 1
Garbage == <<NoRead, 0>>
Data == Read \X Nat \cup {Garbage}
Blank == [b \in Buffer |-> [i \in Unit |-> Garbage]]

\* Unit i of the memory read k reads: gone once the source was told to free it.
SourceData(k, i) == IF k \in done_cb THEN Garbage ELSE <<k, i>>

\* The requests a connection carries.
UserMsg(k) == [op |-> "UserMsg", read |-> k]
PleaseWrite(k) == [op |-> "PleaseWrite", read |-> k]
FreeBufferPair(b, last) == [op |-> "FreeBufferPair", buffer |-> b, last |-> last]
\* imm: the last element of a piece names its buffer, the others say nothing.
RdmaWrite(b, i, imm) == [op |-> "RdmaWrite", buffer |-> b, block |-> i, imm |-> imm]

Polling == [at |-> "Poll"]
At(m, label) == poller[m].at = label /\ ~aborted[m]

Init ==
  /\ HelperInit
  /\ sq = [m \in Machine |-> <<>>]
  /\ cq = [m \in Machine |-> <<>>]
  /\ recv_wr = [m \in Machine |-> RecvWrNum]
  /\ poller = [m \in Machine |-> Polling]
  /\ read_queue = [m \in Machine |-> <<>>]
  /\ read_done_cbs = [m \in Machine |-> <<>>]
  /\ send_mem = [m \in Machine |-> Blank]
  /\ recv_mem = [m \in Machine |-> Blank]
  /\ dst = [k \in Read |-> [i \in 0 .. Bytes[k] - 1 |-> Garbage]]
  /\ announcing = [m \in Machine |-> NoRead]
  /\ announced = {}
  /\ deferred = {}
  /\ dealing = {}
  /\ read_cb = {}
  /\ done_cb = {}
  /\ aborted = [m \in Machine |-> FALSE]

\* ibv_post_send: the request joins the connection's send queue.
Post(m, requests) == sq' = [sq EXCEPT ![m] = @ \o requests]

\* std::queue::front on an empty queue, and the CHECK that follows it.
Abort(m) == /\ aborted' = [aborted EXCEPT ![m] = TRUE]
            /\ UNCHANGED <<helper_vars, net_vars, poller, qp_vars, mem_vars, app_vars, cb_vars>>
--------------------------------------------------------------------------------
(* The application: one thread announces its reads, two calls each.        *)

Begin(m, k) == /\ Source[k] = m /\ k \notin announced
               /\ announcing[m] = NoRead
               /\ announcing' = [announcing EXCEPT ![m] = k]
               /\ announced' = announced \cup {k}

End(m, k) == /\ announcing[m] = k
             /\ announcing' = [announcing EXCEPT ![m] = NoRead]
             /\ UNCHANGED announced

RegisterReadDoneCb(m, k) ==
  /\ ~aborted[m]
  /\ IF CbFirst THEN Begin(m, k) ELSE End(m, k)
  /\ read_done_cbs' = [read_done_cbs EXCEPT ![m] = Append(@, k)]
  /\ UNCHANGED <<helper_vars, net_vars, poller, read_queue, dealing, mem_vars, deferred,
                 cb_vars, aborted>>

SendMsg(m, k) ==
  /\ ~aborted[m]
  /\ IF CbFirst THEN End(m, k) ELSE Begin(m, k)
  /\ Post(m, <<UserMsg(k)>>)
  /\ UNCHANGED <<helper_vars, cq, recv_wr, poller, qp_vars, mem_vars, deferred, cb_vars,
                 aborted>>

\* DoRead and the first half of DealWorkRecord, under read_queue_mtx_.
PushRecord(m, k) ==
  /\ read_queue' = [read_queue EXCEPT ![m] = Append(@, WorkRecord(k, 0))]
  /\ dealing' = dealing \cup {k}
  /\ UNCHANGED read_done_cbs

\* A thread the handler left the read to.
WorkerDoRead(m, k) ==
  /\ ~aborted[m] /\ Reader(k) = m /\ k \in deferred
  /\ deferred' = deferred \ {k}
  /\ PushRecord(m, k)
  /\ UNCHANGED <<helper_vars, net_vars, poller, mem_vars, announcing, announced, cb_vars,
                 aborted>>

\* The second half of DealWorkRecord, after the mutex is released.
PostPleaseWrite(m, k) ==
  /\ ~aborted[m] /\ Reader(k) = m /\ k \in dealing
  /\ dealing' = dealing \ {k}
  /\ Post(m, <<PleaseWrite(k)>>)
  /\ poller' = IF poller[m] = [at |-> "Dealing", read |-> k]
                 THEN [poller EXCEPT ![m] = [at |-> "PostRecv"]] ELSE poller
  /\ UNCHANGED <<helper_vars, cq, recv_wr, read_queue, read_done_cbs, mem_vars, app_vars,
                 cb_vars, aborted>>
--------------------------------------------------------------------------------
(* The connection.                                                         *)

\* The oldest request consumes a receive request of the peer, and completes
\* there; one that finds none is retried without end (rnr_retry 7).
Deliver(m) ==
  LET p == Peer(m) IN
    /\ ~aborted[m] /\ ~aborted[p]
    /\ sq[m] # <<>> /\ recv_wr[p] > 0
    /\ LET wr == Head(sq[m]) IN
         /\ recv_mem' = IF wr.op # "RdmaWrite" THEN recv_mem
                        ELSE [recv_mem EXCEPT ![p][wr.buffer][wr.block] =
                                send_mem[m][wr.buffer][wr.block]]
         /\ cq' = [cq EXCEPT ![p] = Append(@, wr)]
    /\ sq' = [sq EXCEPT ![m] = Tail(@)]
    /\ recv_wr' = [recv_wr EXCEPT ![p] = @ - 1]
    /\ UNCHANGED <<helper_vars, poller, qp_vars, send_mem, dst, app_vars, cb_vars, aborted>>
--------------------------------------------------------------------------------
(* The poller's thread: one receive completion after the other.            *)

\* The handler of the oldest completion starts if it is of this kind, and
\* leaves the poller at next.
OnRecv(m, op, next) ==
  /\ At(m, "Poll")
  /\ cq[m] # <<>> /\ Head(cq[m]).op = op
  /\ cq' = [cq EXCEPT ![m] = Tail(@)]
  /\ poller' = [poller EXCEPT ![m] = next]
  /\ UNCHANGED <<recv_wr, aborted>>

\* RecvDone of a user message: the application's handler calls DoRead, here or
\* on a thread of its own.
RecvUserMsg(m) ==
  LET k == Head(cq[m]).read IN
    /\ \/ /\ OnRecv(m, "UserMsg", [at |-> "Dealing", read |-> k])
          /\ k \notin Deferred
          /\ PushRecord(m, k)
          /\ UNCHANGED deferred
       \/ /\ OnRecv(m, "UserMsg", [at |-> "PostRecv"])
          /\ k \in Deferred
          /\ deferred' = deferred \cup {k}
          /\ UNCHANGED qp_vars
    /\ UNCHANGED <<helper_vars, sq, mem_vars, announcing, announced, cb_vars>>

RecvPleaseWrite(m) ==
  /\ OnRecv(m, "PleaseWrite", [at |-> "PostRecv"])
  /\ AsyncWrite(m, WorkRecord(Head(cq[m]).read, 0))
  /\ UNCHANGED <<sq, qp_vars, mem_vars, app_vars, cb_vars>>

\* Mutant: every freed buffer counts as the last of its read.
AfterFreeAlways(wc) == "ReadDone"

AfterFree(wc) == IF wc.last THEN "ReadDone" ELSE "PostRecv"

RecvFreeBufferPair(m) ==
  LET wc == Head(cq[m]) IN
    /\ OnRecv(m, "FreeBufferPair", [at |-> AfterFree(wc)])
    /\ FreeBuffer(m, wc.buffer)
    /\ UNCHANGED <<sq, qp_vars, mem_vars, app_vars, cb_vars>>

\* The write helper's loop, called by the two handlers above.
WriteLoop(m) ==
  /\ ~aborted[m]
  /\ InitWriteHandle(m) \/ RequestBuffer(m)
  /\ UNCHANGED <<net_vars, poller, qp_vars, mem_vars, app_vars, cb_vars, aborted>>

\* (transfer_bytes - 1) / sge_bytes + 1 on size_t, as an int32_t: a transfer of
\* no bytes wraps around to no element at all.
SgeCount(record) == TransferBytes(record)

\* Mutant: the first element of a piece names the buffer.
PieceRequestsFirst(b, n) ==
  [i \in 1 .. n |-> RdmaWrite(b, i - 1, IF i = 1 THEN b ELSE IntMax)]

\* The requests PostWriteRequest posts for n elements of buffer b.
PieceRequests(b, n) ==
  [i \in 1 .. n |-> RdmaWrite(b, i - 1, IF i = n THEN b ELSE IntMax)]

\* DoCurWrite: the copy into the send buffer and PostWriteRequest.
WritePiece(m) ==
  LET r == cur_record[m]
      n == SgeCount(r)
      b == buffer_id[m]
  IN /\ ~aborted[m]
     /\ DoCurWrite(m)
     /\ send_mem' = [send_mem EXCEPT ![m][b] =
                       [i \in Unit |-> IF i < n THEN SourceData(r.read, r.offset + i)
                                                ELSE @[i]]]
     /\ Post(m, PieceRequests(b, n))
     /\ UNCHANGED <<cq, recv_wr, poller, qp_vars, recv_mem, dst, app_vars, cb_vars, aborted>>

\* The last FreeBufferPair of a read runs the oldest read-done callback.
ReadDoneCb(m) ==
  /\ At(m, "ReadDone") /\ ~writing[m]
  /\ \/ /\ read_done_cbs[m] = <<>>
        /\ Abort(m)
     \/ /\ read_done_cbs[m] # <<>>
        /\ done_cb' = done_cb \cup {Head(read_done_cbs[m])}
        /\ read_done_cbs' = [read_done_cbs EXCEPT ![m] = Tail(@)]
        /\ poller' = [poller EXCEPT ![m] = [at |-> "PostRecv"]]
        /\ UNCHANGED <<helper_vars, net_vars, read_queue, dealing, mem_vars, app_vars, read_cb,
                       aborted>>

\* Mutant: an element that is not the last gives no receive request back.
RecvElementKeeping(m) ==
  /\ OnRecv(m, "RdmaWrite", Polling)
  /\ Head(cq[m]).imm = IntMax
  /\ UNCHANGED <<helper_vars, sq, qp_vars, mem_vars, app_vars, cb_vars>>

\* RDMARecvDone of an element that is not the last of its piece.
RecvElement(m) ==
  /\ OnRecv(m, "RdmaWrite", [at |-> "PostRecv"])
  /\ Head(cq[m]).imm = IntMax
  /\ UNCHANGED <<helper_vars, sq, qp_vars, mem_vars, app_vars, cb_vars>>

\* RDMARecvDone of the last element: SyncRead copies the piece to the front
\* record's memory and moves its offset.
SyncRead(m) ==
  LET b == Head(cq[m]).imm
      r == Head(read_queue[m])
      transfer == TransferBytes(r)
      last == r.offset + transfer >= Bytes[r.read]
  IN /\ cq[m] # <<>> /\ Head(cq[m]).op = "RdmaWrite" /\ b # IntMax
     /\ \/ /\ At(m, "Poll") /\ read_queue[m] = <<>>
           /\ Abort(m)
        \/ /\ read_queue[m] # <<>>
           /\ OnRecv(m, "RdmaWrite", [at |-> IF last THEN "ReadCb" ELSE "PostFree",
                                      buffer |-> b, last |-> last])
           /\ dst' = [dst EXCEPT ![r.read] =
                [i \in DOMAIN @ |-> IF i \in r.offset .. r.offset + SgeCount(r) - 1
                                      THEN recv_mem[m][b][i - r.offset] ELSE @[i]]]
           /\ read_queue' = [read_queue EXCEPT ![m][1].offset = @ + transfer]
           /\ UNCHANGED <<helper_vars, sq, read_done_cbs, dealing, send_mem, recv_mem,
                          app_vars, cb_vars>>

\* PostSendRequest of the last FreeBufferPair first pops the record and runs
\* its callback.
ReadCb(m) ==
  /\ At(m, "ReadCb")
  /\ read_cb' = read_cb \cup {Head(read_queue[m]).read}
  /\ read_queue' = [read_queue EXCEPT ![m] = Tail(@)]
  /\ poller' = [poller EXCEPT ![m].at = "PostFree"]
  /\ UNCHANGED <<helper_vars, net_vars, read_done_cbs, dealing, mem_vars, app_vars, done_cb,
                 aborted>>

PostFreeBufferPair(m) ==
  /\ At(m, "PostFree")
  /\ Post(m, <<FreeBufferPair(poller[m].buffer, poller[m].last)>>)
  /\ poller' = [poller EXCEPT ![m] = [at |-> "PostRecv"]]
  /\ UNCHANGED <<helper_vars, cq, recv_wr, qp_vars, mem_vars, app_vars, cb_vars, aborted>>

\* The end of every receive handler.
PostRecvRequest(m) ==
  /\ At(m, "PostRecv") /\ ~writing[m]
  /\ recv_wr' = [recv_wr EXCEPT ![m] = @ + 1]
  /\ poller' = [poller EXCEPT ![m] = Polling]
  /\ UNCHANGED <<helper_vars, sq, cq, qp_vars, mem_vars, app_vars, cb_vars, aborted>>

PollCQ(m) ==
  \/ RecvUserMsg(m) \/ RecvPleaseWrite(m) \/ RecvFreeBufferPair(m)
  \/ RecvElement(m) \/ SyncRead(m)
  \/ WriteLoop(m) \/ WritePiece(m)
  \/ ReadDoneCb(m) \/ ReadCb(m) \/ PostFreeBufferPair(m) \/ PostRecvRequest(m)
--------------------------------------------------------------------------------
Next == \E m \in Machine :
          \/ PollCQ(m) \/ Deliver(m)
          \/ \E k \in Read : \/ RegisterReadDoneCb(m, k) \/ SendMsg(m, k)
                             \/ WorkerDoRead(m, k) \/ PostPleaseWrite(m, k)

Spec == Init /\ [][Next]_vars

\* Threads run, the connection delivers; only the announcement of a read is
\* left to the application's will, and it is finished once begun.
FairSpec ==
  /\ Spec
  /\ \A m \in Machine :
       /\ WF_vars(PollCQ(m)) /\ WF_vars(Deliver(m))
       /\ \A k \in Read :
            /\ WF_vars(IF CbFirst THEN SendMsg(m, k) ELSE RegisterReadDoneCb(m, k))
            /\ WF_vars(WorkerDoRead(m, k)) /\ WF_vars(PostPleaseWrite(m, k))
--------------------------------------------------------------------------------
Request == {UserMsg(k) : k \in Read} \cup {PleaseWrite(k) : k \in Read}
           \cup {FreeBufferPair(b, last) : b \in Buffer, last \in BOOLEAN}
           \cup {RdmaWrite(b, i, imm) : b \in Buffer, i \in Unit, imm \in Buffer \cup {IntMax}}

\* Where the poller's thread can be.
Place == {Polling, [at |-> "PostRecv"], [at |-> "ReadDone"]}
         \cup {[at |-> "Dealing", read |-> k] : k \in Read}
         \cup {[at |-> a, buffer |-> b, last |-> last] :
                 a \in {"ReadCb", "PostFree"}, b \in Buffer, last \in BOOLEAN}

\* Types, with the bound on receive requests.
TypeOK ==
  /\ pending_record_queue \in [Machine -> Seq(Record)]
  /\ cur_record_queue \in [Machine -> Seq(Record)]
  /\ idle_buffer_queue \in [Machine -> Seq(Buffer)]
  /\ cur_write_handle \in [Machine -> Handle]
  /\ cur_record \in [Machine -> Record \cup {NoRecord}]
  /\ buffer_id \in [Machine -> Buffer \cup {NoBuffer}]
  /\ writing \in [Machine -> BOOLEAN]
  /\ sq \in [Machine -> Seq(Request)]
  /\ cq \in [Machine -> Seq(Request)]
  /\ recv_wr \in [Machine -> 0 .. RecvWrNum]
  /\ poller \in [Machine -> Place]
  /\ read_queue \in [Machine -> Seq(Record)]
  /\ read_done_cbs \in [Machine -> Seq(Read)]
  /\ send_mem \in [Machine -> [Buffer -> [Unit -> Data]]]
  /\ recv_mem \in [Machine -> [Buffer -> [Unit -> Data]]]
  /\ DOMAIN dst = Read /\ \A k \in Read : dst[k] \in [0 .. Bytes[k] - 1 -> Data]
  /\ announcing \in [Machine -> Read \cup {NoRead}]
  /\ announced \subseteq Read /\ deferred \subseteq Read /\ dealing \subseteq Read
  /\ read_cb \subseteq Read /\ done_cb \subseteq Read
  /\ aborted \in [Machine -> BOOLEAN]

\* The queues behind read_queue_ and read_done_cbs_ are never popped empty: no
\* completion finds the bookkeeping of its read missing (CHECK(cb) included).
NoCheckFailure == \A m \in Machine : ~aborted[m]

Carries(wr, b) == \/ wr.op = "RdmaWrite" /\ wr.imm = b
                  \/ wr.op = "FreeBufferPair" /\ wr.buffer = b

\* The places that hold source m's right to fill buffer b.
Holders(m, b) ==
  LET p == Peer(m)
      In(q, op) == {i \in DOMAIN q : q[i].op = op /\ Carries(q[i], b)}
  IN {<<"idle", i>> : i \in {j \in DOMAIN idle_buffer_queue[m] : idle_buffer_queue[m][j] = b}}
     \cup {<<"held", x>> : x \in {y \in {b} : /\ cur_write_handle[m] = "DoCurWrite"
                                              /\ buffer_id[m] = y}}
     \cup {<<"write", i>> : i \in In(sq[m], "RdmaWrite")}
     \cup {<<"arrived", i>> : i \in In(cq[p], "RdmaWrite")}
     \cup {<<"copied", x>> : x \in {y \in {b} : /\ poller[p].at \in {"ReadCb", "PostFree"}
                                                /\ poller[p].buffer = y}}
     \cup {<<"free", i>> : i \in In(sq[p], "FreeBufferPair")}
     \cup {<<"freed", i>> : i \in In(cq[m], "FreeBufferPair")}

\* Each buffer pair has one holder across both machines and the connection, so
\* it is not refilled before its last piece was copied out, and never lost.
OneHolder == \A m \in Machine, b \in Buffer : Cardinality(Holders(m, b)) = 1

\* Machine m has something to do: its poller, its application, a thread of one
\* of its handlers, or its connection.
Moving(m) == \/ poller[m] # Polling \/ writing[m] \/ cq[m] # <<>>
             \/ announcing[m] # NoRead
             \/ \E k \in deferred \cup dealing : Reader(k) = m
             \/ sq[m] # <<>> /\ recv_wr[Peer(m)] > 0

\* The two machines never wait for each other: while a read is unfinished one
\* of them has something to do.  Neither the receive requests, which requests
\* need in both directions, nor the buffers, which only the peer's messages
\* bring back, run out for good.
NothingStuck == announced \subseteq done_cb \/ \E m \in Machine : Moving(m)

\* A reader's callback finds the bytes of its source, all of them and in place.
DataIntegrity ==
  \A k \in read_cb : \A i \in DOMAIN dst[k] : dst[k][i] = <<k, i>>

\* The reads in progress, by the machine whose memory they read.
Requested == [s \in Machine |-> [i \in DOMAIN read_queue[Peer(s)] |-> read_queue[Peer(s)][i].read]]
Service == INSTANCE ReadService WITH requested <- Requested,
                                     completed <- read_cb \ done_cb,
                                     released <- done_cb

\* The connection implements the read service: reads complete in the order of
\* DoRead, and a read's memory is released once, only after its last byte is
\* copied.
ServiceRefinement == Service!Spec

\* A read that the source announced is completed and released.
EveryReadReleased == \A k \in Read : k \in announced ~> k \in done_cb

\* What the service is to do comes about: the oldest read in progress completes
\* although its pieces share the buffers, and completed reads are released.
ServiceProgress == Service!Fairness /\ EveryReadReleased
================================================================================
