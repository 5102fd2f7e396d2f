-------------------------------- MODULE SendPool --------------------------------
(***************************************************************************)
(* The sending side of one IBVerbsQP: the pool of registered message       *)
(* buffers (MsgMR), the work request ids, and the completions of sends and *)
(* RDMA writes.  PostSendRequest runs on any thread, several at a time,    *)
(* and on the poller's when a handler or a callback sends; only            *)
(* send_msg_buf_mtx_ orders them.  The device transmits requests in the    *)
(* order they were posted, and a buffer's content is what it holds at that *)
(* moment.  The poller handles one completion after the other.             *)
(***************************************************************************)
EXTENDS Integers, Sequences, FiniteSets

CONSTANTS Message,      \* calls of PostSendRequest
          HasCallback,  \* user messages sent with a callback
          Reply,        \* Reply[x]: messages the callback of x sends
          Piece,        \* calls of PostWriteRequest
          Elements,     \* Elements[p]: its sge_num
          NoMessage, NoBuffer

ASSUME SendPoolAssumption ==
  /\ HasCallback \subseteq Message
  /\ IsFiniteSet(Message)
  /\ Reply \in [HasCallback -> SUBSET Message]
  /\ \A x, y \in HasCallback : x # y => Reply[x] \cap Reply[y] = {}
  /\ Elements \in [Piece -> Nat \ {0}]
  /\ Message \cap Piece = {} /\ NoMessage \notin Message

VARIABLES call,                 \* where each call of PostSendRequest is
          msg_mr,               \* the buffer it has taken
          send_msg_buf,         \* buffers ready for reuse
          registered,           \* buffers ever created
          content,              \* the message, type and callback in each buffer
          outstanding_sge_cnt,  \* elements of a piece not yet reported
          posted,               \* elements of a piece posted
          live,                 \* work request ids allocated
          sq,                   \* requests posted, not yet transmitted
          cq,                   \* completions not yet handled
          poller,               \* what the poller is at
          delivered,            \* messages that have left, as they left
          called                \* messages whose callback was called

pool_vars == <<send_msg_buf, registered, content>>
write_vars == <<outstanding_sge_cnt, posted>>
vars == <<call, msg_mr, pool_vars, write_vars, live, sq, cq, poller, delivered, called>>

\* Buffers are named in the order of their creation.
Created == 1 .. registered

Polling == [at |-> "Poll"]
Calls == {"idle", "take", "set", "post", "done"}

\* Messages only a callback sends.
Replies == UNION {Reply[x] : x \in HasCallback}

Init == /\ call = [x \in Message |-> "idle"]
        /\ msg_mr = [x \in Message |-> NoBuffer]
        /\ send_msg_buf = <<>>
        /\ registered = 0
        /\ content = <<>>
        /\ outstanding_sge_cnt = [p \in Piece |-> 0]
        /\ posted = [p \in Piece |-> 0]
        /\ live = {}
        /\ sq = <<>>
        /\ cq = <<>>
        /\ poller = Polling
        /\ delivered = <<>>
        /\ called = {}
--------------------------------------------------------------------------------
(* PostSendRequest, a step between any two things other threads can see.   *)

Step(x, from, to) == call[x] = from /\ call' = [call EXCEPT ![x] = to]

\* SendMsg, DoRead or Register2NormalDone: any thread, at any time.
Enter(x) == /\ x \notin Replies
            /\ Step(x, "idle", "take")
            /\ UNCHANGED <<msg_mr, pool_vars, write_vars, live, sq, cq, poller, delivered,
                           called>>

\* Mutant: the buffer handed out stays in the pool.
GetOneSendMsgMRFromBufKeeping(x) ==
  IF send_msg_buf = <<>>
    THEN /\ registered' = registered + 1
         /\ msg_mr' = [msg_mr EXCEPT ![x] = registered']
         /\ content' = Append(content, NoMessage)
         /\ send_msg_buf' = <<registered'>>
    ELSE /\ msg_mr' = [msg_mr EXCEPT ![x] = Head(send_msg_buf)]
         /\ UNCHANGED pool_vars

\* Mutant: the pool does not grow beyond two buffers.
GetOneSendMsgMRFromBufFixed(x) ==
  IF send_msg_buf = <<>>
    THEN /\ registered < 2
         /\ registered' = registered + 1
         /\ msg_mr' = [msg_mr EXCEPT ![x] = registered']
         /\ content' = Append(content, NoMessage)
         /\ UNCHANGED send_msg_buf
    ELSE /\ msg_mr' = [msg_mr EXCEPT ![x] = Head(send_msg_buf)]
         /\ send_msg_buf' = Tail(send_msg_buf)
         /\ UNCHANGED <<registered, content>>

\* The oldest buffer of the pool, or a new one.
GetOneSendMsgMRFromBuf(x) ==
  IF send_msg_buf = <<>>
    THEN /\ registered' = registered + 1
         /\ msg_mr' = [msg_mr EXCEPT ![x] = registered']
         /\ content' = Append(content, NoMessage)
         /\ UNCHANGED send_msg_buf
    ELSE /\ msg_mr' = [msg_mr EXCEPT ![x] = Head(send_msg_buf)]
         /\ send_msg_buf' = Tail(send_msg_buf)
         /\ UNCHANGED <<registered, content>>

Take(x) == /\ Step(x, "take", "set")
           /\ GetOneSendMsgMRFromBuf(x)
           /\ UNCHANGED <<write_vars, live, sq, cq, poller, delivered, called>>

\* set_msg: bytes, type and callback replace those of the last message.
SetMsg(x) == /\ Step(x, "set", "post")
             /\ content' = [content EXCEPT ![msg_mr[x]] = x]
             /\ UNCHANGED <<msg_mr, send_msg_buf, registered, write_vars, live, sq, cq, poller,
                            delivered, called>>

\* NewWorkRequestId and ibv_post_send.
PostSend(x) == /\ Step(x, "post", "done")
               /\ live' = live \cup {x}
               /\ sq' = Append(sq, x)
               /\ UNCHANGED <<msg_mr, pool_vars, write_vars, cq, poller, delivered, called>>

PostSendRequest(x) == Take(x) \/ SetMsg(x) \/ PostSend(x)
--------------------------------------------------------------------------------
(* PostWriteRequest, on the poller's thread.                               *)

\* Mutant: the last element, which names the buffer, is not counted.
SgeCountShort(p) == Elements[p] - 1

SgeCount(p) == Elements[p]

\* RecvDone reaches the write helper, which writes a piece.
BeginWrite(p) == /\ poller = Polling
                 /\ posted[p] = 0
                 /\ poller' = [at |-> "Writing", piece |-> p]
                 /\ live' = live \cup {p}
                 /\ outstanding_sge_cnt' = [outstanding_sge_cnt EXCEPT ![p] = SgeCount(p)]
                 /\ UNCHANGED <<call, msg_mr, pool_vars, posted, sq, cq, delivered, called>>

\* One turn of the loop over the elements.
PostWrite(p) == /\ poller = [at |-> "Writing", piece |-> p]
                /\ sq' = Append(sq, p)
                /\ posted' = [posted EXCEPT ![p] = @ + 1]
                /\ poller' = IF posted'[p] = Elements[p] THEN Polling ELSE poller
                /\ UNCHANGED <<call, msg_mr, pool_vars, outstanding_sge_cnt, live, cq, delivered,
                               called>>
--------------------------------------------------------------------------------
\* The device transmits the oldest request and reports it (sq_sig_all).
Transmit == /\ sq # <<>>
            /\ delivered' = IF Head(sq) \in Message
                              THEN Append(delivered, content[msg_mr[Head(sq)]]) ELSE delivered
            /\ cq' = Append(cq, Head(sq))
            /\ sq' = Tail(sq)
            /\ UNCHANGED <<call, msg_mr, pool_vars, write_vars, live, poller, called>>
--------------------------------------------------------------------------------
(* PollCQ: IBV_WC_SEND and IBV_WC_RDMA_WRITE.                              *)

\* SendDone calls the callback the buffer holds.  The messages it sends are
\* sent from inside it.
SendDone(x) ==
  LET y == content[msg_mr[x]] IN
    /\ poller = Polling /\ cq # <<>> /\ Head(cq) = x
    /\ poller' = [at |-> "SendDone", msg |-> x, waits |-> IF y \in HasCallback THEN Reply[y]
                                                                             ELSE {}]
    /\ called' = IF y \in HasCallback THEN called \cup {y} ELSE called
    /\ call' = [z \in Message |-> IF z \in poller'.waits THEN "take" ELSE call[z]]
    /\ UNCHANGED <<msg_mr, pool_vars, write_vars, live, sq, cq, delivered>>

\* Mutant: the buffer is not given back.
ReleasedNot(x) == send_msg_buf

\* send_msg_buf_.push
Released(x) == Append(send_msg_buf, msg_mr[x])

\* The rest of SendDone, once the callback has returned.
Release(x) ==
  /\ poller.at = "SendDone" /\ poller.msg = x
  /\ \A z \in poller.waits : call[z] = "done"
  /\ send_msg_buf' = Released(x)
  /\ live' = live \ {x}
  /\ cq' = Tail(cq)
  /\ poller' = Polling
  /\ UNCHANGED <<call, msg_mr, registered, content, write_vars, sq, delivered, called>>

\* The id goes with the last of its elements.
RDMAWriteDone(p) ==
  /\ poller = Polling /\ cq # <<>> /\ Head(cq) = p
  /\ outstanding_sge_cnt' = [outstanding_sge_cnt EXCEPT ![p] = @ - 1]
  /\ live' = IF outstanding_sge_cnt'[p] = 0 THEN live \ {p} ELSE live
  /\ cq' = Tail(cq)
  /\ UNCHANGED <<call, msg_mr, pool_vars, posted, sq, poller, delivered, called>>

PollCQ == \/ \E x \in Message : SendDone(x) \/ Release(x)
          \/ \E p \in Piece : RDMAWriteDone(p) \/ PostWrite(p)

Next == \/ Transmit \/ PollCQ
        \/ \E x \in Message : Enter(x) \/ PostSendRequest(x)
        \/ \E p \in Piece : BeginWrite(p)

Spec == Init /\ [][Next]_vars

\* A call that has begun returns, the device transmits, the poller polls; who
\* sends what is left to the application and the peer.
FairSpec == /\ Spec
            /\ WF_vars(Transmit) /\ WF_vars(PollCQ)
            /\ \A x \in Message : WF_vars(PostSendRequest(x))
--------------------------------------------------------------------------------
\* Where the poller's thread is between two steps.
Place == {Polling} \cup [at : {"Writing"}, piece : Piece]
                   \cup [at : {"SendDone"}, msg : Message, waits : SUBSET Message]

\* Types.
TypeOK == /\ call \in [Message -> Calls]
          /\ registered \in 0 .. Cardinality(Message)
          /\ msg_mr \in [Message -> Created \cup {NoBuffer}]
          /\ send_msg_buf \in Seq(Created)
          /\ content \in [Created -> Message \cup {NoMessage}]
          /\ \A p \in Piece : outstanding_sge_cnt[p] \in 0 .. Elements[p]
          /\ \A p \in Piece : posted[p] \in 0 .. Elements[p]
          /\ live \subseteq Message \cup Piece
          /\ poller \in Place
          /\ sq \in Seq(Message \cup Piece) /\ cq \in Seq(Message \cup Piece)
          /\ delivered \in Seq(Message) /\ called \subseteq HasCallback

\* The calls and requests that use buffer r.
Users(r) == {x \in Message : msg_mr[x] = r /\ (call[x] \in {"set", "post"} \/ x \in live)}

\* Each message buffer is either in the pool, once, or used by one message,
\* from before its bytes are written until its callback has returned: no
\* thread overwrites a message that has not left or a callback not yet called,
\* and no buffer is lost.
BufferOwnership ==
  \A r \in Created :
    Cardinality(Users(r)) + Cardinality({i \in DOMAIN send_msg_buf : send_msg_buf[i] = r}) = 1

\* The requests and completions not yet dealt with that name id.
Naming(id) == {<<"sq", i>> : i \in {j \in DOMAIN sq : sq[j] = id}}
              \cup {<<"cq", i>> : i \in {j \in DOMAIN cq : cq[j] = id}}

\* A work request id lives exactly as long as something still to be posted,
\* transmitted or handled names it: none is used after DeleteWorkRequestId,
\* and none leaks.
WorkRequestsLive ==
  \A id \in Message \cup Piece :
    id \in live <=> \/ Naming(id) # {}
                    \/ poller = [at |-> "Writing", piece |-> id]

\* The messages of a queue, in their order.
MessagesOf(s) ==
  LET among[i \in 0 .. Len(s)] ==
        IF i = 0 THEN <<>>
        ELSE IF s[i] \in Message THEN Append(among[i - 1], s[i]) ELSE among[i - 1]
  IN  among[Len(s)]

Service == INSTANCE MessageService WITH posted <- MessagesOf(sq)

\* The queue pair implements the message service: nothing is lost, repeated,
\* altered or reordered, and each callback runs once, after its message left.
ServiceRefinement == Service!Spec

\* What is posted arrives, and the callback of what has left runs, although it
\* waits for the poller, and the poller for the buffers of what callbacks send.
ServiceProgress == Service!Fairness
================================================================================
