-------------------------------- MODULE Shutdown --------------------------------
(***************************************************************************)
(* The end of a program on two machines that read each other's memory, as  *)
(* the programs under test/ end: the main thread waits on a                *)
(* BlockingCounter that every read callback and every read-done callback   *)
(* decreases, then calls CommNet::Finalize, which stops the poller by a    *)
(* test-and-set flag, joins it and destroys the queue pair.                *)
(*                                                                         *)
(* It begins when every DoRead has posted its PleaseWrite; a read is one   *)
(* piece.  Requests that a destroyed queue pair has not sent are dropped,  *)
(* and so are the records its write helper still has.                      *)
(***************************************************************************)
EXTENDS Integers, Sequences, FiniteSets

CONSTANTS Machine,            \* the two machines
          Iterations,         \* reads each machine makes of its peer's memory
          RegisterBufferNum,
          BarrierBefore       \* the application meets its peer before Finalize

ASSUME ShutdownAssumption == /\ IsFiniteSet(Machine) /\ Cardinality(Machine) = 2
                             /\ Iterations \in Nat \ {0}
                             /\ RegisterBufferNum \in Nat \ {0}
                             /\ BarrierBefore \in BOOLEAN

VARIABLES main,            \* where the main thread is
          cnt_val,         \* the BlockingCounter
          poller,          \* where the poller's thread is
          poll_exit_flag,  \* the flag both test and set
          wc_vec,          \* completions the poller has taken from cq
          records,         \* records of the write helper, in hand or in its queues
          idle_buffers,    \* size of its idle_buffer_queue_
          sq,              \* requests posted, not yet delivered
          cq,              \* completions not yet polled
          destroyed        \* the queue pair is gone

thread_vars == <<main, cnt_val, poller, poll_exit_flag>>
helper_vars == <<records, idle_buffers>>
vars == <<thread_vars, wc_vec, helper_vars, sq, cq, destroyed>>

Peer(m) == CHOOSE n \in Machine : n # m

Request == {"PleaseWrite", "LastPiece", "FreeBufferPair"}

Init == /\ main = [m \in Machine |-> "Wait"]
        /\ cnt_val = [m \in Machine |-> 2 * Iterations]
        /\ poller = [m \in Machine |-> "Test"]
        /\ poll_exit_flag = [m \in Machine |-> FALSE]
        /\ wc_vec = [m \in Machine |-> <<>>]
        /\ records = [m \in Machine |-> 0]
        /\ idle_buffers = [m \in Machine |-> RegisterBufferNum]
        /\ sq = [m \in Machine |-> [i \in 1 .. Iterations |-> "PleaseWrite"]]
        /\ cq = [m \in Machine |-> <<>>]
        /\ destroyed = [m \in Machine |-> FALSE]

Main(m, from, to) == /\ main[m] = from
                     /\ main' = [main EXCEPT ![m] = to]

Poller(m, from, to) == /\ poller[m] = from
                       /\ poller' = [poller EXCEPT ![m] = to]
--------------------------------------------------------------------------------
(* PollCQ.                                                                 *)

\* Mutant: the flag is left set.
ClearNot(m) == poll_exit_flag

Clear(m) == [poll_exit_flag EXCEPT ![m] = FALSE]

\* while (poll_exit_flag_.test_and_set() == false)
TestExit(m) ==
  /\ \/ poll_exit_flag[m] /\ Poller(m, "Test", "Exit")
     \/ ~poll_exit_flag[m] /\ Poller(m, "Test", "Clear")
  /\ poll_exit_flag' = [poll_exit_flag EXCEPT ![m] = TRUE]
  /\ UNCHANGED <<helper_vars, main, cnt_val, wc_vec, sq, cq, destroyed>>

ClearFlag(m) ==
  /\ Poller(m, "Clear", "Poll")
  /\ poll_exit_flag' = Clear(m)
  /\ UNCHANGED <<helper_vars, main, cnt_val, wc_vec, sq, cq, destroyed>>

\* ibv_poll_cq: everything there is, none included.
PollCQ(m) ==
  /\ Poller(m, "Poll", "Handle")
  /\ wc_vec' = [wc_vec EXCEPT ![m] = cq[m]]
  /\ cq' = [cq EXCEPT ![m] = <<>>]
  /\ UNCHANGED <<helper_vars, main, cnt_val, poll_exit_flag, sq, destroyed>>

Handles(m, wc, next) == /\ wc_vec[m] # <<>> /\ Head(wc_vec[m]) = wc
                        /\ Poller(m, "Handle", next)
                        /\ wc_vec' = [wc_vec EXCEPT ![m] = Tail(@)]

\* Mutant: a callback decreases the counter for the release of its read, too.
DecreaseTwice(m) == cnt_val' = [cnt_val EXCEPT ![m] = @ - 2]

\* BlockingCounter::Decrease
Decrease(m) == cnt_val' = [cnt_val EXCEPT ![m] = @ - 1]

\* The write helper's loop: a piece for each record as long as there are idle
\* buffers.  The loop that AsyncWrite leaves out would find none.
WriteUntilQueueEmptyOrNoBuffer(m, queued, idle) ==
  LET pieces == IF queued < idle THEN queued ELSE idle IN
    /\ records' = [records EXCEPT ![m] = queued - pieces]
    /\ idle_buffers' = [idle_buffers EXCEPT ![m] = idle - pieces]
    /\ sq' = [sq EXCEPT ![m] = @ \o [i \in 1 .. pieces |-> "LastPiece"]]

\* RecvDone of PleaseWrite.
AsyncWrite(m) ==
  /\ Handles(m, "PleaseWrite", "Handle")
  /\ WriteUntilQueueEmptyOrNoBuffer(m, records[m] + 1, idle_buffers[m])
  /\ UNCHANGED <<main, cnt_val, poll_exit_flag, cq, destroyed>>

\* SyncRead of the last piece; the callback of the read is called.
ReadDone(m) ==
  /\ Handles(m, "LastPiece", "PostFree")
  /\ Decrease(m)
  /\ UNCHANGED <<helper_vars, main, poll_exit_flag, sq, cq, destroyed>>

\* PostSendRequest, after the callback.
PostFreeBufferPair(m) ==
  /\ Poller(m, "PostFree", "Handle")
  /\ sq' = [sq EXCEPT ![m] = Append(@, "FreeBufferPair")]
  /\ UNCHANGED <<helper_vars, main, cnt_val, poll_exit_flag, wc_vec, cq, destroyed>>

\* Mutant: the buffer becomes idle and the loop is not taken up again.
FreeBufferIdling(m) ==
  /\ Handles(m, "FreeBufferPair", "DoneCb")
  /\ idle_buffers' = [idle_buffers EXCEPT ![m] = @ + 1]
  /\ UNCHANGED <<main, cnt_val, poll_exit_flag, records, sq, cq, destroyed>>

\* RecvDone of the last FreeBufferPair: the buffer becomes idle, and the loop
\* is taken up again.
FreeBuffer(m) ==
  /\ Handles(m, "FreeBufferPair", "DoneCb")
  /\ WriteUntilQueueEmptyOrNoBuffer(m, records[m], idle_buffers[m] + 1)
  /\ UNCHANGED <<main, cnt_val, poll_exit_flag, cq, destroyed>>

\* The read-done callback, after FreeBuffer: what the loop has posted may have
\* come and gone by now.
ReadDoneCb(m) ==
  /\ Poller(m, "DoneCb", "Handle")
  /\ Decrease(m)
  /\ UNCHANGED <<helper_vars, main, poll_exit_flag, wc_vec, sq, cq, destroyed>>

EndOfBatch(m) ==
  /\ wc_vec[m] = <<>>
  /\ Poller(m, "Handle", "Test")
  /\ UNCHANGED <<helper_vars, main, cnt_val, poll_exit_flag, wc_vec, sq, cq, destroyed>>

PollerStep(m) == \/ TestExit(m) \/ ClearFlag(m) \/ PollCQ(m) \/ AsyncWrite(m)
                 \/ ReadDone(m) \/ PostFreeBufferPair(m) \/ FreeBuffer(m) \/ ReadDoneCb(m)
                 \/ EndOfBatch(m)
--------------------------------------------------------------------------------
\* The device delivers the oldest request to a queue pair that exists.
Deliver(m) ==
  /\ sq[m] # <<>> /\ ~destroyed[Peer(m)]
  /\ cq' = [cq EXCEPT ![Peer(m)] = Append(@, Head(sq[m]))]
  /\ sq' = [sq EXCEPT ![m] = Tail(@)]
  /\ UNCHANGED <<helper_vars, thread_vars, wc_vec, destroyed>>
--------------------------------------------------------------------------------
(* The main thread.                                                        *)

\* Mutant: the barrier is entered without waiting for the counter.
CounterReachedNot(m) == TRUE

CounterReached(m) == cnt_val[m] = 0

WaitUntilCntEqualZero(m) ==
  /\ CounterReached(m)
  /\ Main(m, "Wait", IF BarrierBefore THEN "Barrier" ELSE "Stop")
  /\ UNCHANGED <<helper_vars, cnt_val, poller, poll_exit_flag, wc_vec, sq, cq, destroyed>>

LeaveBarrier(m) ==
  /\ main[Peer(m)] # "Wait"
  /\ Main(m, "Barrier", "Stop")
  /\ UNCHANGED <<helper_vars, cnt_val, poller, poll_exit_flag, wc_vec, sq, cq, destroyed>>

\* Mutant: Stop stores TRUE without looking what was there.
StopStoring(m) ==
  /\ Main(m, "Stop", "Join")
  /\ poll_exit_flag' = [poll_exit_flag EXCEPT ![m] = TRUE]
  /\ UNCHANGED <<helper_vars, cnt_val, poller, wc_vec, sq, cq, destroyed>>

\* Stop spins until its own test-and-set finds the flag clear.
Stop(m) ==
  /\ ~poll_exit_flag[m]
  /\ Main(m, "Stop", "Join")
  /\ poll_exit_flag' = [poll_exit_flag EXCEPT ![m] = TRUE]
  /\ UNCHANGED <<helper_vars, cnt_val, poller, wc_vec, sq, cq, destroyed>>

\* Mutant: Stop does not join.
JoinedNot(m) == TRUE

\* poll_thread_.join()
Joined(m) == poller[m] = "Exit"

\* ibv_destroy_qp drops what the device has not sent or reported; the records
\* go with the write helper.
DestroyQP(m) == /\ destroyed' = [destroyed EXCEPT ![m] = TRUE]
                /\ sq' = [sq EXCEPT ![m] = <<>>]
                /\ cq' = [cq EXCEPT ![m] = <<>>]
                /\ UNCHANGED helper_vars

\* TearDown, once Stop has returned.
TearDown(m) ==
  /\ Joined(m)
  /\ Main(m, "Join", "Done")
  /\ DestroyQP(m)
  /\ UNCHANGED <<cnt_val, poller, poll_exit_flag, wc_vec>>

MainStep(m) == WaitUntilCntEqualZero(m) \/ LeaveBarrier(m) \/ Stop(m) \/ TearDown(m)

Next == \E m \in Machine : PollerStep(m) \/ Deliver(m) \/ MainStep(m)

Spec == Init /\ [][Next]_vars

\* Threads run and the device delivers.  Stop spins on the flag, which is clear
\* for all but one instruction of every turn of the poller's loop: a spin that
\* never meets it clear is ruled out.
FairSpec == /\ Spec
            /\ \A m \in Machine : /\ WF_vars(PollerStep(m)) /\ WF_vars(Deliver(m))
                                  /\ WF_vars(MainStep(m)) /\ SF_vars(Stop(m))
--------------------------------------------------------------------------------
\* Types.
TypeOK == /\ main \in [Machine -> {"Wait", "Barrier", "Stop", "Join", "Done"}]
          /\ cnt_val \in [Machine -> 0 .. 2 * Iterations]
          /\ poller \in [Machine -> {"Test", "Clear", "Poll", "Handle", "PostFree", "DoneCb",
                                    "Exit"}]
          /\ poll_exit_flag \in [Machine -> BOOLEAN]
          /\ wc_vec \in [Machine -> Seq(Request)]
          /\ records \in [Machine -> 0 .. Iterations]
          /\ idle_buffers \in [Machine -> 0 .. RegisterBufferNum]
          /\ sq \in [Machine -> Seq(Request)]
          /\ cq \in [Machine -> Seq(Request)]
          /\ destroyed \in [Machine -> BOOLEAN]

\* A queue pair is destroyed only when nothing of either machine is on its way
\* any more, so no callback is lost and no send reports an error, and only when
\* its write helper has no record left, in hand or in a queue: the CHECK of its
\* destructor, which looks into one of them, never fails.
NothingLost ==
  \A m \in Machine : destroyed[m] =>
    /\ \A p \in Machine : sq[p] = <<>> /\ cq[p] = <<>> /\ wc_vec[p] = <<>> /\ cnt_val[p] = 0
    /\ records[m] = 0 /\ idle_buffers[m] = RegisterBufferNum

\* Both sides use one flag, and the poller clears it: still no stop is cleared
\* away once Stop has got the flag, nothing else ends the poller's loop, and no
\* completion is handled on a queue pair that is destroyed.
StopNotMissed ==
  \A m \in Machine :
    /\ main[m] \in {"Join", "Done"} => poll_exit_flag[m] /\ poller[m] # "Clear"
    /\ poller[m] = "Exit" => main[m] \in {"Join", "Done"}
    /\ destroyed[m] => poller[m] = "Exit"

\* No BlockingCounter waits for nothing: while a callback is missing, a request
\* is on its way to a queue pair that exists, or at a poller that still runs.
NothingStuck ==
  (\E m \in Machine : cnt_val[m] > 0) =>
    \E p \in Machine :
      \/ sq[p] # <<>> /\ ~destroyed[Peer(p)]
      \/ /\ poller[p] # "Exit"
         /\ cq[p] # <<>> \/ wc_vec[p] # <<>> \/ poller[p] \in {"PostFree", "DoneCb"}

\* Both programs end: every counter reaches zero, both pollers see the flag,
\* and both calls of Finalize return.
BothFinish == <>(\A m \in Machine : main[m] = "Done")
================================================================================
