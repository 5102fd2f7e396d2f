# comm_network in TLA+

`comm_network` moves memory between machines: it sets up RDMA connections with
the help of a small control plane over gRPC, sends user messages, and lets one
machine read the memory of another through pairs of registered buffers. This
directory models that program, model-checks it with TLC on small instances, and
proves the properties of its write helper, its remote reads from end to end, its
slicing, its message buffers, its channel, its control plane, its start and its
shutdown with TLAPS for every instance.
Paths below are relative to `src/comm_network/`.

## The system

| component | state | operations | interacts with |
|---|---|---|---|
| `CommNet` (`comm_network.cpp`) | peers, pollers, message handlers | `Init`, `Finalize`, `RegisterMsgHandler`, `GetMsgHandler` | control plane (barriers), pollers, the network below |
| `IBVerbsCommNet` (`ibverbs/ibverbs_comm_network.cpp`) | queue pairs, completion queues | `SetUp`, `TearDown`, `SendMsg`, `DoRead`, `RegisterReadDoneCb`, `Normal2RegisterDone`, `Register2NormalDone` | calls `IBVerbsQP`; called by the application and the helpers |
| `IBVerbsQP` (`ibverbs/ibverbs_qp.cpp`) | `read_queue_`, `read_done_cbs_`, `send_msg_buf_`, `recv_msg_buf_`, registered buffers | post a send, a write, a receive; handle the four kinds of completions | the device, the helpers, the application's callbacks |
| `IBVerbsWriteHelper` | two record queues, idle buffers, current handle and record | `AsyncWrite`, `FreeBuffer`, the loop over `InitWriteHandle`, `RequestBuffer`, `DoCurWrite` | called by `RecvDone`, calls `PostWriteRequest` |
| `IBVerbsReadHelper` | none (the front of `read_queue_`) | `SyncRead` | called by `RDMARecvDone`, sends `FreeBufferPair` |
| `IBVerbsMemDesc` | elements of a registered buffer | constructor | device |
| `IBVerbsPoller` | `poll_exit_flag_`, its thread | `Start`, `Stop`, `PollCQ` | dispatches completions to queue pairs |
| `CtrlServer` | `kv_`, `pending_kv_calls_`, `barrier_calls_`, `this_machine_addr_` | the handlers of five calls, on one thread | gRPC |
| `CtrlClient` | stubs, heartbeat thread | blocking `Barrier`, `PushKV`, `PullKV`, `ClearKV`; `LoadServer` with its attempts; the heartbeat | one server per key, the master's for barriers, every machine's for `LoadServer` |
| `CtrlService`, `CtrlCall`, preprocessor macros | generated tables of methods | a position in the table on either side | client and server |
| `BlockingCounter` | a counter | `Decrease`, `WaitUntilCntEqualZero` | used by applications |
| `Channel` (`common/channel.h`) | a queue, a flag | `Send`, `Receive`, `ReceiveMany`, `Close` | used by nobody yet |

A read goes through all of the data path. The machine whose memory is read (the
source) announces it by a user message and registers a callback; the reader's
handler calls `DoRead`, which queues a record and sends `PleaseWrite`. The
source's write helper copies pieces into idle send buffers and writes each by
RDMA, element by element, the last carrying the buffer's id; the reader copies
the piece out, and after the last piece runs its callback; in any case it sends
`FreeBufferPair`. The source's buffer is idle again, and after the last piece
its read-done callback runs. No message names the read: both ends rely on order.

What is hard here: application threads and pollers share queues under separate
mutexes; order is assumed across two machines; every queue's end is signalled by
the absence of work; buffers, receive requests, work request ids and message
buffers are reused; machines start and stop at different times. `PROJECT.json`
lists each such hazard at its line, with the properties aimed at it.

What makes each part correct:
- write helper: each buffer in one place, no lost wake-up, pieces in order;
- read transfer: the right bytes, callbacks once and in time, every read ends;
- slicing: no byte missed, both ends agree;
- message path: buffers and ids with one owner, messages in order and unaltered;
- bring-up: no key cleared early, nobody sends early, handlers everywhere;
- control session: every machine learns its own id, no `CHECK` without a cause,
  the loss of one process ends all;
- channel: no lost wake-up, each item received once and in order;
- shutdown: nothing used after it is destroyed, nothing lost, both ends finish.

## The modules

| module | models | abstract specification |
|---|---|---|
| `WriteHelper` | the operations of `IBVerbsWriteHelper` (no environment) | |
| `WritePipeline` | `WriteHelper` closed by messages in any order | `PieceStream` |
| `ReadTransfer` | `WriteHelper` + `IBVerbsQP` + `SyncRead` + poller + application, both ends of a connection | `ReadService` |
| `Slicing` | the copying loops, byte by byte | |
| `SendPool` | the sending side of `IBVerbsQP`: message buffers, work request ids | `MessageService` |
| `CtrlServer` | control plane: server handlers and blocking calls (no environment) | |
| `BringUp` | `CtrlServer` closed by `Init`, `SetUp`, `RegisterMsgHandler` on every machine | |
| `Preprocessor`, `CtrlService` | the macros that count and number the methods, and the tables both sides build with them (no state) | |
| `CtrlSession` | `SetUpCommNet`, the attempts of `LoadServer`, the machine's id in `Init`, the heartbeat; machines that start and exit at any time | |
| `Channel` | a mutex, a condition variable, senders and receivers | `Mailbox` |
| `Shutdown` | poller flag, `Stop`, `Finalize`, `TearDown`, `BlockingCounter`, what the write helper still has | |
| `*_proofs` | theorems about the module of that name | |
| `MCWritePipeline`, `MCReadTransfer`, `MCSendPool`, `MCBringUp`, `MCCtrlSession` | constants for TLC | |

`BringUp` and `CtrlSession` share a program and are separate modules: no call of
the one changes state of the other, and a process that ends, which is what
`CtrlSession` is about, ends the whole of `BringUp`. `BringUp` also looks its calls
up in the tables of `CtrlService`: `CallsUnderstood` says that a call that is out, or
one of the heartbeat, has, at the position the macros gave it, the handler written
for it.

Variables and actions bear the names of the C++ members and methods
(`pending_record_queue` for `pending_record_queue_`, `DoCurWrite` for
`DoCurWrite()`). The exact lines are in the `map` of `PROJECT.json`.

**Granularity.** One action is one section of code that no other thread can see
into: a critical section, a device call, or thread-local code up to the next of
these. In `WriteHelper` one call of a handle is one step, and `writing[m]` says
the poller's thread is in the loop. `DealWorkRecord` is two steps, because the
mutex is released before `PleaseWrite` is posted. `PostSendRequest` is three
steps in `SendPool` (take a buffer, fill it, post it), where other threads
interleave, and one in `ReadTransfer`, which checks the order of requests and
not the buffers. The callback of a last piece and the `FreeBufferPair` after it
are two steps, in `ReadTransfer` and in `Shutdown`, and so are `FreeBuffer` and the
read-done callback after it: the pieces that `FreeBuffer` posts can be delivered
and answered before the callback runs.

**Data.** `ReadTransfer` counts sizes in elements of `SgeBytes`, and a unit of
memory is a pair (read, position), so it sees every misplaced or stale unit;
`Slicing` deals with bytes inside elements. In `CtrlServer` a key is its kind
and its two machines, and values are left out: a pull returns what was pushed
under that key. A callback that throws memory away makes the source's memory
garbage (`SourceData`), as `free(ptr)` does in the tests.

**Environment.** The connection is `IBV_QPT_RC`: ordered, reliable, retried
without end when no receive request is posted (`rnr_retry` 7), so `Deliver`
takes the oldest request and waits for one. Completions with an error are not
modelled: each fails `CHECK_EQ(wc.status, IBV_WC_SUCCESS)`. A failed `CHECK`, and
the front of an empty queue, which is undefined in C++ and in practice fails the
`CHECK(cb)` after it, sets `aborted`.

**Slips.** Some modules hold operators marked `Mutant:` next to the operator
they vary. No specification uses them. Each is a plausible slip in the code
(a dropped guard, an off-by-one, a missing barrier), listed under `mutants` in
`PROJECT.json` with a property that TLC finds violated once it takes the place
of the original: they show that every property can fail.

## What TLC checks

| run | instance | states | shows |
|---|---|---|---|
| `write_pipeline` | 1 machine, reads of 5, 2, 1 and 1 units, 2 buffers of 2 | 3,931 | `BufferOwnership`, `NoLostWakeup`, `StreamRefinement`, `StreamProgress` |
| `read_transfer` | 2 machines, two reads one way (5 and 1 units), one the other way (3), 2 buffers of 2, 2 receive requests | 74,614 | `NoCheckFailure`, `OneHolder`, `NothingStuck`, `DataIntegrity`, `ServiceRefinement`, `ServiceProgress` |
| `slicing` | buffers of 6 bytes in 3 elements, reads of 1 to 15 bytes | 197 | `PrefixIntact` |
| `bring_up` | 3 machines, keys on two servers, 2 handlers | 93,321 | `NoCheckFailure`, `TrafficReady`, `HandlersEverywhere`, `NothingStuck`, `CallsUnderstood`, `AllUp` |
| `ctrl_session` | 3 machines that start and exit at any time, 2 attempts | 136,344 | `IdsRight`, `NoSpuriousFailure`, `LossEndsAll`, `StartupEnds` |
| `send_pool` | 3 callers, one callback that sends, one write of 2 elements | 90,094 | `BufferOwnership`, `WorkRequestsLive`, `ServiceRefinement`, `ServiceProgress` |
| `channel` | 2 senders of 2 items, 3 receivers, one of them `ReceiveMany` | 29,662 | `NoLostWakeup`, `MailboxRefinement`, `MailboxProgress` |
| `shutdown` | 2 machines, 2 reads each way, 1 buffer each, a barrier before `Finalize` | 2,802 | `NothingLost`, `StopNotMissed`, `NothingStuck`, `BothFinish` |

A refinement comes as two properties: `StreamRefinement`, `ServiceRefinement` (of
`ReadTransfer` and of `SendPool`) and `MailboxRefinement` say that every step is one
of the abstract specification or a stutter, and are theorems; `StreamProgress`,
`ServiceProgress` and `MailboxProgress` say that the abstract fairness holds as well,
and for the reads, in so many words, that each one asked for gets done
(`EveryReadWritten`, `EveryReadReleased`).

Each run also checks its module's `TypeOK`. `CHECK_DEADLOCK FALSE` is set because
every one of these programs stops when its work is done. That it does not stop
before is what the invariants `NothingStuck` say (and `NoLostWakeup` where one
thread wakes another): work that is left has a step coming, and not only a poller
that turns round, or a call that its server holds. They are the safety half of the
liveness properties, which add that the work gets done.

**Why the bounds are enough.** Two buffers are the default and the least with
which one can be out while another is filled; a read of five units needs three
pieces, more than there are buffers, the last one partial, so the loop runs dry,
resumes, and meets a short piece. In
`write_pipeline` four reads are the least with which one is in hand, one waits in
the current queue and one in the pending queue, where a wrong swap reorders them.
In `read_transfer` a third read in the other direction makes one poller both
source and reader. Instances of the write helper share nothing, so one machine is enough
there. Two receive requests make the senders wait for each other's handlers. In
`bring_up` three machines give every machine two peers, so loops are half done
when others meet them, and barriers have a middle arrival; hashing may put a key
on any server, and two of them already let a `PushKV` and a `ClearKV` overtake
each other. In `ctrl_session` three machines let one be absent, one wait for it
and one be lost meanwhile; two attempts are the least with which an attempt is
repeated. In `channel` two receivers sleep while a third takes everything. In
`shutdown` two reads share one buffer, so a record waits for it in the helper.
The eight passing runs take the branches of all actions.

**Fairness.** Weak fairness of a thread's next step (threads run), of the
device's delivery (the connection is reliable), and of the servers. Nothing
makes an application announce a read, register a handler a second time or send;
a call once begun returns. In `WritePipeline`, `RecvFreeBufferPair` is strongly
fair for each buffer: its guard is closed while the loop runs, and a live reader
frees each piece it copied; `ReadTransfer` needs no such assumption, since the
queues there are explicit. In `Shutdown`, `Stop` is strongly fair: it spins on
`test_and_set` against a poller that holds the flag set only between two
adjacent instructions of each turn, so a spin that always hits that window is
excluded. Weak fairness alone would allow it for ever. In `CtrlSession` running
threads and servers are weakly fair, and so is the failure of a call to a process
that is gone, whose sockets the system has closed; the code sets no deadline, so
a machine that hangs without ending is outside the model. Nobody need start or
exit. In `Channel` only the receivers are fair: nothing makes anyone send or close.

### Where the code disagrees with its tests and comments

Four runs end in a counterexample; each is described under `findings`.

| run | what happens |
|---|---|
| `callback_after_send` | the tests send before they register the read-done callback; the read can finish in between, and `front()` is taken of an empty queue (`ibverbs_qp.cpp:302`) |
| `concurrent_do_read` | two threads in `DoRead`: records and requests end up in different orders and data are swapped (`ibverbs_qp.cpp:181`) |
| `second_handler` | `emplace` keeps the first handler for a type (`comm_network.cpp:47`); the tests register one each round |
| `finalize_alone` | a machine may destroy its queue pair with the peer's last `FreeBufferPair` unsent (`comm_network.cpp:35`), and the peer never gets its callback |

In `finalize_alone` the peer stays in `WaitUntilCntEqualZero` for good, because
`Shutdown` has no control plane. In the whole program the first machine then
returns from `main`, and within seconds the `CHECK` of the peer's heartbeat ends it
(`LossEndsAll`). In both the peer does not finish.

The passing runs make the assumptions under which the code is right: callbacks
first (`CbFirst`), one thread in `DoRead` towards a peer (a `Deferred` read, taken
on by a thread beside the poller, is the only read of its source), no empty reads,
`SgeNum` dividing the buffer, one handler for each type, a barrier before
`Finalize` (`BarrierBefore`).

Two of these need no run. A read of no bytes makes `transfer_bytes - 1` wrap
around (`ibverbs/ibverbs_write_helper.cpp:79`): no element is written, nothing
completes, and the read and its buffer are lost; assumptions of the modules
exclude it. That `SgeNum` must divide the buffer is a theorem, `UnevenSlicingLoses`.

In `Shutdown` a request whose receiver is already destroyed is never delivered.
The real device would retry it and report an error, which fails a `CHECK`; with
the barrier the situation does not arise (`NothingLost`).

## What is proved

Theorems hold for every value of the constants that meets the named assumptions.

`WritePipeline_proofs`, from `WriteHelperAssumption` (sizes and numbers are
naturals, a buffer is not empty) and `WritePipelineAssumption` (no empty read):
1. `TypeCorrect`: `Spec => []TypeOK`. Types alone are not inductive: `DoCurWrite`
   keeps the offset a natural and its piece non-empty only if the current record
   is real and has bytes left, and stores a piece under `buffer_id` only if that
   is a buffer. `HandleOK` adds this, and that queued records begin at offset 0.
2. `BuffersOwned`: `Spec => []BufferOwnership`, inductive on top of the first
   layer. The lemmas `AppendOnce` and `TakeOnce` say how a queue without repeats
   changes.
3. `NoWakeupLost`: `Spec => []NoLostWakeup`. It is not inductive: the state
   before the loop ends must say why it ended. `Parked` says there are two
   reasons only, no idle buffer or no record in either queue. In the first case
   nothing is idle and nothing held, so by ownership all buffers are out.
4. `ImplementsStream`: `Spec => StreamRefinement`. The mapping concatenates the record
   in hand and the two queues. Moving a record between the queues is a stutter,
   `AsyncWrite` is `Ask`, `DoCurWrite` is `Emit`, `FreeBuffer` is `Return`.

`ReadTransfer_proofs`, from `WriteHelperAssumption` and `ReadTransferAssumption` (two
machines; no more buffers than an `int` numbers below `IntMax`, which stands for "no
buffer" in the immediate value). Three further conditions are hypotheses of the
theorems that need them. `NoEmptyRead` is the condition described above. `OneThread`
is what a single poller thread per connection gives an application that calls `DoRead`
in its handler (another thread may take on the only read of a source); beside a second
read of the same source, a deferred one can be queued and asked for in different
orders, which is the run `concurrent_do_read`. `CbFirst` is the order of calls that
`callback_after_send` shows to be needed, and only `NoCheckFails` needs it.
1. `TypeCorrect`: `Spec => []TypeOK`. `HandlersOK` adds that the records in hand lie
   within their reads and that every receive request of the start is posted,
   completed or in the hands of the poller: `recv_wr` stays below its bound only
   because a handler that posts one has taken one.
2. `BuffersHeldOnce`: `NoEmptyRead => (Spec => []OneHolder)`. `HeldOnce` names the seven
   places a buffer pair can be in, and says that it is in one of them and nowhere
   else; each action moves it from one place to the next or leaves it.
3. `DataArrives`: `NoEmptyRead /\ OneThread => (Spec => []DataIntegrity)`.
4. `NoCheckFails`: with `CbFirst` also `Spec => []NoCheckFailure`.
5. `ImplementsReadService`: `NoEmptyRead /\ OneThread => (Spec => ServiceRefinement)`.
   `PushRecord` is `Request`, `ReadCb` is `Complete`, `ReadDoneCb` is `Release`.
6. `NeverStuck`: `NoEmptyRead /\ OneThread /\ RegisterBufferNum > 0 => (Spec =>
   []NothingStuck)`. Take a state in which an announced read is not released and
   nothing moves. The device waits for a receive request or has no request; as no
   handler runs and no completion is left, every receive request is posted, so the
   queues are empty. `HeldOnce` then leaves the buffers of each machine only one
   place, the idle queue, and `Parked` says that a write helper with idle buffers has
   ended its loop for want of records. Each stage a read goes through is therefore
   empty, the numbers of the history are all equal (`MarksAtRest`), and the read is
   among those released.

The last four rest on two more layers. `Arriving` says of a piece under way that all
its elements before the last have moved or are ahead of it, so the piece is whole when
the element that names its buffer completes. `InStep` is about order. As no message
names its read, what a queue holds can only be said by numbers: there is, for each
source, a history (`History`: its reads in the order of the announcements, its pieces in
the order they are written, and for each stage the number of reads that have passed
it), and each queue, message and handler has exactly the reads or pieces between two
of these numbers, in order (`Pipe`). A step moves one number by one, so a lemma per
action says which part of `Pipe` it changes, and the `...Keeps` lemmas that the others
stay. The history is a bound variable of the invariant; nothing is added to the
model. From it, the piece at the head of the completions belongs to the record at the
front of `read_queue` and continues where that one stands (`NextPiece`), the oldest
callback is that of the read just finished, and the memory of that read is not yet
released. `Lists` says that a queue holds these requests of a kind, in this order,
among others; its lemmas (nothing of the kind joins, the next one joins, the first one
leaves) carry the numbers through `sq` and `cq`.

`Slicing_proofs`: `TypeCorrect`: the loops never leave the buffers, the read or the
bytes of the source. `EvenSlicingIntact`: if `BufferBytes % SgeNum = 0` (assumption
`Even`) then `PrefixIntact` always holds, for every buffer, number of elements and
size of read. The invariant follows the copying loops: after `sge` elements
exactly `min(sge * SgeBytes, transfer_bytes)` bytes are in place, in the send
buffer, then in the receive buffer, then at the destination. `UnevenSlicingLoses`:
without the hypothesis every read of at least one buffer has lost a byte once its
first piece is passed, so it is necessary.

`Channel_proofs`, from `ChannelAssumption`:
1. `TypeCorrect`.
2. `NoWakeupLost`: `Spec => []NoLostWakeup`. The property is made inductive by its
   own form: it counts the receivers on their way back to the mutex against the
   queued items, rather than speaking of an empty queue. The lemmas say how one
   receiver entering or leaving a place changes that number.
3. `ImplementsMailbox`: `Spec => MailboxRefinement`, every step is one of `Mailbox` or a stutter.

`CtrlSession_proofs`, from `CtrlSessionAssumption` (machines have different
addresses): `TypeCorrect`, `IdsAlwaysRight` and `FailuresHaveACause`, all from
`SessionInv`. Neither property is inductive alone. `Visited` says whom a constructor
has told its address already, an answered call included; `Finishing` says that
whoever a response is on its way to still waits for it, or has ended; `Resting`
that the memory of an ended process counts for nothing; `Causes` that the first
end was a process leaving or waiting too long.

`Shutdown_proofs`, from `ShutdownAssumption` (two machines), with `BarrierBefore`
only where it is named:
1. `TypeCorrect`: in particular no `BlockingCounter` goes below zero.
2. `NothingIsLost`: `ASSUME BarrierBefore PROVE Spec => []NothingLost`.
3. `StopIsSeen`: `Spec => []StopNotMissed`. The invariant is `Flag`: the flag is set
   while the poller is between its test and its clear, and for good once `Stop` has
   got it. `Stop` gets it only when it is clear, that is when the poller is elsewhere;
   this is why it has to test and set. `Shape` adds that a queue pair is destroyed
   only after its poller has ended.
4. `NeverStuck`: `ASSUME BarrierBefore PROVE Spec => []NothingStuck`.

The argument is an account. `Due(m)` counts the callbacks machine `m` still has to
run by what is on its way: reads of either memory not yet written or read,
releases not yet posted or handled, and a callback that `FreeBuffer` has yet to
return to (`Running`). Each step moves one thing along this way and
leaves the sum alone, or takes it off together with one of the counter
(`AccountsBalance`). So the counter is never less than `Due`, and equal to it until
something is dropped; buffers are counted likewise. At the barrier both counters
are zero, so every summand is (`CountersAtZero`), so the queues are empty. Without
the barrier the accounts stay short by what a destroyed queue pair dropped, which
is why `TypeCorrect` and `StopIsSeen` need none. Read the other way the same accounts
give `NeverStuck`: with empty queues the buffers are all idle, so no record waits, so
`Due` is zero, and so is the counter. The lemmas on `Count` say how queue operations
change the number of occurrences of an element; `SendPool_proofs` has the ones it
needs as well.

`SendPool_proofs`, from `SendPoolAssumption` (finitely many messages, each reply
sent by one callback): `TypeCorrect`, `BuffersOwned` and `IdsLive`, all from
`PoolInv`. A buffer's owner is found through the id of its message, so ownership
needs `Sent`: from the post to the release exactly one request or completion names
the id, and the buffer still holds that message. `Handling` says that the poller
keeps the completion it handles at the head of the queue until the callback has
returned, `Unasked` that the messages of a callback have not begun before it runs,
`Written` that the counter of a write is what is still to be posted plus what the
queues name, so the last completion is the one that finds it at one.
`ImplementsMessageService`: `Spec => ServiceRefinement`. The mapping lists the messages
among the requests and completions of a queue (`MessagesOf`, a recursive function).
What the queue operations do to that list is a statement about every length; it is
proved by the least counterexample, which the order of the naturals gives
(`NatLessThanWellFounded`, `WFMin`) without the induction theorems.

`BringUp_proofs`, from `CtrlServerAssumption` and `BringUpAssumption` (finitely many
machines, a key for every ordered pair): `TypeCorrect`, `NoCheckFails`,
`ReadyForTraffic`, and `HandlersInPlace` under `OneHandlerPerType` and `SameOrder`,
all from `UpInv`. `Passed(m)` is the number of barriers that have let `m` go; the core
of the invariant is `InStep`, that it is the same for all machines. A barrier keeps
this because its list names machines held at it, each once (`Queue`), so a list of
as many as there are machines names them all (`AllIn`). From `InStep` the rest
follows: a machine that clears keys has passed one barrier, so nobody is still
pulling; one that has left `Init` has passed two, so everybody has finished the
loops between them. `Stored` ties each key to the stage of its owner, `Calling` the
call a machine has out to its own stage.
`NeverStuck`: `SameNumber => (Spec => []NothingStuck)`, where `SameNumber` is that all
machines register equally many handlers. Suppose that every machine that is not up is
held. None is held in a pull: its key would be missing (`Open`), while by `InStep` the
owner of the key is held in a pull or at the barrier after it, and so has pushed. So
all are held at barriers, nobody is up, and by `InStep` it is the same barrier. Its
list names whoever is held at it (`Listed`), hence every machine, yet a list in the
table is never full (`Open`): the last call empties it.
The tables: `IndicesInOrder` says for every `n` that `make_index_sequence<n>`, which
halves `n`, is 0, 1, 2, ... in order, by the least counterexample again; `TablesAgree`
that the tables the macros generate give a method the same place everywhere; from it
`CallsFindHandlers`: `Spec => []CallsUnderstood`.

Only model-checked: liveness and everything under fairness (the four `...Progress`
properties, `AllUp`, `LossEndsAll`, `StartupEnds`, `BothFinish`), which this prover
cannot treat. Every invariant and every step refinement that a passing run checks is
a theorem.

## Not modelled

- `EpollCommNet` is a stub whose operations are empty.
- The queue pair's state machine (`Connect`), memory registration and the choice
  of completion queues are device set-up without branches.
- `Global`, `utils.h`, and what `cplusplus_14.h` has beside index sequences: a pointer
  set once before threads start,
  and helpers without state. The singletons are never deleted, so the destructors
  of `CtrlClient`, `CtrlServer` and `CommNet` never run.
- `preprocessor_internal.h` is 7,488 lines of macro tables, 77 % of the
  implementation's lines. They follow one pattern, which `SeqSize` and `ForEach`
  state, with the tables' length as a limit; the tuple, product, map and join
  macros are used nowhere in the program. This is why the mapped lines are a
  small part of all lines: without that file they are about half of the rest.
- A send queue has no limit (`max_send_wr`), and the pollers are one per connection.
- The data race on `msg_handlers_` between a registration and a poller is taken as
  atomic.
- Completions with an error, and machines that hang.
- Calls of the control plane that fail between two machines that both run. In
  `CtrlSession` a call fails, with `UNAVAILABLE`, only when the process called is
  not there; a connection that breaks for a moment would end the machine at its
  heartbeat, or the server at its response, though nobody has left. The other
  gRPC statuses, which end the constructor at once (`LOG(FATAL)`,
  `ctrl_client.cpp:139`), need a deadline, a cancellation or a missing method,
  and the program has none of them.
- The number a barrier is called with (`CHECK_EQ`, `ctrl_server.cpp:75`): `BARRIER()`
  passes `TotalMachineNum` always.
- Build files, tools and throughput figures.

## Plan

Done in this order: write helper, read transfer, slicing (the core); bring-up,
send pool, shutdown; channel, control session, method tables; the proofs. What
is next, most important first:

1. Worker threads in `ReadTransfer` that serve several reads each, in order, so that
   `OneThread` can allow one of them per source.
2. A bounded send queue in `SendPool` (`ibv_post_send` failing).
3. Calls that fail for a moment in `CtrlSession`, with a history of them, so that
   `NoSpuriousFailure` can say which machines they end.
4. Traffic during `RegisterMsgHandler`: handler lookup against insertion.
5. `BlockingCounter` with several waiters.
