-------------------------------- MODULE BringUp --------------------------------
(***************************************************************************)
(* Bringing the machines up: CommNet::Init with IBVerbsCommNet::SetUp,     *)
(* then the application's RegisterMsgHandler calls.  Every machine runs    *)
(* this program and meets the others only through the control plane: it    *)
(* pushes the addresses of its queue pairs and buffers, pulls those of its *)
(* peers, connects, and two barriers separate this from the clearing of    *)
(* the keys and from the first message.  Its calls go through the tables   *)
(* of CtrlService.                                                         *)
(*                                                                         *)
(* A loop over the peers is the set of keys it has still to deal with: the *)
(* peers are visited in any order, for each the connection's key before    *)
(* the key of its memory.                                                  *)
(***************************************************************************)
EXTENDS CtrlServer, CtrlService

CONSTANTS Handler,       \* handlers the applications register
          MsgType,       \* MsgType[h]: the message type h is registered for
          HandlerOrder   \* HandlerOrder[m]: the order m registers handlers in

Kinds == {"IBVerbsConnInfo", "IBVerbsTokensMsg"}
\* The barriers, by the line that calls BARRIER().
Barriers == {"SetUp:62", "SetUp:68", "RegisterMsgHandler:48"}

ASSUME BringUpAssumption ==
  /\ Key = Kinds \X Machine \X Machine
  /\ Barrier = Barriers
  /\ IsFiniteSet(Machine)
  /\ DOMAIN MsgType = Handler
  /\ HandlerOrder \in [Machine -> Seq(Handler)]
  /\ \A m, p \in Machine : Range(HandlerOrder[m]) = Range(HandlerOrder[p])

VARIABLES stage,          \* the loop or barrier the machine is at
          todo,           \* keys the loop has still to deal with
          connected,      \* peers the queue pair is connected to
          recv_posted,    \* peers PostAllRecvRequest was called for
          helper,         \* peers whose IBVerbsHelper exists
          msg_handlers,   \* handlers in the map, one for a type
          registered      \* calls of RegisterMsgHandler that have returned

local_vars == <<connected, recv_posted, helper, msg_handlers, registered>>
vars == <<ctrl_vars, stage, todo, local_vars>>

\* Mutant: a machine is a peer of itself.
PeersAndSelf(m) == Machine

\* peer_machine_id_
Peers(m) == Machine \ {m}
Own(m) == Kinds \X {m} \X Peers(m)        \* keys m pushes and clears
Wanted(m) == Kinds \X Peers(m) \X {m}     \* keys m pulls

Stages == {"Push", "Pull", "SetUp:62", "Clear", "SetUp:68", "Register"}

Init == /\ CtrlInit
        /\ stage = [m \in Machine |-> "Push"]
        /\ todo = [m \in Machine |-> Own(m)]
        /\ connected = [m \in Machine |-> {}]
        /\ recv_posted = [m \in Machine |-> {}]
        /\ helper = [m \in Machine |-> {}]
        /\ msg_handlers = [m \in Machine |-> {}]
        /\ registered = [m \in Machine |-> 0]

\* The two keys of a peer are dealt with one after the other.
IsNext(m, k) ==
  LET first(q) == <<"IBVerbsConnInfo", q[2], q[3]>> IN
    /\ k \in todo[m]
    /\ IF k[1] = "IBVerbsConnInfo" THEN \A q \in todo[m] : first(q) \in todo[m]
                                   ELSE first(k) \notin todo[m]

Visit(m, k, call) == /\ IsNext(m, k)
                     /\ Issue(m, call)
                     /\ todo' = [todo EXCEPT ![m] = @ \ {k}]
                     /\ UNCHANGED stage

\* Mutants: one of SetUp's barriers is missing.
MeetWithoutFirst(m, b) == IF b = "SetUp:62" THEN UNCHANGED ctrl_vars ELSE Issue(m, BarrierAt(b))
MeetWithoutSecond(m, b) == IF b = "SetUp:68" THEN UNCHANGED ctrl_vars ELSE Issue(m, BarrierAt(b))

\* BARRIER() at line b.
Meet(m, b) == Issue(m, BarrierAt(b))

\* The loop is over once its last call has returned.
LoopOver(m) == todo[m] = {} /\ rpc[m] = Free

GoTo(m, next, keys) == /\ stage' = [stage EXCEPT ![m] = next]
                       /\ todo' = [todo EXCEPT ![m] = keys]

Push(m) == \/ /\ stage[m] = "Push"
              /\ \E k \in todo[m] : Visit(m, k, PushKV(k))
              /\ UNCHANGED local_vars
           \/ /\ stage[m] = "Push" /\ LoopOver(m)
              /\ GoTo(m, "Pull", Wanted(m))
              /\ UNCHANGED <<ctrl_vars, local_vars>>

\* Every peer is connected when the loop is over.
Pull(m) == \/ /\ stage[m] = "Pull"
              /\ \E k \in todo[m] : Visit(m, k, PullKV(k))
              /\ UNCHANGED local_vars
           \/ /\ stage[m] = "Pull" /\ LoopOver(m)
              /\ Meet(m, "SetUp:62")
              /\ GoTo(m, "SetUp:62", {})
              /\ UNCHANGED local_vars

\* Mutant: both ends of a connection clear all of its keys.
LeaveFirstBarrierForBoth(m) ==
  /\ stage[m] = "SetUp:62" /\ rpc[m] = Free
  /\ GoTo(m, "Clear", Own(m) \cup Wanted(m))
  /\ UNCHANGED <<ctrl_vars, local_vars>>

LeaveFirstBarrier(m) ==
  /\ stage[m] = "SetUp:62" /\ rpc[m] = Free
  /\ GoTo(m, "Clear", Own(m))
  /\ UNCHANGED <<ctrl_vars, local_vars>>

\* PostAllRecvRequest precedes the two ClearKV of a peer.
Clear(m) ==
  \/ /\ stage[m] = "Clear"
     /\ \E k \in todo[m] :
          /\ Visit(m, k, ClearKV(k))
          /\ recv_posted' = [recv_posted EXCEPT ![m] = @ \cup {k[3]}]
     /\ UNCHANGED <<connected, helper, msg_handlers, registered>>
  \/ /\ stage[m] = "Clear" /\ LoopOver(m)
     /\ Meet(m, "SetUp:68")
     /\ GoTo(m, "SetUp:68", {})
     /\ UNCHANGED local_vars

\* Init returns: the application may register handlers and send.
LeaveSecondBarrier(m) ==
  /\ stage[m] = "SetUp:68" /\ rpc[m] = Free
  /\ GoTo(m, "Register", {})
  /\ UNCHANGED <<ctrl_vars, local_vars>>

\* std::unordered_map::emplace: a handler already there for the type stays.
Emplace(map, h) == IF \E g \in map : MsgType[g] = MsgType[h] THEN map ELSE map \cup {h}

\* emplace, then the barrier.
RegisterMsgHandler(m) ==
  /\ stage[m] = "Register" /\ registered[m] < Len(HandlerOrder[m])
  /\ Meet(m, "RegisterMsgHandler:48")
  /\ msg_handlers' = [msg_handlers EXCEPT ![m] = Emplace(@, HandlerOrder[m][registered[m] + 1])]
  /\ UNCHANGED <<stage, todo, connected, recv_posted, helper, registered>>

\* Peers with which this loop has nothing left to do.
Finished(m) == {p \in Peers(m) : \A k \in todo[m] : p \notin {k[2], k[3]}}

\* IBVerbsQP::Connect follows the two PullKV of a peer.
Connect(m) ==
  connected' = [connected EXCEPT ![m] = IF stage[m] = "Pull" THEN Finished(m) ELSE @]

\* The helper of a peer is created after its two ClearKV.
CreateHelper(m) ==
  helper' = [helper EXCEPT ![m] = IF stage[m] = "Clear" THEN Finished(m) ELSE @]

\* A call returns to the machine that made it, which goes on to the next call;
\* RegisterMsgHandler returns with its barrier.
CallReturns(m) ==
  /\ Return(m)
  /\ Connect(m) /\ CreateHelper(m)
  /\ registered' = [registered EXCEPT ![m] = IF stage[m] = "Register" THEN @ + 1 ELSE @]
  /\ UNCHANGED <<stage, todo, recv_posted, msg_handlers>>

ServerStep(m) == Serve(m) /\ UNCHANGED <<stage, todo, local_vars>>

Program(m) == \/ Push(m) \/ Pull(m) \/ LeaveFirstBarrier(m) \/ Clear(m)
              \/ LeaveSecondBarrier(m) \/ RegisterMsgHandler(m) \/ CallReturns(m)

Next == \E m \in Machine : Program(m) \/ ServerStep(m)

Spec == Init /\ [][Next]_vars

\* Every machine runs its program, and every server takes every request.
FairSpec == Spec /\ \A m \in Machine : WF_vars(Program(m)) /\ WF_vars(ServerStep(m))
--------------------------------------------------------------------------------
\* Types.
TypeOK == /\ rpc \in [Machine -> Call \cup {Free, Held, Answered}]
          /\ kv \subseteq Key
          /\ pending_kv_calls \in [Key -> SUBSET Machine]
          /\ barrier_calls \in [Barrier -> Seq(Machine)]
          /\ aborted \in [Machine -> BOOLEAN]
          /\ stage \in [Machine -> Stages]
          /\ todo \in [Machine -> SUBSET Key]
          /\ {connected, recv_posted, helper} \subseteq [Machine -> SUBSET Machine]
          /\ \A m \in Machine : m \notin connected[m] \cup recv_posted[m] \cup helper[m]
          /\ msg_handlers \in [Machine -> SUBSET Handler]
          /\ registered \in [Machine -> Nat]

\* No server finds a key pushed twice, or cleared while it is missing or
\* somebody still waits for it (the CHECKs of PushKV and ClearKV; that of
\* Barrier compares a number which is always the same one).
NoCheckFailure == \A m \in Machine : ~aborted[m]

\* A machine that has returned from Init finds every peer ready for its first
\* message: connected to it, receive requests posted, helper in place.
TrafficReady ==
  \A m \in Machine : stage[m] = "Register" =>
    \A p \in Peers(m) : m \in connected[p] /\ m \in recv_posted[p] /\ m \in helper[p]

\* RegisterMsgHandler's implicit barrier: once it has returned anywhere, every
\* machine answers messages of that type with the handler registered.
HandlersEverywhere ==
  \A m, p \in Machine : \A i \in 1 .. registered[m] : HandlerOrder[m][i] \in msg_handlers[p]

\* Whatever call a machine has out finds the handler written for it, though both
\* sides look it up by position in tables that macros generate one by one; so
\* does LoadServer, which the heartbeat calls beside the program.
CallsUnderstood ==
  /\ \A m \in Machine : rpc[m].at = "sent" => Understood(rpc[m].op)
  /\ Understood("LoadServer")

\* Machine m is up, with all its handlers.
Up(m) == stage[m] = "Register" /\ registered[m] = Len(HandlerOrder[m]) /\ rpc[m] = Free

\* The machines never all wait in calls that only another machine's next call
\* would answer: no cycle of pulls, and no barrier that some are past while
\* others wait at it.
NothingStuck == (\A m \in Machine : Up(m)) \/ \E m \in Machine : ~Up(m) /\ rpc[m] # Held

\* Every machine comes up with all its handlers, and leaves no key behind.
AllUp == <>[]((\A m \in Machine : Up(m)) /\ kv = {})
================================================================================
