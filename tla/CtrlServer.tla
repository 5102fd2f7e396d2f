------------------------------- MODULE CtrlServer -------------------------------
(***************************************************************************)
(* The control plane (control/ctrl_server.cpp, control/ctrl_client.cpp):   *)
(* every machine runs a server with one thread; keys are spread over the   *)
(* servers by hash, barriers live on the master's.  A client call blocks   *)
(* its caller until the server answers; PullKV of a missing key and        *)
(* Barrier are answered by a later request.                                *)
(*                                                                         *)
(* The module states the operations only: BringUp issues the calls.        *)
(***************************************************************************)
EXTENDS Integers, Sequences, FiniteSets, Functions

CONSTANTS Machine,   \* machines, each a client and a server
          Key,       \* keys of the store
          Owner,     \* Owner[k]: the machine GetResponsibleStub(k) selects
          Master,    \* the machine whose server keeps the barriers
          Barrier    \* names of barriers: the source lines that call BARRIER

ASSUME CtrlServerAssumption == Owner \in [Key -> Machine] /\ Master \in Machine

VARIABLES rpc,               \* the call each client is blocked in
          kv,                \* keys stored
          pending_kv_calls,  \* clients whose PullKV waits for the key
          barrier_calls,     \* clients waiting at each barrier, oldest first
          aborted            \* servers where a CHECK has failed

ctrl_vars == <<rpc, kv, pending_kv_calls, barrier_calls, aborted>>

\* A client is running its own code, waits for the server to take its request,
\* waits for its response, or has got it.
Free == [at |-> "free"]
Held == [at |-> "held"]
Answered == [at |-> "answered"]
PushKV(k) == [at |-> "sent", op |-> "PushKV", key |-> k]
PullKV(k) == [at |-> "sent", op |-> "PullKV", key |-> k]
ClearKV(k) == [at |-> "sent", op |-> "ClearKV", key |-> k]
BarrierAt(b) == [at |-> "sent", op |-> "Barrier", name |-> b]

Call == {PushKV(k) : k \in Key} \cup {PullKV(k) : k \in Key}
        \cup {ClearKV(k) : k \in Key} \cup {BarrierAt(b) : b \in Barrier}

CtrlInit == /\ rpc = [m \in Machine |-> Free]
            /\ kv = {}
            /\ pending_kv_calls = [k \in Key |-> {}]
            /\ barrier_calls = [b \in Barrier |-> <<>>]
            /\ aborted = [m \in Machine |-> FALSE]

\* The client's side of a call.
Issue(m, call) == /\ rpc[m] = Free
                  /\ rpc' = [rpc EXCEPT ![m] = call]
                  /\ UNCHANGED <<kv, pending_kv_calls, barrier_calls, aborted>>

Return(m) == /\ rpc[m] = Answered
             /\ rpc' = [rpc EXCEPT ![m] = Free]
             /\ UNCHANGED <<kv, pending_kv_calls, barrier_calls, aborted>>

\* The server's side: its thread takes one request at a time.
Sent(m, op) == rpc[m].at = "sent" /\ rpc[m].op = op
Alive(server) == ~aborted[server]

Answer(clients) == rpc' = [m \in Machine |-> IF m \in clients THEN Answered ELSE rpc[m]]

Check(server, holds) == aborted' = [aborted EXCEPT ![server] = ~holds]

\* Mutant: the PullKVs that wait for the key are not answered.
HandlePushKVQuietly(m) ==
  /\ Sent(m, "PushKV")
  /\ LET k == rpc[m].key IN
    /\ Alive(Owner[k])
    /\ \/ /\ k \in kv
          /\ Check(Owner[k], FALSE)
          /\ UNCHANGED <<rpc, kv, pending_kv_calls>>
       \/ /\ k \notin kv
          /\ kv' = kv \cup {k}
          /\ Answer({m})
          /\ UNCHANGED <<pending_kv_calls, aborted>>
    /\ UNCHANGED barrier_calls

\* Stores the key and answers the PullKVs that wait for it.
HandlePushKV(m) ==
  /\ Sent(m, "PushKV")
  /\ LET k == rpc[m].key IN
    /\ Alive(Owner[k])
    /\ \/ /\ k \in kv
          /\ Check(Owner[k], FALSE)
          /\ UNCHANGED <<rpc, kv, pending_kv_calls>>
       \/ /\ k \notin kv
          /\ kv' = kv \cup {k}
          /\ Answer(pending_kv_calls[k] \cup {m})
          /\ pending_kv_calls' = [pending_kv_calls EXCEPT ![k] = {}]
          /\ UNCHANGED aborted
    /\ UNCHANGED barrier_calls

HandlePullKV(m) ==
  /\ Sent(m, "PullKV")
  /\ LET k == rpc[m].key IN
    /\ Alive(Owner[k])
    /\ \/ /\ k \in kv
          /\ Answer({m})
          /\ UNCHANGED pending_kv_calls
       \/ /\ k \notin kv
          /\ rpc' = [rpc EXCEPT ![m] = Held]
          /\ pending_kv_calls' = [pending_kv_calls EXCEPT ![k] = @ \cup {m}]
    /\ UNCHANGED <<kv, barrier_calls, aborted>>

HandleClearKV(m) ==
  /\ Sent(m, "ClearKV")
  /\ LET k == rpc[m].key IN
    /\ Alive(Owner[k])
    /\ \/ /\ ~(k \in kv /\ pending_kv_calls[k] = {})
          /\ Check(Owner[k], FALSE)
          /\ UNCHANGED <<rpc, kv>>
       \/ /\ k \in kv /\ pending_kv_calls[k] = {}
          /\ kv' = kv \ {k}
          /\ Answer({m})
          /\ UNCHANGED aborted
    /\ UNCHANGED <<pending_kv_calls, barrier_calls>>

\* Mutant: a machine does not count itself.
BarrierNumPeers == Cardinality(Machine) - 1

\* BARRIER(): the calls a barrier waits for, TotalMachineNum.
BarrierNum == Cardinality(Machine)

\* The last of barrier_num calls releases all of them and forgets the barrier.
\* The number stored with the first call is left out: BARRIER() passes
\* TotalMachineNum always, so the calls of one barrier agree on it and
\* CHECK_EQ(barrier_num, ...) cannot fail.
HandleBarrier(m) ==
  /\ Sent(m, "Barrier") /\ Alive(Master)
  /\ LET b == rpc[m].name
         calls == Append(barrier_calls[b], m)
     IN \/ /\ Len(calls) = BarrierNum
           /\ Answer(Range(calls))
           /\ barrier_calls' = [barrier_calls EXCEPT ![b] = <<>>]
        \/ /\ Len(calls) # BarrierNum
           /\ rpc' = [rpc EXCEPT ![m] = Held]
           /\ barrier_calls' = [barrier_calls EXCEPT ![b] = calls]
  /\ UNCHANGED <<kv, pending_kv_calls, aborted>>

\* HandleRpcs: one request of client m.
Serve(m) == HandlePushKV(m) \/ HandlePullKV(m) \/ HandleClearKV(m) \/ HandleBarrier(m)
================================================================================
