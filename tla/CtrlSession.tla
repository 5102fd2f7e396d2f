------------------------------- MODULE CtrlSession -------------------------------
(***************************************************************************)
(* The life of the machines as the control plane sees it: SetUpCommNet     *)
(* starts the server and then the client, whose constructor calls          *)
(* LoadServer on every machine in turn, trying again while the machine is  *)
(* not there; CommNet::Init learns this machine's id from the address the  *)
(* clients announced; from then on a heartbeat thread calls LoadServer on  *)
(* all machines for ever and ends the process at the first failure.        *)
(* Machines start at any time and exit at any time, none comes back.       *)
(* LoadServer is made by one thread at a time: the constructor's, then the *)
(* heartbeat's.  The other calls of the control plane are in BringUp.      *)
(***************************************************************************)
EXTENDS Integers

CONSTANTS MachineNum,      \* TotalMachineNum()
          Addr,            \* Addr[i]: machine(i).addr()
          NoAddr,          \* this_machine_addr_ before the first call
          max_retry_num

Machine == 0 .. MachineNum - 1
NoId == -1

ASSUME CtrlSessionAssumption ==
  /\ MachineNum \in Nat \ {0}
  /\ max_retry_num \in Nat \ {0}
  /\ DOMAIN Addr = Machine
  /\ \A i, j \in Machine : Addr[i] = Addr[j] => i = j
  /\ \A i \in Machine : Addr[i] # NoAddr

VARIABLES life,               \* whether the process runs, and how it ended
          this_machine_addr,  \* NoAddr while is_first_connect_
          this_machine_id,
          connected,          \* CtrlClient's constructor has returned
          stub,               \* the machine LoadServer is called on
          retry_idx,
          rpc,                \* the call of LoadServer this machine waits for
          finishing           \* clients whose response the server has handed to gRPC

vars == <<life, this_machine_addr, this_machine_id, connected, stub, retry_idx, rpc, finishing>>

\* A process exits by itself, or a CHECK ends it: too many attempts in the
\* constructor, a lost peer in the heartbeat, a response that cannot be
\* delivered, or an address that is not the one expected.
Ends == {"left", "late", "lost", "undelivered", "mismatch"}

Up(m) == life[m] = "up"

Init == /\ life = [m \in Machine |-> "absent"]
        /\ this_machine_addr = [m \in Machine |-> NoAddr]
        /\ this_machine_id = [m \in Machine |-> NoId]
        /\ connected = [m \in Machine |-> FALSE]
        /\ stub = [m \in Machine |-> 0]
        /\ retry_idx = [m \in Machine |-> 0]
        /\ rpc = [m \in Machine |-> "free"]
        /\ finishing = [m \in Machine |-> {}]

\* A process that ends takes its memory with it; only the calls it has made
\* are still known to others.
End(m, how) ==
  /\ life' = [life EXCEPT ![m] = how]
  /\ this_machine_addr' = [this_machine_addr EXCEPT ![m] = NoAddr]
  /\ this_machine_id' = [this_machine_id EXCEPT ![m] = NoId]
  /\ connected' = [connected EXCEPT ![m] = FALSE]
  /\ stub' = [stub EXCEPT ![m] = 0]
  /\ retry_idx' = [retry_idx EXCEPT ![m] = 0]
  /\ rpc' = [rpc EXCEPT ![m] = "free"]
  /\ finishing' = [finishing EXCEPT ![m] = {}]

\* SetUpCommNet: the server listens before the client is built.
Launch(m) ==
  /\ life[m] = "absent"
  /\ life' = [life EXCEPT ![m] = "up"]
  /\ UNCHANGED <<this_machine_addr, this_machine_id, connected, stub, retry_idx, rpc, finishing>>

\* Returning from main, or a crash.
Exit(m) == Up(m) /\ End(m, "left")

--------------------------------------------------------------------------------
\* The client's side of one call of LoadServer.
Call(m) ==
  /\ Up(m) /\ rpc[m] = "free"
  /\ rpc' = [rpc EXCEPT ![m] = "sent"]
  /\ UNCHANGED <<life, this_machine_addr, this_machine_id, connected, stub, retry_idx, finishing>>

\* Nobody listens, or the server died before the response was out.  A connection
\* that breaks for a moment between two processes that run is not modelled.
Unavailable(m) ==
  /\ Up(m) /\ rpc[m] \in {"sent", "handled"} /\ ~Up(stub[m])
  /\ rpc' = [rpc EXCEPT ![m] = "UNAVAILABLE"]
  /\ UNCHANGED <<life, this_machine_addr, this_machine_id, connected, stub, retry_idx, finishing>>

\* Mutant: a client announces its own address.
RequestOwn(m) == Addr[m]

\* request.addr(): the address of the machine called, in both loops.
Request(m) == Addr[stub[m]]

\* The kLoadServer handler at s, for a request of m.
HandleLoadServer(s, m) ==
  /\ Up(s) /\ Up(m) /\ rpc[m] = "sent" /\ stub[m] = s
  /\ \/ /\ this_machine_addr[s] \in {NoAddr, Request(m)}
        /\ this_machine_addr' = [this_machine_addr EXCEPT ![s] = Request(m)]
        /\ rpc' = [rpc EXCEPT ![m] = "handled"]
        /\ finishing' = [finishing EXCEPT ![s] = @ \cup {m}]
        /\ UNCHANGED <<life, this_machine_id, connected, stub, retry_idx>>
     \/ /\ this_machine_addr[s] \notin {NoAddr, Request(m)}
        /\ End(s, "mismatch")

\* CtrlCall comes back from the completion queue with ok: the response is out,
\* for a client that may be gone by now.
ResponseSent(s, m) ==
  /\ Up(s) /\ m \in finishing[s]
  /\ finishing' = [finishing EXCEPT ![s] = @ \ {m}]
  /\ rpc' = [rpc EXCEPT ![m] = IF Up(m) THEN "OK" ELSE @]
  /\ UNCHANGED <<life, this_machine_addr, this_machine_id, connected, stub, retry_idx>>

\* It comes back without, the client being gone: CHECK(is_shutdown) fails.
ResponseLost(s, m) ==
  /\ Up(s) /\ m \in finishing[s] /\ ~Up(m)
  /\ End(s, "undelivered")
--------------------------------------------------------------------------------
\* Mutant: an absent machine is taken for connected.
SuccessAnyhow(status) == {"OK", "UNAVAILABLE"}

\* The statuses LoadServer takes for success.
Success(m) == {"OK"}

\* LoadServer returns and the constructor goes on to the next machine; after
\* the last one the heartbeat thread starts, at machine 0.
LoadServerOK(m) ==
  /\ Up(m) /\ ~connected[m] /\ rpc[m] \in Success(m)
  /\ rpc' = [rpc EXCEPT ![m] = "free"]
  /\ retry_idx' = [retry_idx EXCEPT ![m] = 0]
  /\ connected' = [connected EXCEPT ![m] = stub[m] + 1 = MachineNum]
  /\ stub' = [stub EXCEPT ![m] = (@ + 1) % MachineNum]
  /\ UNCHANGED <<life, this_machine_addr, this_machine_id, finishing>>

\* Mutant: attempts are not counted.
CountedNot(m) == retry_idx[m]

Counted(m) == retry_idx[m] + 1

\* UNAVAILABLE: sleep and try again, at most max_retry_num times.  Any other
\* failure is fatal; none arises here, the call being without deadline or
\* cancellation and its method one that every server has.
LoadServerRetry(m) ==
  /\ Up(m) /\ ~connected[m] /\ rpc[m] = "UNAVAILABLE"
  /\ IF Counted(m) < max_retry_num
       THEN /\ rpc' = [rpc EXCEPT ![m] = "free"]
            /\ retry_idx' = [retry_idx EXCEPT ![m] = Counted(m)]
            /\ UNCHANGED <<life, this_machine_addr, this_machine_id, connected, stub, finishing>>
       ELSE End(m, "late")

\* GetMachineId: the first machine with this address, CHECKed to exist.
GetMachineId(addr) == {i \in Machine : Addr[i] = addr /\ \A j \in 0 .. i - 1 : Addr[j] # addr}

\* CommNet::Init, once SetUpCommNet has returned.
CommNetInit(m) ==
  /\ Up(m) /\ connected[m] /\ this_machine_id[m] = NoId
  /\ LET id == GetMachineId(this_machine_addr[m]) IN
       \/ id = {} /\ End(m, "mismatch")
       \/ /\ \E i \in id : this_machine_id' = [this_machine_id EXCEPT ![m] = i]
          /\ UNCHANGED <<life, this_machine_addr, connected, stub, retry_idx, rpc, finishing>>

\* Mutants: the round leaves machine 0 out, or does not start again.
NextStubFromOne(m) == IF stub[m] + 1 < MachineNum THEN stub[m] + 1 ELSE 1
NextStubNoWrap(m) == stub[m] + 1

\* for (i < stubs_.size()) in while (true).
NextStub(m) == (stub[m] + 1) % MachineNum

HeartbeatOK(m) ==
  /\ Up(m) /\ connected[m] /\ rpc[m] = "OK"
  /\ rpc' = [rpc EXCEPT ![m] = "free"]
  /\ stub' = [stub EXCEPT ![m] = NextStub(m)]
  /\ UNCHANGED <<life, this_machine_addr, this_machine_id, connected, retry_idx, finishing>>

\* GRPC_CHECK(...) << "Machine " << i << " lost".
HeartbeatLost(m) ==
  /\ Up(m) /\ connected[m] /\ rpc[m] = "UNAVAILABLE"
  /\ End(m, "lost")

Client(m) == \/ Call(m) \/ LoadServerOK(m) \/ LoadServerRetry(m) \/ CommNetInit(m)
             \/ HeartbeatOK(m) \/ HeartbeatLost(m)
Server(s, m) == HandleLoadServer(s, m) \/ ResponseSent(s, m) \/ ResponseLost(s, m)

Next == \E m \in Machine :
          \/ Launch(m) \/ Exit(m)
          \/ Client(m) \/ Unavailable(m)
          \/ \E s \in Machine : Server(s, m)

Spec == Init /\ [][Next]_vars

\* The threads of a running process go on, its server answers every client,
\* and a call to a process that is gone fails (its sockets are closed).
\* Nobody need be launched, and nobody need exit.
FairSpec ==
  /\ Spec
  /\ \A m \in Machine : /\ WF_vars(Client(m))
                        /\ WF_vars(CommNetInit(m))
                        /\ WF_vars(Unavailable(m))
                        /\ \A s \in Machine : WF_vars(Server(s, m))
--------------------------------------------------------------------------------
\* Types.
TypeOK ==
  /\ life \in [Machine -> {"absent", "up"} \cup Ends]
  /\ this_machine_addr \in [Machine -> {Addr[m] : m \in Machine} \cup {NoAddr}]
  /\ this_machine_id \in [Machine -> Machine \cup {NoId}]
  /\ connected \in [Machine -> BOOLEAN]
  /\ stub \in [Machine -> Machine]
  /\ retry_idx \in [Machine -> 0 .. max_retry_num]
  /\ rpc \in [Machine -> {"free", "sent", "handled", "OK", "UNAVAILABLE"}]
  /\ finishing \in [Machine -> SUBSET Machine]

\* Once the constructor has returned anywhere, every running machine has been
\* told its address, and it is the right one: Init finds this machine's own id, and no
\* later call contradicts it.
IdsRight ==
  \A m \in Machine :
    /\ this_machine_id[m] \in {m, NoId}
    /\ connected[m] => \A p \in Machine : Up(p) => this_machine_addr[p] = Addr[p]

\* No machine is ended by a CHECK unless another process ended by itself or
\* waited too long: no address is ever contradicted, and "lost" and
\* "undelivered" only follow an end.
NoSpuriousFailure ==
  /\ \A m \in Machine : life[m] # "mismatch"
  /\ (\E m \in Machine : life[m] \in {"lost", "undelivered"})
       => \E m \in Machine : life[m] \in {"left", "late"}

\* One process that ends takes all the others with it: the heartbeats find it.
LossEndsAll ==
  (\E m \in Machine : life[m] \in Ends) ~> [](\A m \in Machine : ~Up(m))

\* The constructor does not try for ever: whoever starts gets to know its own
\* id, or ends.
StartupEnds == \A m \in Machine : Up(m) ~> (this_machine_id[m] = m \/ ~Up(m))
================================================================================
