--------------------------- MODULE CtrlSession_proofs ---------------------------
(***************************************************************************)
(* Machines that start and end in any order, any number of them: every     *)
(* machine learns its own id, and no CHECK ends a machine unless another   *)
(* process has ended by itself or waited too long.                         *)
(***************************************************************************)
EXTENDS CtrlSession, TLAPS

Ended(m) == life[m] \in Ends

\* Machine p has been launched, and while it runs it has been told its address.
Told(p) == life[p] # "absent" /\ (Up(p) => this_machine_addr[p] = Addr[p])

\* A process that does not run has no memory and no call in progress.
Resting ==
  \A m \in Machine : ~Up(m) =>
    /\ this_machine_addr[m] = NoAddr /\ this_machine_id[m] = NoId
    /\ ~connected[m] /\ stub[m] = 0 /\ rpc[m] = "free" /\ finishing[m] = {}

\* No machine is told an address but its own.
OwnAddress == \A m \in Machine : this_machine_addr[m] \in {NoAddr, Addr[m]}

\* The constructor has told the machines before stub, the heartbeat thread
\* starts when all have been told; a call that is answered has told one more.
Visited ==
  \A m \in Machine :
    /\ \A p \in Machine : p < stub[m] \/ connected[m] => Told(p)
    /\ rpc[m] \in {"handled", "OK"} => Told(stub[m])

\* A response on its way is for a client that waits for it, or that has ended.
Finishing ==
  \A s \in Machine : \A m \in finishing[s] :
    /\ life[m] # "absent"
    /\ Up(m) => rpc[m] = "handled" /\ stub[m] = s

\* Ends have a cause: the first process to end left, or waited too long.
Cause == \E m \in Machine : life[m] \in {"left", "late"}
Causes == /\ (\E m \in Machine : Ended(m)) => Cause
          /\ \A m \in Machine : connected[m] /\ rpc[m] = "UNAVAILABLE" => Cause
          /\ \A m \in Machine : life[m] # "mismatch"

SessionInv == /\ TypeOK
              /\ Resting
              /\ OwnAddress
              /\ Visited
              /\ Finishing
              /\ Causes
              /\ \A m \in Machine : this_machine_id[m] \in {m, NoId}
--------------------------------------------------------------------------------
LEMMA Machines ==
  /\ MachineNum \in Nat \ {0} /\ max_retry_num \in Nat \ {0}
  /\ 0 \in Machine
  /\ \A m \in Machine : m \in Nat /\ m < MachineNum
  /\ \A m \in Machine : Addr[m] # NoAddr
  /\ \A i, j \in Machine : Addr[i] = Addr[j] => i = j
  BY CtrlSessionAssumption DEF Machine

LEMMA NextOne == ASSUME NEW m \in Machine PROVE (m + 1) % MachineNum \in Machine
  <1>1. m + 1 \in Nat /\ MachineNum \in Nat \ {0}
    BY Machines
  <1>2. (m + 1) % MachineNum \in 0 .. MachineNum - 1
    BY <1>1
  <1> QED BY <1>2 DEF Machine

\* The round of the constructor: the next machine, or the end of it.
LEMMA NextOfRound ==
  ASSUME NEW m \in Machine
  PROVE  IF m + 1 = MachineNum THEN (m + 1) % MachineNum = 0
                               ELSE (m + 1) % MachineNum = m + 1
  <1>1. m + 1 \in Nat /\ MachineNum \in Nat \ {0} /\ m + 1 <= MachineNum
    BY Machines
  <1>2. ASSUME m + 1 = MachineNum PROVE (m + 1) % MachineNum = 0
    BY <1>1, <1>2
  <1>3. ASSUME m + 1 # MachineNum PROVE (m + 1) % MachineNum = m + 1
    BY <1>1, <1>3
  <1> QED BY <1>2, <1>3

\* Every machine finds itself under its own address.
LEMMA OwnId == ASSUME NEW m \in Machine PROVE GetMachineId(Addr[m]) = {m}
  <1>1. \A i \in Machine : Addr[i] = Addr[m] => i = m
    BY Machines
  <1>2. \A j \in 0 .. m - 1 : j \in Machine /\ j # m
    BY Machines DEF Machine
  <1> QED BY <1>1, <1>2 DEF GetMachineId

LEMMA SessionInit == Init => SessionInv
  <1> SUFFICES ASSUME Init PROVE SessionInv
    OBVIOUS
  <1> USE Machines DEF Init
  <1>1. TypeOK
    BY DEF TypeOK
  <1>2. Resting /\ OwnAddress /\ Finishing
    BY DEF Resting, OwnAddress, Finishing, Up
  <1>3. Visited
    <2> SUFFICES ASSUME NEW m \in Machine, NEW p \in Machine
                 PROVE  ~(p < stub[m]) /\ ~connected[m] /\ rpc[m] \notin {"handled", "OK"}
      BY DEF Visited
    <2> QED OBVIOUS
  <1>4. Causes
    BY DEF Causes, Ended, Ends
  <1>5. \A m \in Machine : this_machine_id[m] \in {m, NoId}
    OBVIOUS
  <1> QED BY <1>1, <1>2, <1>3, <1>4, <1>5 DEF SessionInv
--------------------------------------------------------------------------------
\* Any end with a cause, of any running machine, keeps the invariant.
LEMMA EndStep ==
  ASSUME SessionInv, NEW m \in Machine, Up(m),
         NEW how \in Ends, how # "mismatch", how \in {"left", "late"} \/ Cause,
         End(m, how)
  PROVE  SessionInv'
  <1> USE DEF SessionInv
  <1>1. TypeOK'
    BY Machines DEF End, TypeOK
  <1>2. Resting'
    BY DEF TypeOK, Resting, Up, End
  <1>3. OwnAddress'
    BY DEF TypeOK, OwnAddress, End
  <1>4. /\ life'[m] = how /\ how \notin {"absent", "up"}
        /\ \A p \in Machine \ {m} : life'[p] = life[p]
    BY DEF TypeOK, End, Ends
  <1>5. \A p \in Machine : Told(p) => Told(p)'
    BY <1>4 DEF Told, TypeOK, Up, End
  <1>6. Visited'
    <2> SUFFICES ASSUME NEW n \in Machine
                 PROVE  /\ \A p \in Machine : p < stub'[n] \/ connected'[n] => Told(p)'
                        /\ rpc'[n] \in {"handled", "OK"} => Told(stub[n])'
      BY DEF Visited
    <2>1. CASE n = m
      <3>1. stub'[n] = 0 /\ connected'[n] = FALSE /\ rpc'[n] = "free"
        BY <2>1 DEF TypeOK, End
      <3>2. \A p \in Machine : ~(p < 0)
        BY Machines
      <3> QED BY <3>1, <3>2
    <2>2. CASE n # m
      <3>1. stub'[n] = stub[n] /\ connected'[n] = connected[n] /\ rpc'[n] = rpc[n]
        BY <2>2 DEF TypeOK, End
      <3>2. stub[n] \in Machine
        BY DEF TypeOK
      <3>3. \A p \in Machine : p < stub[n] \/ connected[n] => Told(p)
        BY DEF Visited
      <3>4. rpc[n] \in {"handled", "OK"} => Told(stub[n])
        BY DEF Visited
      <3>5. Told(stub[n]) => Told(stub[n])'
        BY <3>1, <3>2, <1>4 DEF Told, TypeOK, Up, End
      <3> QED BY <3>1, <3>3, <3>4, <3>5, <1>5
    <2> QED BY <2>1, <2>2
  <1>7. Finishing'
    <2> SUFFICES ASSUME NEW s \in Machine, NEW n \in finishing'[s]
                 PROVE  /\ life'[n] # "absent"
                        /\ life'[n] = "up" => rpc'[n] = "handled" /\ stub'[n] = s
      BY DEF Finishing, Up
    <2>1. n \in finishing[s] /\ n \in Machine
      BY DEF TypeOK, End
    <2>2. n = m \/ (life'[n] = life[n] /\ rpc'[n] = rpc[n] /\ stub'[n] = stub[n])
      BY <2>1 DEF TypeOK, End
    <2> QED BY <1>4, <2>1, <2>2 DEF Finishing, Up
  <1>8. Causes'
    <2>1. Cause'
      <3>1. CASE how \in {"left", "late"}
        BY <1>4, <3>1 DEF Cause
      <3>2. CASE Cause
        <4>1. PICK p \in Machine : life[p] \in {"left", "late"}
          BY <3>2 DEF Cause
        <4>2. p # m
          BY <4>1 DEF Up
        <4> QED BY <1>4, <4>1, <4>2 DEF Cause
      <3> QED BY <3>1, <3>2
    <2>2. \A p \in Machine : life'[p] # "mismatch"
      BY <1>4 DEF Causes
    <2> QED BY <2>1, <2>2 DEF Causes
  <1>9. \A p \in Machine : this_machine_id'[p] \in {p, NoId}
    BY DEF TypeOK, End
  <1> QED BY <1>1, <1>2, <1>3, <1>6, <1>7, <1>8, <1>9
--------------------------------------------------------------------------------
(* The steps in which nobody ends.                                         *)

\* What a step leaves of the invariant when it changes neither who runs nor
\* what machines have been told.
LEMMA ToldStays ==
  ASSUME NEW p, UNCHANGED <<life, this_machine_addr>>
  PROVE  Told(p) = Told(p)'
  BY DEF Told, Up

LEMMA LaunchStep == ASSUME SessionInv, NEW m \in Machine, Launch(m) PROVE SessionInv'
  <1> USE DEF SessionInv, Launch
  <1>1. /\ life'[m] = "up" /\ life[m] = "absent"
        /\ \A p \in Machine \ {m} : life'[p] = life[p]
    BY DEF TypeOK
  <1>2. TypeOK'
    BY DEF TypeOK
  <1>3. Resting' /\ OwnAddress'
    BY <1>1 DEF Resting, OwnAddress, Up
  <1>4. \A p \in Machine : Told(p) => Told(p)'
    BY <1>1 DEF Told, Up
  <1>5. Visited'
    BY <1>4 DEF Visited, TypeOK
  <1>6. Finishing'
    <2>1. \A s \in Machine : \A n \in finishing[s] : n \in Machine /\ n # m
      BY <1>1 DEF TypeOK, Finishing
    <2> QED BY <1>1, <2>1 DEF Finishing, Up
  <1>7. Causes'
    <2>1. \A p \in Machine : Ended(p)' => Ended(p)
      BY <1>1 DEF Ended, Ends
    <2>2. Cause => Cause'
      BY <1>1 DEF Cause
    <2> QED BY <1>1, <2>1, <2>2 DEF Causes
  <1> QED BY <1>2, <1>3, <1>5, <1>6, <1>7

LEMMA CallStep == ASSUME SessionInv, NEW m \in Machine, Call(m) PROVE SessionInv'
  <1> USE DEF SessionInv, Call
  <1>1. TypeOK' /\ Resting' /\ OwnAddress'
    BY DEF TypeOK, Resting, OwnAddress, Up
  <1>2. /\ rpc'[m] = "sent"
        /\ \A n \in Machine \ {m} : rpc'[n] = rpc[n]
    BY DEF TypeOK
  <1>3. Visited'
    BY <1>2, ToldStays DEF Visited
  <1>4. Finishing'
    <2>1. \A s \in Machine : m \notin finishing[s]
      BY DEF Finishing
    <2> QED BY <1>2, <2>1 DEF Finishing, TypeOK, Up
  <1>5. Causes'
    BY <1>2 DEF Causes, Cause, Ended
  <1> QED BY <1>1, <1>3, <1>4, <1>5

LEMMA UnavailableStep ==
  ASSUME SessionInv, NEW m \in Machine, Unavailable(m) PROVE SessionInv'
  <1> USE DEF SessionInv, Unavailable
  <1>1. TypeOK' /\ Resting' /\ OwnAddress'
    BY DEF TypeOK, Resting, OwnAddress, Up
  <1>2. /\ rpc'[m] = "UNAVAILABLE" /\ stub[m] \in Machine
        /\ \A n \in Machine \ {m} : rpc'[n] = rpc[n]
    BY DEF TypeOK
  <1>3. Visited'
    BY <1>2, ToldStays DEF Visited
  <1>4. Finishing'
    \* The server called has ended, and its responses with it.
    <2>1. finishing[stub[m]] = {}
      BY <1>2 DEF Resting
    <2>2. \A s \in Machine : m \notin finishing[s]
      BY <2>1 DEF Finishing
    <2> QED BY <1>2, <2>2 DEF Finishing, TypeOK, Up
  <1>5. Causes'
    <2>1. connected[m] => Cause
      <3>1. connected[m] => Told(stub[m])
        BY <1>2 DEF Visited
      <3>2. Told(stub[m]) => Ended(stub[m])
        BY <1>2 DEF Told, Ended, Up, TypeOK
      <3> QED BY <1>2, <3>1, <3>2 DEF Causes
    <2>2. Cause' = Cause
      BY DEF Cause
    <2> QED BY <1>2, <2>1, <2>2 DEF Causes, Ended
  <1> QED BY <1>1, <1>3, <1>4, <1>5

LEMMA HandleLoadServerStep ==
  ASSUME SessionInv, NEW s \in Machine, NEW m \in Machine, HandleLoadServer(s, m)
  PROVE  SessionInv'
  <1> USE DEF SessionInv, Request
  <1>1. /\ Up(s) /\ Up(m) /\ rpc[m] = "sent" /\ stub[m] = s
        /\ this_machine_addr' = [this_machine_addr EXCEPT ![s] = Addr[s]]
        /\ rpc' = [rpc EXCEPT ![m] = "handled"]
        /\ finishing' = [finishing EXCEPT ![s] = @ \cup {m}]
        /\ UNCHANGED <<life, this_machine_id, connected, stub, retry_idx>>
    BY DEF HandleLoadServer, OwnAddress
  <1>2. TypeOK'
    BY <1>1 DEF TypeOK
  <1>3. Resting' /\ OwnAddress'
    BY <1>1 DEF Resting, OwnAddress, Up, TypeOK
  <1>4. (\A p \in Machine : Told(p) => Told(p)') /\ Told(s)'
    BY <1>1 DEF Told, Up, TypeOK
  <1>5. Visited'
    <2> SUFFICES ASSUME NEW n \in Machine
                 PROVE  /\ \A p \in Machine : p < stub[n] \/ connected[n] => Told(p)'
                        /\ rpc'[n] \in {"handled", "OK"} => Told(stub[n])'
      BY <1>1 DEF Visited
    <2>1. \A p \in Machine : p < stub[n] \/ connected[n] => Told(p)'
      BY <1>4 DEF Visited
    <2>2. stub[n] \in Machine /\ (rpc'[n] = rpc[n] \/ n = m) /\ stub' = stub
      BY <1>1 DEF TypeOK
    <2>3. ASSUME rpc'[n] \in {"handled", "OK"} PROVE Told(stub[n])'
      <3>1. CASE n = m
        BY <1>1, <1>4, <3>1 DEF Told, Up
      <3>2. CASE n # m
        <4>1. Told(stub[n])
          BY <2>2, <2>3, <3>2 DEF Visited
        <4> QED BY <1>1, <2>2, <4>1 DEF Told, Up, TypeOK
      <3> QED BY <3>1, <3>2
    <2> QED BY <2>1, <2>3
  <1>6. Finishing'
    <2> SUFFICES ASSUME NEW q \in Machine, NEW n \in finishing'[q]
                 PROVE  /\ life'[n] # "absent"
                        /\ life'[n] = "up" => rpc'[n] = "handled" /\ stub'[n] = q
      BY DEF Finishing, Up
    <2>1. n \in finishing[q] \/ (n = m /\ q = s)
      BY <1>1 DEF TypeOK
    <2>2. CASE n = m /\ q = s
      BY <1>1, <2>2 DEF TypeOK, Up
    <2>3. CASE n \in finishing[q]
      <3>1. n # m /\ n \in Machine
        BY <1>1, <2>3 DEF Finishing, TypeOK
      <3> QED BY <1>1, <2>3, <3>1 DEF Finishing, TypeOK, Up
    <2> QED BY <2>1, <2>2, <2>3
  <1>7. Causes'
    BY <1>1 DEF Causes, Cause, Ended, TypeOK
  <1> QED BY <1>1, <1>2, <1>3, <1>5, <1>6, <1>7

LEMMA ResponseSentStep ==
  ASSUME SessionInv, NEW s \in Machine, NEW m \in Machine, ResponseSent(s, m)
  PROVE  SessionInv'
  <1> USE DEF SessionInv, ResponseSent
  <1>1. TypeOK' /\ OwnAddress'
    BY DEF TypeOK, OwnAddress
  <1>2. Resting'
    BY DEF Resting, TypeOK, Up
  <1>3. /\ \A n \in Machine : rpc'[n] = rpc[n] \/ (n = m /\ rpc[m] = "handled" /\ rpc'[m] = "OK")
        /\ \A q \in Machine : finishing'[q] = IF q = s THEN finishing[q] \ {m} ELSE finishing[q]
    <2>1. m \in finishing[s] /\ (Up(m) => rpc[m] = "handled")
      BY DEF Finishing
    <2>2. \A n \in Machine : n # m => rpc'[n] = rpc[n]
      BY DEF TypeOK
    <2>3. rpc'[m] = IF Up(m) THEN "OK" ELSE rpc[m]
      BY DEF TypeOK
    <2>4. \A q \in Machine : finishing'[q] = IF q = s THEN finishing[q] \ {m} ELSE finishing[q]
      BY DEF TypeOK
    <2> QED BY <2>1, <2>2, <2>3, <2>4 DEF Up
  <1>4. Visited'
    BY <1>3, ToldStays DEF Visited
  <1>5. Finishing'
    <2> SUFFICES ASSUME NEW q \in Machine, NEW n \in finishing'[q]
                 PROVE  /\ life'[n] # "absent"
                        /\ life'[n] = "up" => rpc'[n] = "handled" /\ stub'[n] = q
      BY DEF Finishing, Up
    <2>1. n \in finishing[q] /\ n \in Machine
      BY <1>3 DEF TypeOK
    <2>2. CASE n # m
      BY <1>3, <2>1, <2>2 DEF Finishing, Up
    <2>3. CASE n = m /\ Up(m)
      \* One response for one call: q would be s, which has just finished it.
      <3>1. q # s
        BY <1>3, <2>3
      <3>2. stub[m] = q /\ stub[m] = s
        BY <2>1, <2>3 DEF Finishing
      <3> QED BY <3>1, <3>2
    <2>4. CASE n = m /\ ~Up(m)
      BY <2>1, <2>4 DEF Finishing, Up
    <2> QED BY <2>2, <2>3, <2>4
  <1>6. Causes'
    BY <1>3 DEF Causes, Cause, Ended
  <1> QED BY <1>1, <1>2, <1>4, <1>5, <1>6

LEMMA LoadServerOKStep ==
  ASSUME SessionInv, NEW m \in Machine, LoadServerOK(m) PROVE SessionInv'
  <1> USE DEF SessionInv, LoadServerOK
  <1>1. /\ Up(m) /\ ~connected[m] /\ rpc[m] = "OK"
        /\ rpc' = [rpc EXCEPT ![m] = "free"]
        /\ connected' = [connected EXCEPT ![m] = stub[m] + 1 = MachineNum]
        /\ stub' = [stub EXCEPT ![m] = (stub[m] + 1) % MachineNum]
        /\ stub[m] \in Machine /\ (stub[m] + 1) % MachineNum \in Machine
        /\ UNCHANGED <<life, this_machine_addr, this_machine_id, finishing>>
    BY NextOne DEF Success, TypeOK
  <1>2. TypeOK'
    BY <1>1, Machines DEF TypeOK
  <1>3. Resting' /\ OwnAddress'
    BY <1>1 DEF Resting, OwnAddress, Up, TypeOK
  <1>4. Visited'
    <2> SUFFICES ASSUME NEW n \in Machine
                 PROVE  /\ \A p \in Machine : p < stub'[n] \/ connected'[n] => Told(p)'
                        /\ rpc'[n] \in {"handled", "OK"} => Told(stub[n])'
      BY DEF Visited
    <2>1. CASE n # m
      <3>1. stub'[n] = stub[n] /\ connected'[n] = connected[n] /\ rpc'[n] = rpc[n]
        BY <1>1, <2>1 DEF TypeOK
      <3> QED BY <1>1, <3>1 DEF Visited, Told, Up
    <2>2. CASE n = m
      <3>1. /\ rpc'[m] = "free" /\ connected'[m] = (stub[m] + 1 = MachineNum)
            /\ stub'[m] = (stub[m] + 1) % MachineNum
        BY <1>1 DEF TypeOK
      <3>2. ASSUME NEW p \in Machine, p < stub'[m] \/ connected'[m]
            PROVE  p <= stub[m]
        <4>1. CASE stub[m] + 1 = MachineNum
          BY <1>1, <4>1, Machines
        <4>2. CASE stub[m] + 1 # MachineNum
          <5>1. (stub[m] + 1) % MachineNum = stub[m] + 1
            BY <1>1, <4>2, NextOfRound
          <5>2. p < stub[m] + 1
            BY <3>1, <3>2, <4>2, <5>1
          <5> QED BY <1>1, <5>2, Machines
        <4> QED BY <4>1, <4>2
      <3>3. ASSUME NEW p \in Machine, p <= stub[m]
            PROVE  Told(p)
        <4>1. CASE p = stub[m]
          BY <1>1, <4>1 DEF Visited
        <4>2. CASE p < stub[m]
          BY <4>2 DEF Visited
        <4> QED BY <1>1, <3>3, <4>1, <4>2, Machines
      <3>4. \A p \in Machine : Told(p) => Told(p)'
        BY <1>1 DEF Told, Up
      <3> QED BY <2>2, <3>1, <3>2, <3>3, <3>4
    <2> QED BY <2>1, <2>2
  <1>5. Finishing'
    <2>1. \A q \in Machine : m \notin finishing[q]
      BY <1>1 DEF Finishing
    <2> QED BY <1>1, <2>1 DEF Finishing, TypeOK, Up
  <1>6. Causes'
    BY <1>1 DEF Causes, Cause, Ended, TypeOK
  <1> QED BY <1>1, <1>2, <1>3, <1>4, <1>5, <1>6

LEMMA LoadServerRetryStep ==
  ASSUME SessionInv, NEW m \in Machine, LoadServerRetry(m) PROVE SessionInv'
  <1>1. CASE End(m, "late")
    BY <1>1, EndStep DEF LoadServerRetry, Ends
  <1>2. CASE ~End(m, "late")
    <2> USE DEF SessionInv
    <2>1. /\ Up(m) /\ rpc[m] = "UNAVAILABLE" /\ retry_idx[m] + 1 < max_retry_num
          /\ rpc' = [rpc EXCEPT ![m] = "free"]
          /\ retry_idx' = [retry_idx EXCEPT ![m] = retry_idx[m] + 1]
          /\ UNCHANGED <<life, this_machine_addr, this_machine_id, connected, stub, finishing>>
      BY <1>2 DEF LoadServerRetry, Counted
    <2>2. TypeOK'
      BY <2>1, Machines DEF TypeOK
    <2>3. Resting' /\ OwnAddress'
      BY <2>1 DEF Resting, OwnAddress, Up, TypeOK
    <2>4. \A n \in Machine : rpc'[n] = rpc[n] \/ (n = m /\ rpc'[n] = "free")
      BY <2>1 DEF TypeOK
    <2>5. Visited'
      BY <2>1, <2>4, ToldStays DEF Visited
    <2>6. Finishing'
      <3>1. \A q \in Machine : m \notin finishing[q]
        BY <2>1 DEF Finishing
      <3> QED BY <2>1, <2>4, <3>1 DEF Finishing, TypeOK, Up
    <2>7. Causes'
      BY <2>1, <2>4 DEF Causes, Cause, Ended
    <2> QED BY <2>1, <2>2, <2>3, <2>5, <2>6, <2>7
  <1> QED BY <1>1, <1>2

LEMMA CommNetInitStep ==
  ASSUME SessionInv, NEW m \in Machine, CommNetInit(m) PROVE SessionInv'
  <1> USE DEF SessionInv
  <1>1. Up(m) /\ connected[m]
    BY DEF CommNetInit
  <1>2. this_machine_addr[m] = Addr[m]
    BY <1>1 DEF Visited, Told
  <1>3. GetMachineId(this_machine_addr[m]) = {m}
    BY <1>2, OwnId
  <1>4. /\ this_machine_id' = [this_machine_id EXCEPT ![m] = m]
        /\ UNCHANGED <<life, this_machine_addr, connected, stub, retry_idx, rpc, finishing>>
    BY <1>3 DEF CommNetInit
  <1>5. TypeOK' /\ Resting' /\ OwnAddress' /\ Finishing'
    BY <1>1, <1>4 DEF TypeOK, Resting, OwnAddress, Finishing, Up
  <1>6. Visited'
    BY <1>4, ToldStays DEF Visited
  <1>7. Causes'
    BY <1>4 DEF Causes, Cause, Ended
  <1>8. \A n \in Machine : this_machine_id'[n] \in {n, NoId}
    BY <1>4 DEF TypeOK
  <1> QED BY <1>5, <1>6, <1>7, <1>8

LEMMA HeartbeatOKStep ==
  ASSUME SessionInv, NEW m \in Machine, HeartbeatOK(m) PROVE SessionInv'
  <1> USE DEF SessionInv
  <1>1. /\ Up(m) /\ connected[m] /\ rpc[m] = "OK"
        /\ rpc' = [rpc EXCEPT ![m] = "free"]
        /\ stub' = [stub EXCEPT ![m] = (stub[m] + 1) % MachineNum]
        /\ (stub[m] + 1) % MachineNum \in Machine
        /\ UNCHANGED <<life, this_machine_addr, this_machine_id, connected, retry_idx, finishing>>
    <2>1. stub[m] \in Machine
      BY DEF TypeOK
    <2>2. (stub[m] + 1) % MachineNum \in Machine
      BY <2>1, NextOne
    <2> QED BY <2>2 DEF HeartbeatOK, NextStub
  <1>2. TypeOK'
    BY <1>1 DEF TypeOK
  <1>3. Resting' /\ OwnAddress'
    BY <1>1 DEF Resting, OwnAddress, Up, TypeOK
  <1>4. \A n \in Machine : IF n = m THEN rpc'[n] = "free"
                                  ELSE rpc'[n] = rpc[n] /\ stub'[n] = stub[n]
    BY <1>1 DEF TypeOK
  <1>5. Visited'
    <2>1. \A p \in Machine : Told(p)
      BY <1>1 DEF Visited
    <2>2. \A p \in Machine : Told(p)'
      BY <1>1, <2>1 DEF Told, Up
    <2>3. \A n \in Machine : stub'[n] \in Machine
      BY <1>2 DEF TypeOK
    <2>4. ASSUME NEW n \in Machine PROVE Told(stub[n])'
      BY <2>2, <2>3 DEF Told, Up
    <2> QED BY <2>2, <2>4 DEF Visited
  <1>6. Finishing'
    <2>1. \A q \in Machine : m \notin finishing[q]
      BY <1>1 DEF Finishing
    <2> QED BY <1>1, <1>4, <2>1 DEF Finishing, TypeOK, Up
  <1>7. Causes'
    BY <1>1, <1>4 DEF Causes, Cause, Ended
  <1> QED BY <1>1, <1>2, <1>3, <1>5, <1>6, <1>7
--------------------------------------------------------------------------------
LEMMA SessionNext == SessionInv /\ [Next]_vars => SessionInv'
  <1> SUFFICES ASSUME SessionInv, [Next]_vars PROVE SessionInv'
    OBVIOUS
  <1>1. ASSUME NEW m \in Machine, Launch(m) PROVE SessionInv'
    BY <1>1, LaunchStep
  <1>2. ASSUME NEW m \in Machine, Exit(m) PROVE SessionInv'
    BY <1>2, EndStep DEF Exit, Ends
  <1>3. ASSUME NEW m \in Machine, Call(m) PROVE SessionInv'
    BY <1>3, CallStep
  <1>4. ASSUME NEW m \in Machine, Unavailable(m) PROVE SessionInv'
    BY <1>4, UnavailableStep
  <1>5. ASSUME NEW m \in Machine, LoadServerOK(m) PROVE SessionInv'
    BY <1>5, LoadServerOKStep
  <1>6. ASSUME NEW m \in Machine, LoadServerRetry(m) PROVE SessionInv'
    BY <1>6, LoadServerRetryStep
  <1>7. ASSUME NEW m \in Machine, CommNetInit(m) PROVE SessionInv'
    BY <1>7, CommNetInitStep
  <1>8. ASSUME NEW m \in Machine, HeartbeatOK(m) PROVE SessionInv'
    BY <1>8, HeartbeatOKStep
  <1>9. ASSUME NEW m \in Machine, HeartbeatLost(m) PROVE SessionInv'
    <2>1. Up(m) /\ End(m, "lost") /\ Cause
      BY <1>9 DEF HeartbeatLost, SessionInv, Causes
    <2> QED BY <2>1, EndStep DEF Ends
  <1>10. ASSUME NEW s \in Machine, NEW m \in Machine, HandleLoadServer(s, m) PROVE SessionInv'
    BY <1>10, HandleLoadServerStep
  <1>11. ASSUME NEW s \in Machine, NEW m \in Machine, ResponseSent(s, m) PROVE SessionInv'
    BY <1>11, ResponseSentStep
  <1>12. ASSUME NEW s \in Machine, NEW m \in Machine, ResponseLost(s, m) PROVE SessionInv'
    \* The client is neither absent nor up: it has ended, and that had a cause.
    <2>1. Ended(m)
      BY <1>12 DEF ResponseLost, SessionInv, Finishing, TypeOK, Ended, Up
    <2>2. Cause
      BY <2>1 DEF SessionInv, Causes
    <2>3. Up(s) /\ End(s, "undelivered")
      BY <1>12 DEF ResponseLost
    <2> QED BY <2>2, <2>3, EndStep DEF Ends
  <1>13. CASE UNCHANGED vars
    <2>1. UNCHANGED <<life, this_machine_addr>>
      BY <1>13 DEF vars
    <2>2. Visited'
      BY <1>13, <2>1, ToldStays DEF vars, SessionInv, Visited
    <2> QED BY <1>13, <2>2 DEF vars, SessionInv, TypeOK, Resting, OwnAddress, Finishing, Causes, Cause, Ended, Up
  <1> QED BY <1>1, <1>2, <1>3, <1>4, <1>5, <1>6, <1>7, <1>8, <1>9, <1>10, <1>11, <1>12, <1>13
          DEF Next, Client, Server

LEMMA SessionInvariant == Spec => []SessionInv
  BY SessionInit, SessionNext, PTL DEF Spec

\* Types, for any number of machines and attempts.
THEOREM TypeCorrect == Spec => []TypeOK
  <1>1. SessionInv => TypeOK
    BY DEF SessionInv
  <1> QED BY SessionInvariant, <1>1, PTL

\* Init finds this machine's own id, whoever announced the address first, and
\* when the constructor has returned anywhere every running machine knows its
\* address.
THEOREM IdsAlwaysRight == Spec => []IdsRight
  <1>1. SessionInv => IdsRight
    BY DEF SessionInv, IdsRight, Visited, Told
  <1> QED BY SessionInvariant, <1>1, PTL

\* A CHECK of the control plane ends a machine only after some process has
\* left by itself or has waited too long.
THEOREM FailuresHaveACause == Spec => []NoSpuriousFailure
  <1>1. SessionInv => NoSpuriousFailure
    <2> SUFFICES ASSUME SessionInv PROVE NoSpuriousFailure
      OBVIOUS
    <2>1. \A m \in Machine : life[m] \in {"lost", "undelivered"} => Ended(m)
      BY DEF Ended, Ends
    <2> QED BY <2>1 DEF SessionInv, Causes, Cause, NoSpuriousFailure
  <1> QED BY SessionInvariant, <1>1, PTL
================================================================================
