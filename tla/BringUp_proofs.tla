------------------------------- MODULE BringUp_proofs -------------------------------
(***************************************************************************)
(* Proofs about bringing the machines up, for any number of machines and   *)
(* of handlers and any spread of the keys over the servers: no CHECK of    *)
(* the control plane fails, after the barriers everybody is ready, and no  *)
(* deadlock keeps anybody from getting there.                              *)
(* At the end, the tables the calls go through: macro loops and index      *)
(* sequences of any length.                                                *)
(***************************************************************************)
EXTENDS BringUp, FiniteSetTheorems, SequenceTheorems, WellFoundedInduction, TLAPS

\* The hypotheses of HandlersEverywhere: one handler for a type, and every
\* machine registers in the same order.
OneHandlerPerType == \A g, h \in Handler : MsgType[g] = MsgType[h] => g = h
SameOrder == \A m, p \in Machine : HandlerOrder[m] = HandlerOrder[p]

\* The stages that wait at a barrier, and the barrier each waits at.
AtBarrier == {"SetUp:62", "SetUp:68", "Register"}
BarrierOf(s) == IF s = "Register" THEN "RegisterMsgHandler:48" ELSE s

Returned(m) == rpc[m] \in {Free, Answered}

\* The number of barriers that have let m go.
Passed(m) == CASE stage[m] \in {"Push", "Pull"} -> 0
               [] stage[m] = "SetUp:62" -> IF Returned(m) THEN 1 ELSE 0
               [] stage[m] = "Clear" -> 1
               [] stage[m] = "SetUp:68" -> IF Returned(m) THEN 2 ELSE 1
               [] stage[m] = "Register" -> IF rpc[m] = Answered THEN registered[m] + 3
                                                                ELSE registered[m] + 2

--------------------------------------------------------------------------------
\* The call a machine can have out at its stage: on a key its loop has dealt
\* with, or at its barrier.
Calling(m) ==
  \/ /\ stage[m] = "Push" /\ todo[m] \subseteq Own(m)
     /\ Returned(m) \/ \E k \in Own(m) \ todo[m] : rpc[m] = PushKV(k)
  \/ /\ stage[m] = "Pull" /\ todo[m] \subseteq Wanted(m)
     /\ Returned(m) \/ rpc[m] = Held \/ \E k \in Wanted(m) \ todo[m] : rpc[m] = PullKV(k)
  \/ /\ stage[m] = "Clear" /\ todo[m] \subseteq Own(m)
     /\ Returned(m) \/ \E k \in Own(m) \ todo[m] : rpc[m] = ClearKV(k)
  \/ /\ stage[m] \in AtBarrier /\ todo[m] = {}
     /\ Returned(m) \/ rpc[m] = Held \/ rpc[m] = BarrierAt(BarrierOf(stage[m]))

LoopDone(m, s) == stage[m] = s /\ rpc[m] = Free /\ todo[m] = {}

\* What the loops behind a machine have set up.
SetUp(m) ==
  /\ stage[m] \notin {"Push", "Pull"} \/ LoopDone(m, "Pull") => connected[m] = Peers(m)
  /\ stage[m] = "Clear" => \A k \in Own(m) \ todo[m] : k[3] \in recv_posted[m]
  /\ stage[m] \in {"SetUp:68", "Register"} => recv_posted[m] = Peers(m)
  /\ stage[m] \in {"SetUp:68", "Register"} \/ LoopDone(m, "Clear") => helper[m] = Peers(m)

\* The calls of RegisterMsgHandler m has begun.
Entered(m) == registered[m] + (IF stage[m] = "Register" /\ rpc[m] # Free THEN 1 ELSE 0)

Registering(m) ==
  /\ stage[m] # "Register" => registered[m] = 0
  /\ OneHandlerPerType => \A i \in 1 .. Entered(m) : HandlerOrder[m][i] \in msg_handlers[m]

Mine(m) == Calling(m) /\ SetUp(m) /\ Registering(m)

\* A key is stored from its owner's PushKV to its owner's ClearKV.
Stored(m) ==
  \A k \in Own(m) :
    k \in kv <=> \/ stage[m] = "Push" /\ k \notin todo[m] /\ rpc[m] # PushKV(k)
                 \/ stage[m] \in {"Pull", "SetUp:62"}
                 \/ stage[m] = "Clear" /\ (k \in todo[m] \/ rpc[m] = ClearKV(k))

\* Only a machine held in its pulling loop waits for a key, for one at a time.
Pending ==
  \A k \in Key : \A m \in pending_kv_calls[k] :
    /\ stage[m] = "Pull" /\ rpc[m] = Held
    /\ \A q \in Key : m \in pending_kv_calls[q] => q = k

\* Only a machine held at a barrier is in its list, once.
Queue(b) ==
  /\ \A i \in DOMAIN barrier_calls[b] :
       LET m == barrier_calls[b][i] IN
         stage[m] \in AtBarrier /\ BarrierOf(stage[m]) = b /\ rpc[m] = Held
  /\ \A i, j \in DOMAIN barrier_calls[b] : barrier_calls[b][i] = barrier_calls[b][j] => i = j

\* A barrier lets all machines go or none.
InStep == \A m, p \in Machine : Passed(m) = Passed(p)

UpInv == /\ TypeOK /\ NoCheckFailure
         /\ \A m \in Machine : Mine(m) /\ Stored(m)
         /\ Pending /\ (\A b \in Barrier : Queue(b)) /\ InStep

--------------------------------------------------------------------------------
(* Places of a call, keys and lists.                                       *)

LEMMA CallsDiffer ==
  /\ Free # Held /\ Free # Answered /\ Held # Answered
  /\ \A k : /\ PushKV(k) \notin {Free, Held, Answered}
            /\ PullKV(k) \notin {Free, Held, Answered}
            /\ ClearKV(k) \notin {Free, Held, Answered}
  /\ \A b : BarrierAt(b) \notin {Free, Held, Answered}
  /\ \A k, q : /\ PushKV(k) = PushKV(q) => k = q
               /\ ClearKV(k) = ClearKV(q) => k = q
  <1>1. Free.at = "free" /\ Held.at = "held" /\ Answered.at = "answered"
    BY DEF Free, Held, Answered
  <1>2. \A k : PushKV(k).at = "sent" /\ PullKV(k).at = "sent" /\ ClearKV(k).at = "sent"
    BY DEF PushKV, PullKV, ClearKV
  <1>3. \A b : BarrierAt(b).at = "sent"
    BY DEF BarrierAt
  <1>4. \A k : PushKV(k).key = k /\ ClearKV(k).key = k
    BY DEF PushKV, ClearKV
  <1> QED BY <1>1, <1>2, <1>3, <1>4

LEMMA Fields ==
  /\ \A k : /\ PushKV(k).op = "PushKV" /\ PushKV(k).at = "sent" /\ PushKV(k).key = k
            /\ PullKV(k).op = "PullKV" /\ PullKV(k).at = "sent" /\ PullKV(k).key = k
            /\ ClearKV(k).op = "ClearKV" /\ ClearKV(k).at = "sent" /\ ClearKV(k).key = k
  /\ \A b : BarrierAt(b).op = "Barrier" /\ BarrierAt(b).at = "sent" /\ BarrierAt(b).name = b
  /\ Free.at = "free" /\ Held.at = "held" /\ Answered.at = "answered"
  BY DEF PushKV, PullKV, ClearKV, BarrierAt, Free, Held, Answered

\* The keys of a machine: of the store, its own under its own name.
LEMMA Keys ==
  ASSUME NEW m \in Machine
  PROVE  /\ Own(m) \subseteq Key /\ Wanted(m) \subseteq Key
         /\ \A k \in Own(m) : k[2] = m /\ k[3] \in Peers(m)
         /\ \A k \in Wanted(m) : k[3] = m /\ k[2] \in Peers(m) /\ k \in Own(k[2])
         /\ \A p \in Machine : p # m => Own(p) \cap Own(m) = {}
         /\ \A p \in Peers(m) : \E k \in Own(m) : k[3] = p
         /\ Own(m) = {} => Peers(m) = {}
         /\ Wanted(m) = {} => Peers(m) = {}
  <1>1. Key = Kinds \X Machine \X Machine
    BY BringUpAssumption
  <1>2. Own(m) \subseteq Key /\ Wanted(m) \subseteq Key
    BY <1>1 DEF Own, Wanted, Peers
  <1>3. \A k \in Own(m) : k[2] = m /\ k[3] \in Peers(m)
    BY DEF Own
  <1>4. \A k \in Wanted(m) : k[3] = m /\ k[2] \in Peers(m) /\ k \in Own(k[2])
    BY DEF Own, Wanted, Peers
  <1>5. \A p \in Machine : p # m => Own(p) \cap Own(m) = {}
    BY DEF Own
  <1>6. ASSUME NEW p \in Peers(m)
        PROVE  <<"IBVerbsConnInfo", m, p>> \in Own(m) /\ <<"IBVerbsConnInfo", p, m>> \in Wanted(m)
    BY DEF Own, Wanted, Kinds
  <1>7. \A p \in Peers(m) : \E k \in Own(m) : k[3] = p
    BY <1>6
  <1> QED BY <1>2, <1>3, <1>4, <1>5, <1>6, <1>7

\* A list without repeats of as many machines as there are names them all.
LEMMA AllIn ==
  ASSUME NEW s \in Seq(Machine), Len(s) = Cardinality(Machine),
         \A i, j \in DOMAIN s : s[i] = s[j] => i = j
  PROVE  Range(s) = Machine
  <1>1. Len(s) \in Nat /\ DOMAIN s = 1 .. Len(s) /\ Range(s) \subseteq Machine
    BY DEF Range
  <1>2. s \in Bijection(1 .. Len(s), Range(s))
    <2>1. s \in [1 .. Len(s) -> Range(s)]
      BY <1>1 DEF Range
    <2>2. s \in Injection(1 .. Len(s), Range(s))
      BY <1>1, <2>1 DEF Injection, IsInjective
    <2>3. s \in Surjection(1 .. Len(s), Range(s))
      BY <1>1, <2>1 DEF Surjection, Range
    <2> QED BY <2>2, <2>3 DEF Bijection
  <1>3. IsFiniteSet(1 .. Len(s)) /\ Cardinality(1 .. Len(s)) = Len(s)
    BY <1>1, FS_Interval
  <1>4. Cardinality(Range(s)) = Len(s)
    BY <1>2, <1>3, FS_Bijection DEF ExistsBijection
  <1>5. IsFiniteSet(Machine)
    BY BringUpAssumption
  <1> QED BY <1>1, <1>4, <1>5, FS_Subset

--------------------------------------------------------------------------------
LEMMA UpInit == Init => UpInv
  <1> SUFFICES ASSUME Init PROVE UpInv
    OBVIOUS
  <1> USE DEF Init, CtrlInit
  <1>1. TypeOK
    <2>1. Free \in Call \cup {Free, Held, Answered}
      OBVIOUS
    <2>2. \A m \in Machine : Own(m) \in SUBSET Key
      BY Keys
    <2> QED BY <2>1, <2>2 DEF TypeOK, Stages
  <1>2. NoCheckFailure
    BY DEF NoCheckFailure
  <1>3. ASSUME NEW m \in Machine PROVE Mine(m) /\ Stored(m)
    <2>1. Calling(m)
      BY DEF Calling, Returned
    <2>2. SetUp(m)
      BY DEF SetUp, LoopDone
    <2>3. Registering(m)
      <3>1. Entered(m) = 0
        BY DEF Entered
      <3> QED BY <3>1 DEF Registering
    <2>4. Stored(m)
      BY DEF Stored
    <2> QED BY <2>1, <2>2, <2>3, <2>4 DEF Mine
  <1>4. Pending /\ (\A b \in Barrier : Queue(b))
    BY DEF Pending, Queue
  <1>5. InStep
    BY DEF InStep, Passed
  <1> QED BY <1>1, <1>2, <1>3, <1>4, <1>5 DEF UpInv

--------------------------------------------------------------------------------
(* The program of one machine.                                             *)

\* What the invariant says of p is about these.
Untouched(p) == /\ rpc'[p] = rpc[p] /\ stage'[p] = stage[p] /\ todo'[p] = todo[p]
                /\ connected'[p] = connected[p] /\ recv_posted'[p] = recv_posted[p]
                /\ helper'[p] = helper[p] /\ msg_handlers'[p] = msg_handlers[p]
                /\ registered'[p] = registered[p]

LEMMA MineKept ==
  ASSUME NEW p \in Machine, Untouched(p), Mine(p)
  PROVE  Mine(p)' /\ Passed(p)' = Passed(p)
  <1> USE DEF Untouched
  <1>1. Returned(p)' <=> Returned(p)
    BY DEF Returned
  <1>2. Calling(p)'
    BY <1>1 DEF Mine, Calling
  <1>3. SetUp(p)'
    BY DEF Mine, SetUp, LoopDone
  <1>4. Registering(p)'
    <2>1. Entered(p)' = Entered(p)
      BY DEF Entered
    <2> QED BY <2>1 DEF Mine, Registering
  <1>5. Passed(p)' = Passed(p)
    BY <1>1 DEF Passed
  <1> QED BY <1>2, <1>3, <1>4, <1>5 DEF Mine

\* A step of m's program touches nobody else and no server.
LEMMA ProgramKeeps ==
  ASSUME UpInv, NEW m \in Machine, rpc[m] # Held,
         \A p \in Machine \ {m} : Untouched(p),
         UNCHANGED <<kv, pending_kv_calls, barrier_calls, aborted>>,
         TypeOK', Mine(m)', Stored(m)', Passed(m)' = Passed(m)
  PROVE  UpInv'
  <1> USE DEF UpInv
  <1>1. NoCheckFailure'
    BY DEF NoCheckFailure
  <1>2. ASSUME NEW p \in Machine PROVE Mine(p)' /\ Passed(p)' = Passed(p)
    BY <1>2, MineKept
  <1>3. ASSUME NEW p \in Machine PROVE Stored(p)'
    <2>1. CASE p # m
      <3>1. Untouched(p)
        BY <2>1
      <3> QED BY <3>1 DEF Stored, Untouched
    <2> QED BY <2>1
  <1>4. Pending'
    <2> SUFFICES ASSUME NEW k \in Key, NEW p \in pending_kv_calls[k]
                 PROVE  /\ stage'[p] = "Pull" /\ rpc'[p] = Held
                        /\ \A q \in Key : p \in pending_kv_calls[q] => q = k
      BY DEF Pending
    <2>1. p \in Machine
      BY DEF TypeOK
    <2>2. stage[p] = "Pull" /\ rpc[p] = Held /\ \A q \in Key : p \in pending_kv_calls[q] => q = k
      BY DEF Pending
    <2>3. Untouched(p)
      BY <2>1, <2>2
    <2> QED BY <2>2, <2>3 DEF Untouched
  <1>5. ASSUME NEW b \in Barrier PROVE Queue(b)'
    <2>1. Queue(b) /\ barrier_calls'[b] = barrier_calls[b] /\ barrier_calls[b] \in Seq(Machine)
      BY DEF TypeOK
    <2>2. ASSUME NEW i \in DOMAIN barrier_calls[b]
          PROVE  LET p == barrier_calls[b][i] IN
                   stage'[p] \in AtBarrier /\ BarrierOf(stage'[p]) = b /\ rpc'[p] = Held
      <3> DEFINE p == barrier_calls[b][i]
      <3>1. p \in Machine
        BY <2>1
      <3>2. stage[p] \in AtBarrier /\ BarrierOf(stage[p]) = b /\ rpc[p] = Held
        BY <2>1 DEF Queue
      <3>3. Untouched(p)
        BY <3>1, <3>2
      <3> QED BY <3>2, <3>3 DEF Untouched
    <2> QED BY <2>1, <2>2 DEF Queue, BarrierOf
  <1>6. InStep'
    BY <1>2 DEF InStep
  <1> QED BY <1>1, <1>2, <1>3, <1>4, <1>5, <1>6

\* Only what a step of m's program changes needs a type again.
LEMMA ProgramTypes ==
  ASSUME TypeOK, NEW m \in Machine,
         UNCHANGED <<kv, pending_kv_calls, barrier_calls, aborted>>,
         NEW c \in Call \cup {Free, Held, Answered}, rpc' = [rpc EXCEPT ![m] = c],
         stage' \in [Machine -> Stages], todo' \in [Machine -> SUBSET Key],
         {connected', recv_posted', helper'} \subseteq [Machine -> SUBSET Machine],
         \A p \in Machine : p \notin connected'[p] \cup recv_posted'[p] \cup helper'[p],
         msg_handlers' \in [Machine -> SUBSET Handler], registered' \in [Machine -> Nat]
  PROVE  TypeOK'
  BY DEF TypeOK

LEMMA PushNext ==
  ASSUME UpInv, NEW m \in Machine, Push(m)
  PROVE  UpInv'
  <1> USE DEF UpInv
  <1>1. stage[m] = "Push" /\ todo[m] \subseteq Own(m) /\ Mine(m) /\ Stored(m)
    BY DEF Push, Mine, Calling, AtBarrier
  <1>2. ASSUME NEW k \in todo[m], Visit(m, k, PushKV(k)), UNCHANGED local_vars
        PROVE  UpInv'
    <2>1. /\ rpc[m] = Free /\ rpc' = [rpc EXCEPT ![m] = PushKV(k)]
          /\ todo' = [todo EXCEPT ![m] = @ \ {k}]
          /\ UNCHANGED <<kv, pending_kv_calls, barrier_calls, aborted, stage, connected, recv_posted,
                         helper, msg_handlers, registered>>
      BY <1>2 DEF Visit, Issue, local_vars
    <2>2. rpc \in [Machine -> Call \cup {Free, Held, Answered}] /\ todo \in [Machine -> SUBSET Key]
      BY DEF TypeOK
    <2>3. rpc'[m] = PushKV(k) /\ todo'[m] = todo[m] \ {k}
      BY <2>1, <2>2
    <2>4. \A p \in Machine \ {m} : Untouched(p)
      BY <2>1, <2>2 DEF Untouched
    <2>5. TypeOK'
      <3>1. k \in Key /\ PushKV(k) \in Call
        BY <1>1, Keys DEF Call
      <3> QED BY <3>1, <2>1 DEF TypeOK
    <2>6. Calling(m)'
      BY <1>1, <2>1, <2>3 DEF Calling
    <2>7. SetUp(m)'
      BY <1>1, <2>1 DEF SetUp, LoopDone
    <2>8. Registering(m)'
      <3>1. Entered(m)' = Entered(m)
        BY <1>1, <2>1 DEF Entered
      <3> QED BY <1>1, <2>1, <3>1 DEF Mine, Registering
    <2>9. Stored(m)'
      <3> SUFFICES ASSUME NEW q \in Own(m)
                   PROVE  q \in kv <=> q \notin todo'[m] /\ rpc'[m] # PushKV(q)
        BY <1>1, <2>1 DEF Stored
      <3>1. q \in kv <=> q \notin todo[m] /\ rpc[m] # PushKV(q)
        BY <1>1 DEF Stored
      <3>2. rpc[m] # PushKV(q) /\ (PushKV(k) = PushKV(q) => k = q)
        BY <2>1, CallsDiffer
      <3> QED BY <3>1, <3>2, <2>3
    <2>10. Passed(m)' = Passed(m)
      BY <1>1, <2>1 DEF Passed
    <2>11. rpc[m] # Held
      BY <2>1, CallsDiffer
    <2> QED BY <2>1, <2>4, <2>5, <2>6, <2>7, <2>8, <2>9, <2>10, <2>11, ProgramKeeps DEF Mine
  <1>3. ASSUME LoopOver(m), GoTo(m, "Pull", Wanted(m)), UNCHANGED <<ctrl_vars, local_vars>>
        PROVE  UpInv'
    <2>1. /\ rpc[m] = Free /\ todo[m] = {}
          /\ stage' = [stage EXCEPT ![m] = "Pull"] /\ todo' = [todo EXCEPT ![m] = Wanted(m)]
          /\ UNCHANGED <<rpc, kv, pending_kv_calls, barrier_calls, aborted, connected, recv_posted,
                         helper, msg_handlers, registered>>
      BY <1>3 DEF LoopOver, GoTo, ctrl_vars, local_vars
    <2>2. stage \in [Machine -> Stages] /\ todo \in [Machine -> SUBSET Key]
      BY DEF TypeOK
    <2>3. stage'[m] = "Pull" /\ todo'[m] = Wanted(m)
      BY <2>1, <2>2
    <2>4. \A p \in Machine \ {m} : Untouched(p)
      BY <2>1, <2>2 DEF Untouched
    <2>5. TypeOK'
      BY <2>1, Keys DEF TypeOK, Stages
    <2>6. Calling(m)'
      BY <2>1, <2>3 DEF Calling, Returned
    <2>7. SetUp(m)'
      <3>1. Wanted(m) = {} => connected[m] = Peers(m)
        <4>1. connected \in [Machine -> SUBSET Machine] /\ m \notin connected[m]
          BY DEF TypeOK
        <4>2. connected[m] \subseteq Peers(m)
          BY <4>1 DEF Peers
        <4>3. Wanted(m) = {} => Peers(m) = {}
          BY Keys
        <4> QED BY <4>2, <4>3
      <3> QED BY <2>1, <2>3, <3>1 DEF SetUp, LoopDone
    <2>8. Registering(m)'
      <3>1. Entered(m)' = Entered(m)
        BY <1>1, <2>1, <2>3 DEF Entered
      <3> QED BY <1>1, <2>1, <2>3, <3>1 DEF Mine, Registering
    <2>9. Stored(m)'
      <3> SUFFICES ASSUME NEW q \in Own(m) PROVE q \in kv
        BY <2>1, <2>3 DEF Stored
      <3> QED BY <1>1, <2>1, CallsDiffer DEF Stored
    <2>10. Passed(m)' = Passed(m)
      BY <1>1, <2>3 DEF Passed
    <2>11. rpc[m] # Held
      BY <2>1, CallsDiffer
    <2> QED BY <2>1, <2>4, <2>5, <2>6, <2>7, <2>8, <2>9, <2>10, <2>11, ProgramKeeps DEF Mine
  <1> QED BY <1>2, <1>3 DEF Push

LEMMA PullNext ==
  ASSUME UpInv, NEW m \in Machine, Pull(m)
  PROVE  UpInv'
  <1> USE DEF UpInv
  <1>1. stage[m] = "Pull" /\ todo[m] \subseteq Wanted(m) /\ Mine(m) /\ Stored(m)
    BY DEF Pull, Mine, Calling, AtBarrier
  <1>2. ASSUME NEW k \in todo[m], Visit(m, k, PullKV(k)), UNCHANGED local_vars
        PROVE  UpInv'
    <2>1. /\ rpc[m] = Free /\ rpc' = [rpc EXCEPT ![m] = PullKV(k)]
          /\ todo' = [todo EXCEPT ![m] = @ \ {k}]
          /\ UNCHANGED <<kv, pending_kv_calls, barrier_calls, aborted, stage, connected, recv_posted,
                         helper, msg_handlers, registered>>
      BY <1>2 DEF Visit, Issue, local_vars
    <2>2. rpc \in [Machine -> Call \cup {Free, Held, Answered}] /\ todo \in [Machine -> SUBSET Key]
      BY DEF TypeOK
    <2>3. rpc'[m] = PullKV(k) /\ todo'[m] = todo[m] \ {k} /\ rpc'[m] # Free
      BY <2>1, <2>2, CallsDiffer
    <2>4. \A p \in Machine \ {m} : Untouched(p)
      BY <2>1, <2>2 DEF Untouched
    <2>5. TypeOK'
      <3>1. k \in Key /\ PullKV(k) \in Call
        BY <1>1, Keys DEF Call
      <3> QED BY <3>1, <2>1 DEF TypeOK
    <2>6. Calling(m)'
      BY <1>1, <2>1, <2>3 DEF Calling
    <2>7. SetUp(m)'
      BY <1>1, <2>1, <2>3 DEF SetUp, LoopDone
    <2>8. Registering(m)'
      <3>1. Entered(m)' = Entered(m)
        BY <1>1, <2>1 DEF Entered
      <3> QED BY <1>1, <2>1, <3>1 DEF Mine, Registering
    <2>9. Stored(m)'
      BY <1>1, <2>1 DEF Stored
    <2>10. Passed(m)' = Passed(m)
      BY <1>1, <2>1 DEF Passed
    <2>11. rpc[m] # Held
      BY <2>1, CallsDiffer
    <2> QED BY <2>1, <2>4, <2>5, <2>6, <2>7, <2>8, <2>9, <2>10, <2>11, ProgramKeeps DEF Mine
  <1>3. ASSUME LoopOver(m), Meet(m, "SetUp:62"), GoTo(m, "SetUp:62", {}), UNCHANGED local_vars
        PROVE  UpInv'
    <2>1. /\ rpc[m] = Free /\ todo[m] = {} /\ rpc' = [rpc EXCEPT ![m] = BarrierAt("SetUp:62")]
          /\ stage' = [stage EXCEPT ![m] = "SetUp:62"] /\ todo' = [todo EXCEPT ![m] = {}]
          /\ UNCHANGED <<kv, pending_kv_calls, barrier_calls, aborted, connected, recv_posted,
                         helper, msg_handlers, registered>>
      BY <1>3 DEF LoopOver, GoTo, Meet, Issue, local_vars
    <2>2. /\ stage \in [Machine -> Stages] /\ todo \in [Machine -> SUBSET Key]
          /\ rpc \in [Machine -> Call \cup {Free, Held, Answered}]
      BY DEF TypeOK
    <2>3. stage'[m] = "SetUp:62" /\ todo'[m] = {} /\ rpc'[m] = BarrierAt("SetUp:62")
      BY <2>1, <2>2
    <2>4. \A p \in Machine \ {m} : Untouched(p)
      BY <2>1, <2>2 DEF Untouched
    <2>5. TypeOK'
      <3>1. "SetUp:62" \in Barrier
        BY BringUpAssumption DEF Barriers
      <3>2. BarrierAt("SetUp:62") \in Call
        BY <3>1 DEF Call
      <3> QED BY <3>2, <2>1 DEF TypeOK, Stages
    <2>6. Calling(m)'
      BY <2>3 DEF Calling, AtBarrier, BarrierOf
    <2>7. SetUp(m)'
      <3>1. connected[m] = Peers(m)
        BY <1>1, <2>1 DEF Mine, SetUp, LoopDone
      <3> QED BY <2>1, <2>3, <3>1 DEF SetUp, LoopDone
    <2>8. Registering(m)'
      <3>1. Entered(m)' = Entered(m)
        BY <1>1, <2>1, <2>3 DEF Entered
      <3> QED BY <1>1, <2>1, <2>3, <3>1 DEF Mine, Registering
    <2>9. Stored(m)'
      BY <1>1, <2>1, <2>3 DEF Stored
    <2>10. Passed(m)' = Passed(m)
      BY <1>1, <2>3, CallsDiffer DEF Passed, Returned
    <2>11. rpc[m] # Held
      BY <2>1, CallsDiffer
    <2> QED BY <2>1, <2>4, <2>5, <2>6, <2>7, <2>8, <2>9, <2>10, <2>11, ProgramKeeps DEF Mine
  <1> QED BY <1>2, <1>3 DEF Pull

LEMMA LeaveFirstNext ==
  ASSUME UpInv, NEW m \in Machine, LeaveFirstBarrier(m)
  PROVE  UpInv'
  <1> USE DEF UpInv
  <1>1. /\ stage[m] = "SetUp:62" /\ rpc[m] = Free /\ Mine(m) /\ Stored(m)
        /\ stage' = [stage EXCEPT ![m] = "Clear"] /\ todo' = [todo EXCEPT ![m] = Own(m)]
        /\ UNCHANGED <<rpc, kv, pending_kv_calls, barrier_calls, aborted, connected, recv_posted,
                       helper, msg_handlers, registered>>
    BY DEF LeaveFirstBarrier, GoTo, ctrl_vars, local_vars
  <1>2. stage \in [Machine -> Stages] /\ todo \in [Machine -> SUBSET Key]
    BY DEF TypeOK
  <1>3. stage'[m] = "Clear" /\ todo'[m] = Own(m)
    BY <1>1, <1>2
  <1>4. \A p \in Machine \ {m} : Untouched(p)
    BY <1>1, <1>2 DEF Untouched
  <1>5. TypeOK'
    BY <1>1, Keys DEF TypeOK, Stages
  <1>6. Calling(m)'
    BY <1>1, <1>3 DEF Calling, Returned
  <1>7. SetUp(m)'
    <2>1. connected[m] = Peers(m)
      BY <1>1 DEF Mine, SetUp
    <2>2. Own(m) = {} => helper[m] = Peers(m)
      <3>1. helper \in [Machine -> SUBSET Machine] /\ m \notin helper[m]
        BY DEF TypeOK
      <3>2. helper[m] \subseteq Peers(m)
        BY <3>1 DEF Peers
      <3>3. Own(m) = {} => Peers(m) = {}
        BY Keys
      <3> QED BY <3>2, <3>3
    <2> QED BY <1>1, <1>3, <2>1, <2>2 DEF SetUp, LoopDone
  <1>8. Registering(m)'
    <2>1. Entered(m)' = Entered(m)
      BY <1>1, <1>3 DEF Entered
    <2> QED BY <1>1, <1>3, <2>1 DEF Mine, Registering
  <1>9. Stored(m)'
    BY <1>1, <1>3 DEF Stored
  <1>10. Passed(m)' = Passed(m)
    BY <1>1, <1>3 DEF Passed, Returned
  <1>11. rpc[m] # Held
    BY <1>1, CallsDiffer
  <1> QED BY <1>1, <1>4, <1>5, <1>6, <1>7, <1>8, <1>9, <1>10, <1>11, ProgramKeeps DEF Mine

LEMMA ClearNext ==
  ASSUME UpInv, NEW m \in Machine, Clear(m)
  PROVE  UpInv'
  <1> USE DEF UpInv
  <1>1. stage[m] = "Clear" /\ todo[m] \subseteq Own(m) /\ Mine(m) /\ Stored(m)
    BY DEF Clear, Mine, Calling, AtBarrier
  <1>2. ASSUME NEW k \in todo[m], Visit(m, k, ClearKV(k)),
               recv_posted' = [recv_posted EXCEPT ![m] = @ \cup {k[3]}],
               UNCHANGED <<connected, helper, msg_handlers, registered>>
        PROVE  UpInv'
    <2>1. /\ rpc[m] = Free /\ rpc' = [rpc EXCEPT ![m] = ClearKV(k)]
          /\ todo' = [todo EXCEPT ![m] = @ \ {k}]
          /\ UNCHANGED <<kv, pending_kv_calls, barrier_calls, aborted, stage, connected, helper,
                         msg_handlers, registered>>
      BY <1>2 DEF Visit, Issue
    <2>2. /\ rpc \in [Machine -> Call \cup {Free, Held, Answered}]
          /\ todo \in [Machine -> SUBSET Key] /\ recv_posted \in [Machine -> SUBSET Machine]
      BY DEF TypeOK
    <2>3. /\ rpc'[m] = ClearKV(k) /\ todo'[m] = todo[m] \ {k} /\ rpc'[m] # Free
          /\ recv_posted'[m] = recv_posted[m] \cup {k[3]}
      BY <1>2, <2>1, <2>2, CallsDiffer
    <2>4. \A p \in Machine \ {m} : Untouched(p)
      BY <1>2, <2>1, <2>2 DEF Untouched
    <2>5. k \in Own(m) /\ k \in Key /\ k[3] \in Machine /\ k[3] # m
      BY <1>1, Keys DEF Peers
    <2>6. TypeOK'
      <3>1. ClearKV(k) \in Call
        BY <2>5 DEF Call
      <3>2. recv_posted' \in [Machine -> SUBSET Machine] /\ \A p \in Machine : p \notin recv_posted'[p]
        BY <1>2, <2>5, <2>2 DEF TypeOK
      <3> QED BY <3>1, <3>2, <2>1 DEF TypeOK
    <2>7. Calling(m)'
      BY <1>1, <2>1, <2>3 DEF Calling
    <2>8. SetUp(m)'
      <3>1. connected'[m] = Peers(m)
        BY <1>1, <2>1 DEF Mine, SetUp
      <3>2. \A q \in Own(m) \ todo[m] : q[3] \in recv_posted[m]
        BY <1>1 DEF Mine, SetUp
      <3>3. \A q \in Own(m) \ todo'[m] : q[3] \in recv_posted'[m]
        BY <2>3, <3>2
      <3> QED BY <1>1, <2>1, <2>3, <3>1, <3>3 DEF SetUp, LoopDone
    <2>9. Registering(m)'
      <3>1. Entered(m)' = Entered(m)
        BY <1>1, <2>1 DEF Entered
      <3> QED BY <1>1, <2>1, <3>1 DEF Mine, Registering
    <2>10. Stored(m)'
      <3> SUFFICES ASSUME NEW q \in Own(m)
                   PROVE  q \in kv <=> q \in todo'[m] \/ rpc'[m] = ClearKV(q)
        BY <1>1, <2>1 DEF Stored
      <3>1. q \in kv <=> q \in todo[m] \/ rpc[m] = ClearKV(q)
        BY <1>1 DEF Stored
      <3>2. rpc[m] # ClearKV(q) /\ (ClearKV(k) = ClearKV(q) => k = q)
        BY <2>1, CallsDiffer
      <3> QED BY <3>1, <3>2, <2>3
    <2>11. Passed(m)' = Passed(m)
      BY <1>1, <2>1 DEF Passed
    <2>12. rpc[m] # Held
      BY <2>1, CallsDiffer
    <2> QED BY <2>1, <2>4, <2>6, <2>7, <2>8, <2>9, <2>10, <2>11, <2>12, ProgramKeeps DEF Mine
  <1>3. ASSUME LoopOver(m), Meet(m, "SetUp:68"), GoTo(m, "SetUp:68", {}), UNCHANGED local_vars
        PROVE  UpInv'
    <2>1. /\ rpc[m] = Free /\ todo[m] = {} /\ rpc' = [rpc EXCEPT ![m] = BarrierAt("SetUp:68")]
          /\ stage' = [stage EXCEPT ![m] = "SetUp:68"] /\ todo' = [todo EXCEPT ![m] = {}]
          /\ UNCHANGED <<kv, pending_kv_calls, barrier_calls, aborted, connected, recv_posted,
                         helper, msg_handlers, registered>>
      BY <1>3 DEF LoopOver, GoTo, Meet, Issue, local_vars
    <2>2. /\ stage \in [Machine -> Stages] /\ todo \in [Machine -> SUBSET Key]
          /\ rpc \in [Machine -> Call \cup {Free, Held, Answered}]
      BY DEF TypeOK
    <2>3. stage'[m] = "SetUp:68" /\ todo'[m] = {} /\ rpc'[m] = BarrierAt("SetUp:68")
      BY <2>1, <2>2
    <2>4. \A p \in Machine \ {m} : Untouched(p)
      BY <2>1, <2>2 DEF Untouched
    <2>5. TypeOK'
      <3>1. "SetUp:68" \in Barrier
        BY BringUpAssumption DEF Barriers
      <3>2. BarrierAt("SetUp:68") \in Call
        BY <3>1 DEF Call
      <3> QED BY <3>2, <2>1 DEF TypeOK, Stages
    <2>6. Calling(m)'
      BY <2>3 DEF Calling, AtBarrier, BarrierOf
    <2>7. SetUp(m)'
      <3>1. connected[m] = Peers(m) /\ helper[m] = Peers(m)
        BY <1>1, <2>1 DEF Mine, SetUp, LoopDone
      <3>2. recv_posted[m] = Peers(m)
        <4>1. \A k \in Own(m) : k[3] \in recv_posted[m]
          BY <1>1, <2>1 DEF Mine, SetUp
        <4>2. Peers(m) \subseteq recv_posted[m]
          BY <4>1, Keys
        <4>3. recv_posted \in [Machine -> SUBSET Machine] /\ m \notin recv_posted[m]
          BY DEF TypeOK
        <4> QED BY <4>2, <4>3 DEF Peers
      <3> QED BY <2>1, <2>3, <3>1, <3>2 DEF SetUp, LoopDone
    <2>8. Registering(m)'
      <3>1. Entered(m)' = Entered(m)
        BY <1>1, <2>1, <2>3 DEF Entered
      <3> QED BY <1>1, <2>1, <2>3, <3>1 DEF Mine, Registering
    <2>9. Stored(m)'
      <3> SUFFICES ASSUME NEW q \in Own(m) PROVE q \notin kv
        BY <2>1, <2>3 DEF Stored
      <3> QED BY <1>1, <2>1, CallsDiffer DEF Stored
    <2>10. Passed(m)' = Passed(m)
      BY <1>1, <2>3, CallsDiffer DEF Passed, Returned
    <2>11. rpc[m] # Held
      BY <2>1, CallsDiffer
    <2> QED BY <2>1, <2>4, <2>5, <2>6, <2>7, <2>8, <2>9, <2>10, <2>11, ProgramKeeps DEF Mine
  <1> QED BY <1>2, <1>3 DEF Clear

LEMMA LeaveSecondNext ==
  ASSUME UpInv, NEW m \in Machine, LeaveSecondBarrier(m)
  PROVE  UpInv'
  <1> USE DEF UpInv
  <1>1. /\ stage[m] = "SetUp:68" /\ rpc[m] = Free /\ Mine(m) /\ Stored(m)
        /\ stage' = [stage EXCEPT ![m] = "Register"] /\ todo' = [todo EXCEPT ![m] = {}]
        /\ UNCHANGED <<rpc, kv, pending_kv_calls, barrier_calls, aborted, connected, recv_posted,
                       helper, msg_handlers, registered>>
    BY DEF LeaveSecondBarrier, GoTo, ctrl_vars, local_vars
  <1>2. stage \in [Machine -> Stages] /\ todo \in [Machine -> SUBSET Key]
    BY DEF TypeOK
  <1>3. stage'[m] = "Register" /\ todo'[m] = {}
    BY <1>1, <1>2
  <1>4. \A p \in Machine \ {m} : Untouched(p)
    BY <1>1, <1>2 DEF Untouched
  <1>5. TypeOK'
    BY <1>1 DEF TypeOK, Stages
  <1>6. Calling(m)'
    BY <1>1, <1>3 DEF Calling, Returned, AtBarrier
  <1>7. SetUp(m)'
    BY <1>1, <1>3 DEF Mine, SetUp, LoopDone
  <1>8. registered[m] = 0
    BY <1>1 DEF Mine, Registering
  <1>9. Registering(m)'
    <2>1. Entered(m)' = 0
      BY <1>1, <1>3, <1>8 DEF Entered
    <2> QED BY <1>3, <2>1 DEF Registering
  <1>10. Stored(m)'
    BY <1>1, <1>3 DEF Stored
  <1>11. Passed(m)' = Passed(m)
    BY <1>1, <1>3, <1>8, CallsDiffer DEF Passed, Returned
  <1>12. rpc[m] # Held
    BY <1>1, CallsDiffer
  <1> QED BY <1>1, <1>4, <1>5, <1>6, <1>7, <1>9, <1>10, <1>11, <1>12, ProgramKeeps DEF Mine

LEMMA RegisterNext ==
  ASSUME UpInv, NEW m \in Machine, RegisterMsgHandler(m)
  PROVE  UpInv'
  <1> USE DEF UpInv
  <1> DEFINE next == registered[m] + 1
             h == HandlerOrder[m][next]
             call == BarrierAt("RegisterMsgHandler:48")
  <1>1. /\ stage[m] = "Register" /\ registered[m] < Len(HandlerOrder[m])
        /\ rpc[m] = Free /\ Mine(m) /\ Stored(m)
        /\ rpc' = [rpc EXCEPT ![m] = call]
        /\ msg_handlers' = [msg_handlers EXCEPT ![m] = Emplace(@, h)]
        /\ UNCHANGED <<kv, pending_kv_calls, barrier_calls, aborted, stage, todo, connected,
                       recv_posted, helper, registered>>
    BY DEF RegisterMsgHandler, Meet, Issue
  <1>2. /\ rpc \in [Machine -> Call \cup {Free, Held, Answered}]
        /\ msg_handlers \in [Machine -> SUBSET Handler] /\ registered[m] \in Nat
    BY DEF TypeOK
  <1>3. /\ rpc'[m] = call /\ rpc'[m] \notin {Free, Answered, Held}
        /\ msg_handlers'[m] = Emplace(msg_handlers[m], h)
    BY <1>1, <1>2, CallsDiffer
  <1>4. \A p \in Machine \ {m} : Untouched(p)
    BY <1>1, <1>2 DEF Untouched
  <1>5. h \in Handler
    <2>1. HandlerOrder[m] \in Seq(Handler)
      BY BringUpAssumption
    <2>2. next \in 1 .. Len(HandlerOrder[m])
      BY <1>1, <1>2, <2>1
    <2> QED BY <2>1, <2>2
  <1>6. TypeOK'
    <2>1. call \in Call
      BY BringUpAssumption DEF Barriers, Call
    <2>2. Emplace(msg_handlers[m], h) \subseteq Handler
      BY <1>2, <1>5 DEF Emplace
    <2>3. msg_handlers' \in [Machine -> SUBSET Handler]
      BY <1>1, <1>2, <2>2
    <2> HIDE DEF h, call, next
    <2> QED BY <1>1, <2>1, <2>3 DEF TypeOK
  <1>7. Calling(m)'
    BY <1>1, <1>3 DEF Mine, Calling, AtBarrier, BarrierOf
  <1>8. SetUp(m)'
    BY <1>1 DEF Mine, SetUp, LoopDone
  <1>9. Registering(m)'
    <2>1. Entered(m) = registered[m] /\ Entered(m)' = next
      BY <1>1, <1>2, <1>3 DEF Entered
    <2> SUFFICES ASSUME OneHandlerPerType, NEW i \in 1 .. next
                 PROVE  HandlerOrder[m][i] \in msg_handlers'[m]
      BY <1>1, <2>1 DEF Registering, OneHandlerPerType
    <2>2. \A j \in 1 .. registered[m] : HandlerOrder[m][j] \in msg_handlers[m]
      BY <1>1, <2>1 DEF Mine, Registering
    <2>3. msg_handlers[m] \subseteq msg_handlers'[m]
      BY <1>3 DEF Emplace
    <2>4. h \in msg_handlers'[m]
      BY <1>2, <1>3, <1>5 DEF Emplace, OneHandlerPerType
    <2> QED BY <1>2, <2>2, <2>3, <2>4
  <1>10. Stored(m)'
    BY <1>1 DEF Stored
  <1>11. Passed(m)' = Passed(m)
    BY <1>1, <1>3, CallsDiffer DEF Passed
  <1>12. rpc[m] # Held
    BY <1>1, CallsDiffer
  <1> QED BY <1>1, <1>4, <1>6, <1>7, <1>8, <1>9, <1>10, <1>11, <1>12, ProgramKeeps DEF Mine

LEMMA ReturnNext ==
  ASSUME UpInv, NEW m \in Machine, CallReturns(m)
  PROVE  UpInv'
  <1> USE DEF UpInv
  <1>1. /\ rpc[m] = Answered /\ rpc' = [rpc EXCEPT ![m] = Free] /\ Mine(m) /\ Stored(m)
        /\ connected' = [connected EXCEPT ![m] = IF stage[m] = "Pull" THEN Finished(m) ELSE @]
        /\ helper' = [helper EXCEPT ![m] = IF stage[m] = "Clear" THEN Finished(m) ELSE @]
        /\ registered' = [registered EXCEPT ![m] = IF stage[m] = "Register" THEN @ + 1 ELSE @]
        /\ UNCHANGED <<kv, pending_kv_calls, barrier_calls, aborted, stage, todo, recv_posted,
                       msg_handlers>>
    BY DEF CallReturns, Return, Connect, CreateHelper
  <1>2. /\ rpc \in [Machine -> Call \cup {Free, Held, Answered}]
        /\ connected \in [Machine -> SUBSET Machine] /\ helper \in [Machine -> SUBSET Machine]
        /\ registered \in [Machine -> Nat]
    BY DEF TypeOK
  <1>3. /\ rpc'[m] = Free
        /\ connected'[m] = IF stage[m] = "Pull" THEN Finished(m) ELSE connected[m]
        /\ helper'[m] = IF stage[m] = "Clear" THEN Finished(m) ELSE helper[m]
        /\ registered'[m] = IF stage[m] = "Register" THEN registered[m] + 1 ELSE registered[m]
    BY <1>1, <1>2
  <1>4. \A p \in Machine \ {m} : Untouched(p)
    BY <1>1, <1>2 DEF Untouched
  <1>5. Finished(m) \subseteq Peers(m) /\ (todo[m] = {} => Finished(m) = Peers(m))
    BY DEF Finished
  <1>6. TypeOK'
    <2>1. Finished(m) \subseteq Machine /\ m \notin Finished(m)
      BY <1>5 DEF Peers
    <2>2. /\ connected' \in [Machine -> SUBSET Machine] /\ \A p \in Machine : p \notin connected'[p]
          /\ helper' \in [Machine -> SUBSET Machine] /\ \A p \in Machine : p \notin helper'[p]
      BY <2>1, <1>1, <1>2 DEF TypeOK
    <2>3. registered' \in [Machine -> Nat]
      BY <1>1, <1>2
    <2> QED BY <2>2, <2>3, <1>1 DEF TypeOK
  <1>7. Calling(m)'
    BY <1>1, <1>3 DEF Mine, Calling, Returned
  <1>8. SetUp(m)'
    <2>1. stage[m] \notin {"Push", "Pull"} => connected'[m] = Peers(m)
      BY <1>1, <1>3 DEF Mine, SetUp
    <2>2. stage[m] = "Pull" /\ todo[m] = {} => connected'[m] = Peers(m)
      BY <1>3, <1>5
    <2>3. stage[m] \in {"SetUp:68", "Register"} => helper'[m] = Peers(m)
      BY <1>1, <1>3 DEF Mine, SetUp
    <2>4. stage[m] = "Clear" /\ todo[m] = {} => helper'[m] = Peers(m)
      BY <1>3, <1>5
    <2> QED BY <1>1, <2>1, <2>2, <2>3, <2>4 DEF Mine, SetUp, LoopDone
  <1>9. Registering(m)'
    <2>1. Entered(m)' = Entered(m)
      BY <1>1, <1>2, <1>3, CallsDiffer DEF Entered
    <2> QED BY <1>1, <1>3, <2>1 DEF Mine, Registering
  <1>10. Stored(m)'
    BY <1>1, <1>3, CallsDiffer DEF Stored
  <1>11. Passed(m)' = Passed(m)
    BY <1>1, <1>2, <1>3, CallsDiffer DEF Passed, Returned
  <1>12. rpc[m] # Held
    BY <1>1, CallsDiffer
  <1> QED BY <1>1, <1>4, <1>6, <1>7, <1>8, <1>9, <1>10, <1>11, <1>12, ProgramKeeps DEF Mine

--------------------------------------------------------------------------------
(* The servers.                                                            *)

\* The stage of a machine tells which call it has out.
LEMMA CallOut ==
  ASSUME NEW m \in Machine, Calling(m), rpc[m].at = "sent"
  PROVE  \/ stage[m] = "Push" /\ \E k \in Own(m) \ todo[m] : rpc[m] = PushKV(k)
         \/ stage[m] = "Pull" /\ \E k \in Wanted(m) \ todo[m] : rpc[m] = PullKV(k)
         \/ stage[m] = "Clear" /\ \E k \in Own(m) \ todo[m] : rpc[m] = ClearKV(k)
         \/ stage[m] \in AtBarrier /\ rpc[m] = BarrierAt(BarrierOf(stage[m]))
  <1>1. ~Returned(m) /\ rpc[m] # Held
    BY Fields DEF Returned
  <1> QED BY <1>1 DEF Calling

\* A client that is answered, or held, was waiting before.
LEMMA MineServed ==
  ASSUME NEW p \in Machine, Mine(p), rpc[p] # Free,
         rpc'[p] = Answered \/ (rpc'[p] = Held /\ stage[p] \in {"Pull"} \cup AtBarrier),
         UNCHANGED <<stage, todo, connected, recv_posted, helper, msg_handlers, registered>>
  PROVE  Mine(p)'
  <1>1. rpc'[p] # Free
    BY CallsDiffer
  <1>2. Calling(p)'
    BY DEF Mine, Calling, Returned, AtBarrier
  <1>3. SetUp(p)'
    BY <1>1 DEF Mine, SetUp, LoopDone
  <1>4. Registering(p)'
    <2>1. Entered(p)' = Entered(p)
      BY <1>1 DEF Entered
    <2> QED BY <2>1 DEF Mine, Registering
  <1> QED BY <1>2, <1>3, <1>4 DEF Mine

\* Requests on a key move nobody across a barrier.
LEMMA KeyServed ==
  ASSUME UpInv, NEW A \in SUBSET Machine,
         UNCHANGED <<stage, todo, connected, recv_posted, helper, msg_handlers, registered,
                     barrier_calls, aborted>>,
         \A p \in Machine \ A : rpc'[p] = rpc[p],
         \A p \in A : /\ stage[p] \in {"Push", "Pull", "Clear"} /\ rpc[p] # Free
                      /\ rpc'[p] = Answered \/ (rpc'[p] = Held /\ stage[p] = "Pull"),
         TypeOK', \A p \in Machine : Stored(p)', Pending'
  PROVE  UpInv'
  <1> USE DEF UpInv
  <1>1. NoCheckFailure'
    BY DEF NoCheckFailure
  <1>2. ASSUME NEW p \in Machine PROVE Mine(p)' /\ Passed(p)' = Passed(p)
    <2>1. CASE p \in A
      <3>1. Mine(p)'
        BY <2>1, MineServed
      <3>2. Passed(p)' = Passed(p)
        BY <2>1 DEF Passed
      <3> QED BY <3>1, <3>2
    <2>2. CASE p \notin A
      <3>1. Untouched(p)
        BY <2>2 DEF Untouched
      <3> QED BY <3>1, MineKept
    <2> QED BY <2>1, <2>2
  <1>3. ASSUME NEW b \in Barrier PROVE Queue(b)'
    <2>1. Queue(b) /\ barrier_calls[b] \in Seq(Machine)
      BY DEF TypeOK
    <2>2. ASSUME NEW i \in DOMAIN barrier_calls[b]
          PROVE  LET p == barrier_calls[b][i] IN
                   stage[p] \in AtBarrier /\ BarrierOf(stage[p]) = b /\ rpc'[p] = Held
      <3> DEFINE p == barrier_calls[b][i]
      <3>1. p \in Machine
        BY <2>1
      <3>2. stage[p] \in AtBarrier /\ BarrierOf(stage[p]) = b /\ rpc[p] = Held
        BY <2>1 DEF Queue
      <3>3. p \notin A
        BY <3>2 DEF AtBarrier
      <3> QED BY <3>1, <3>2, <3>3
    <2> QED BY <2>1, <2>2 DEF Queue, BarrierOf
  <1>4. InStep'
    BY <1>2 DEF InStep
  <1> QED BY <1>1, <1>2, <1>3, <1>4

LEMMA HandlePushNext ==
  ASSUME UpInv, NEW m \in Machine, HandlePushKV(m), UNCHANGED <<stage, todo, local_vars>>
  PROVE  UpInv'
  <1> USE DEF UpInv
  <1>1. PICK k \in Own(m) \ todo[m] : stage[m] = "Push" /\ rpc[m] = PushKV(k)
    BY CallOut, Fields DEF HandlePushKV, Sent, Mine
  <1>2. k \in Key /\ k \notin kv /\ rpc[m].key = k
    BY <1>1, Keys, Fields DEF Stored
  <1> DEFINE A == pending_kv_calls[k] \cup {m}
  <1>3. /\ kv' = kv \cup {k}
        /\ rpc' = [p \in Machine |-> IF p \in A THEN Answered ELSE rpc[p]]
        /\ pending_kv_calls' = [pending_kv_calls EXCEPT ![k] = {}]
        /\ UNCHANGED <<barrier_calls, aborted>>
    BY <1>2 DEF HandlePushKV, Answer
  <1>4. /\ A \in SUBSET Machine
        /\ pending_kv_calls \in [Key -> SUBSET Machine]
    BY <1>2 DEF TypeOK
  <1>5. \A p \in pending_kv_calls[k] : stage[p] = "Pull" /\ rpc[p] = Held
    BY <1>2 DEF Pending
  <1>6. \A p \in A : stage[p] \in {"Push", "Pull"} /\ rpc[p] # Free
    BY <1>1, <1>5, CallsDiffer
  <1>7. /\ \A p \in Machine \ A : rpc'[p] = rpc[p]
        /\ \A p \in A : rpc'[p] = Answered
    BY <1>3, <1>4
  <1>8. TypeOK'
    <2>1. rpc' \in [Machine -> Call \cup {Free, Held, Answered}]
      BY <1>3 DEF TypeOK
    <2> HIDE DEF A
    <2> QED BY <2>1, <1>2, <1>3, <1>4 DEF TypeOK, local_vars
  <1>9. ASSUME NEW p \in Machine PROVE Stored(p)'
    <2> SUFFICES ASSUME NEW q \in Own(p)
                 PROVE  q \in kv' <=> \/ stage[p] = "Push" /\ q \notin todo[p] /\ rpc'[p] # PushKV(q)
                                      \/ stage[p] \in {"Pull", "SetUp:62"}
                                      \/ stage[p] = "Clear" /\ (q \in todo[p] \/ rpc'[p] = ClearKV(q))
      BY DEF Stored
    <2>1. q \in kv <=> \/ stage[p] = "Push" /\ q \notin todo[p] /\ rpc[p] # PushKV(q)
                       \/ stage[p] \in {"Pull", "SetUp:62"}
                       \/ stage[p] = "Clear" /\ (q \in todo[p] \/ rpc[p] = ClearKV(q))
      BY DEF Stored
    <2>2. CASE p = m
      <3>1. rpc'[m] # PushKV(q) /\ (rpc[m] = PushKV(q) <=> q = k)
        BY <1>1, <1>7, CallsDiffer
      <3>2. q \in kv' <=> q \in kv \/ q = k
        BY <1>3
      <3> QED BY <1>1, <2>1, <2>2, <3>1, <3>2
    <2>3. CASE p # m
      <3>1. q # k
        BY <1>1, <2>3, Keys
      <3>2. q \in kv' <=> q \in kv
        BY <1>3, <3>1
      <3>3. p \in A => stage[p] = "Pull"
        BY <1>5, <2>3
      <3> HIDE DEF A
      <3> QED BY <1>7, <2>1, <3>2, <3>3
    <2> QED BY <2>2, <2>3
  <1>10. Pending'
    <2> SUFFICES ASSUME NEW q \in Key, NEW p \in pending_kv_calls'[q]
                 PROVE  /\ stage[p] = "Pull" /\ rpc'[p] = Held
                        /\ \A r \in Key : p \in pending_kv_calls'[r] => r = q
      BY DEF Pending
    <2>1. q # k /\ p \in pending_kv_calls[q]
      BY <1>2, <1>3, <1>4
    <2>2. stage[p] = "Pull" /\ rpc[p] = Held /\ \A r \in Key : p \in pending_kv_calls[r] => r = q
      BY <2>1 DEF Pending
    <2>3. p \in Machine \ A
      BY <1>1, <1>2, <1>4, <2>1, <2>2
    <2>4. \A r \in Key : p \in pending_kv_calls'[r] => p \in pending_kv_calls[r]
      BY <1>3, <1>4
    <2> QED BY <1>7, <2>2, <2>3, <2>4
  <1>11. \A p \in A : /\ stage[p] \in {"Push", "Pull", "Clear"} /\ rpc[p] # Free
                      /\ rpc'[p] = Answered \/ (rpc'[p] = Held /\ stage[p] = "Pull")
    BY <1>6, <1>7
  <1>12. UNCHANGED <<stage, todo, connected, recv_posted, helper, msg_handlers, registered,
                     barrier_calls, aborted>>
    BY <1>3 DEF local_vars
  <1> HIDE DEF A
  <1> QED BY <1>4, <1>7, <1>8, <1>9, <1>10, <1>11, <1>12, KeyServed

LEMMA HandlePullNext ==
  ASSUME UpInv, NEW m \in Machine, HandlePullKV(m), UNCHANGED <<stage, todo, local_vars>>
  PROVE  UpInv'
  <1> USE DEF UpInv
  <1>1. PICK k \in Wanted(m) \ todo[m] : stage[m] = "Pull" /\ rpc[m] = PullKV(k)
    BY CallOut, Fields DEF HandlePullKV, Sent, Mine
  <1>2. k \in Key /\ rpc[m].key = k /\ rpc[m] \notin {Free, Held, Answered}
    BY <1>1, Keys, Fields, CallsDiffer
  <1>3. /\ \/ /\ rpc' = [p \in Machine |-> IF p \in {m} THEN Answered ELSE rpc[p]]
              /\ UNCHANGED pending_kv_calls
           \/ /\ rpc' = [rpc EXCEPT ![m] = Held]
              /\ pending_kv_calls' = [pending_kv_calls EXCEPT ![k] = @ \cup {m}]
        /\ UNCHANGED <<kv, barrier_calls, aborted, stage, todo, connected, recv_posted, helper,
                       msg_handlers, registered>>
    BY <1>2 DEF HandlePullKV, Answer, local_vars
  <1>4. /\ rpc \in [Machine -> Call \cup {Free, Held, Answered}]
        /\ pending_kv_calls \in [Key -> SUBSET Machine]
    BY DEF TypeOK
  <1>5. /\ rpc' \in [Machine -> Call \cup {Free, Held, Answered}]
        /\ \A p \in Machine \ {m} : rpc'[p] = rpc[p]
        /\ rpc'[m] \in {Answered, Held}
        /\ pending_kv_calls' \in [Key -> SUBSET Machine]
    BY <1>3, <1>4
  <1>6. TypeOK'
    BY <1>3, <1>5 DEF TypeOK
  <1>7. ASSUME NEW p \in Machine PROVE Stored(p)'
    <2>1. CASE p = m
      BY <1>1, <1>3, <2>1 DEF Stored
    <2>2. CASE p # m
      BY <1>3, <1>5, <2>2 DEF Stored
    <2> QED BY <2>1, <2>2
  <1>8. Pending'
    <2> SUFFICES ASSUME NEW q \in Key, NEW p \in pending_kv_calls'[q]
                 PROVE  /\ stage[p] = "Pull" /\ rpc'[p] = Held
                        /\ \A r \in Key : p \in pending_kv_calls'[r] => r = q
      BY <1>3 DEF Pending
    <2>1. \A r \in Key : m \notin pending_kv_calls[r]
      BY <1>2 DEF Pending
    <2>2. CASE p = m
      <3>1. rpc'[m] = Held /\ q = k
        BY <1>2, <1>3, <1>4, <2>1, <2>2
      <3>2. \A r \in Key : m \in pending_kv_calls'[r] => r = k
        BY <1>2, <1>3, <1>4, <2>1
      <3> QED BY <1>1, <2>2, <3>1, <3>2
    <2>3. CASE p # m
      <3>1. \A r \in Key : p \in pending_kv_calls'[r] => p \in pending_kv_calls[r]
        BY <1>2, <1>3, <1>4, <2>3
      <3>2. p \in pending_kv_calls[q] /\ p \in Machine
        BY <1>4, <3>1
      <3>3. stage[p] = "Pull" /\ rpc[p] = Held /\ \A r \in Key : p \in pending_kv_calls[r] => r = q
        BY <3>2 DEF Pending
      <3> QED BY <1>5, <2>3, <3>1, <3>2, <3>3
    <2> QED BY <2>2, <2>3
  <1>9. \A p \in {m} : /\ stage[p] \in {"Push", "Pull", "Clear"} /\ rpc[p] # Free
                       /\ rpc'[p] = Answered \/ (rpc'[p] = Held /\ stage[p] = "Pull")
    BY <1>1, <1>2, <1>5
  <1>10. UNCHANGED <<stage, todo, connected, recv_posted, helper, msg_handlers, registered,
                     barrier_calls, aborted>>
    BY <1>3
  <1>11. {m} \in SUBSET Machine
    OBVIOUS
  <1> QED BY <1>5, <1>6, <1>7, <1>8, <1>9, <1>10, <1>11, KeyServed

\* A machine that clears its keys has passed a barrier, so every machine has,
\* and none waits for a key any more.
LEMMA HandleClearNext ==
  ASSUME UpInv, NEW m \in Machine, HandleClearKV(m), UNCHANGED <<stage, todo, local_vars>>
  PROVE  UpInv'
  <1> USE DEF UpInv
  <1>1. PICK k \in Own(m) \ todo[m] : stage[m] = "Clear" /\ rpc[m] = ClearKV(k)
    BY CallOut, Fields DEF HandleClearKV, Sent, Mine
  <1>2. /\ k \in Key /\ k \in kv /\ rpc[m].key = k /\ rpc[m] \notin {Free, Held, Answered}
    BY <1>1, Keys, Fields, CallsDiffer DEF Stored
  <1>3. \A p \in Machine : stage[p] # "Pull"
    <2> SUFFICES ASSUME NEW p \in Machine, stage[p] = "Pull" PROVE FALSE
      OBVIOUS
    <2>1. Passed(p) = 0 /\ Passed(m) = 1
      BY <1>1 DEF Passed
    <2> QED BY <2>1 DEF InStep
  <1>4. /\ rpc \in [Machine -> Call \cup {Free, Held, Answered}]
        /\ pending_kv_calls \in [Key -> SUBSET Machine]
    BY DEF TypeOK
  <1>5. pending_kv_calls[k] = {}
    BY <1>2, <1>3, <1>4 DEF Pending
  <1>6. /\ kv' = kv \ {k}
        /\ rpc' = [p \in Machine |-> IF p \in {m} THEN Answered ELSE rpc[p]]
        /\ UNCHANGED <<pending_kv_calls, barrier_calls, aborted, stage, todo, connected, recv_posted,
                       helper, msg_handlers, registered>>
    BY <1>2, <1>5 DEF HandleClearKV, Answer, local_vars
  <1>7. /\ rpc' \in [Machine -> Call \cup {Free, Held, Answered}]
        /\ \A p \in Machine \ {m} : rpc'[p] = rpc[p]
        /\ rpc'[m] = Answered
    BY <1>4, <1>6
  <1>8. TypeOK'
    BY <1>6, <1>7 DEF TypeOK
  <1>9. ASSUME NEW p \in Machine PROVE Stored(p)'
    <2>1. CASE p = m
      <3> SUFFICES ASSUME NEW q \in Own(m)
                   PROVE  q \in kv' <=> q \in todo[m] \/ rpc'[m] = ClearKV(q)
        BY <1>1, <1>6, <2>1 DEF Stored
      <3>1. q \in kv <=> q \in todo[m] \/ rpc[m] = ClearKV(q)
        BY <1>1 DEF Stored
      <3>2. rpc'[m] # ClearKV(q) /\ (rpc[m] = ClearKV(q) <=> q = k)
        BY <1>1, <1>7, CallsDiffer
      <3> QED BY <1>1, <1>6, <3>1, <3>2
    <2>2. CASE p # m
      <3>1. k \notin Own(p)
        BY <1>1, <2>2, Keys
      <3>2. \A q \in Own(p) : q \in kv' <=> q \in kv
        BY <1>6, <3>1
      <3>3. rpc'[p] = rpc[p] /\ Stored(p)
        BY <1>7, <2>2
      <3> QED BY <1>6, <3>2, <3>3 DEF Stored
    <2> QED BY <2>1, <2>2
  <1>10. Pending'
    <2>1. \A q \in Key : pending_kv_calls[q] = {}
      BY <1>3, <1>4 DEF Pending
    <2> QED BY <1>6, <2>1 DEF Pending
  <1>11. \A p \in {m} : /\ stage[p] \in {"Push", "Pull", "Clear"} /\ rpc[p] # Free
                        /\ rpc'[p] = Answered \/ (rpc'[p] = Held /\ stage[p] = "Pull")
    BY <1>1, <1>2, <1>7
  <1> QED BY <1>6, <1>7, <1>8, <1>9, <1>10, <1>11, KeyServed

\* Whom a barrier moves, or keeps, waits at it.
LEMMA BarrierServed ==
  ASSUME UpInv, NEW b \in Barrier, NEW A \in SUBSET Machine,
         UNCHANGED <<stage, todo, connected, recv_posted, helper, msg_handlers, registered,
                     kv, pending_kv_calls, aborted>>,
         \A p \in Machine \ A : rpc'[p] = rpc[p],
         \A p \in A : /\ stage[p] \in AtBarrier /\ rpc[p] \notin {Free, Answered}
                      /\ rpc'[p] \in {Answered, Held},
         TypeOK', \A a \in Barrier : Queue(a)', InStep'
  PROVE  UpInv'
  <1> USE DEF UpInv
  <1>1. NoCheckFailure'
    BY DEF NoCheckFailure
  <1>2. ASSUME NEW p \in Machine PROVE Mine(p)' /\ Stored(p)'
    <2>1. CASE p \in A
      <3>1. Mine(p)'
        BY <2>1, MineServed
      <3>2. Stored(p)'
        BY <2>1 DEF Stored, AtBarrier
      <3> QED BY <3>1, <3>2
    <2>2. CASE p \notin A
      <3>1. Untouched(p)
        BY <2>2 DEF Untouched
      <3> QED BY <3>1, MineKept DEF Stored, Untouched
    <2> QED BY <2>1, <2>2
  <1>3. Pending'
    <2> SUFFICES ASSUME NEW k \in Key, NEW p \in pending_kv_calls[k]
                 PROVE  /\ stage[p] = "Pull" /\ rpc'[p] = Held
                        /\ \A q \in Key : p \in pending_kv_calls[q] => q = k
      BY DEF Pending
    <2>1. p \in Machine
      BY DEF TypeOK
    <2>2. stage[p] = "Pull" /\ rpc[p] = Held /\ \A q \in Key : p \in pending_kv_calls[q] => q = k
      BY DEF Pending
    <2>3. p \notin A
      BY <2>2 DEF AtBarrier
    <2> QED BY <2>1, <2>2, <2>3
  <1> QED BY <1>1, <1>2, <1>3

LEMMA HandleBarrierNext ==
  ASSUME UpInv, NEW m \in Machine, HandleBarrier(m), UNCHANGED <<stage, todo, local_vars>>
  PROVE  UpInv'
  <1> USE DEF UpInv
  <1> DEFINE b == BarrierOf(stage[m])
             old == barrier_calls[b]
             calls == Append(old, m)
  <1>1. stage[m] \in AtBarrier /\ rpc[m] = BarrierAt(b)
    BY CallOut, Fields DEF HandleBarrier, Sent, Mine
  <1>2. rpc[m].name = b /\ rpc[m] \notin {Free, Held, Answered}
    BY <1>1, Fields, CallsDiffer
  <1>3. b \in Barrier
    BY <1>1, BringUpAssumption DEF Barriers, AtBarrier, BarrierOf
  <1>4. /\ \/ /\ Len(calls) = BarrierNum
              /\ rpc' = [p \in Machine |-> IF p \in Range(calls) THEN Answered ELSE rpc[p]]
              /\ barrier_calls' = [barrier_calls EXCEPT ![b] = <<>>]
           \/ /\ rpc' = [rpc EXCEPT ![m] = Held]
              /\ barrier_calls' = [barrier_calls EXCEPT ![b] = calls]
        /\ UNCHANGED <<kv, pending_kv_calls, aborted, stage, todo, connected, recv_posted, helper,
                       msg_handlers, registered>>
    BY <1>2 DEF HandleBarrier, Answer, local_vars
  <1>5. /\ rpc \in [Machine -> Call \cup {Free, Held, Answered}]
        /\ barrier_calls \in [Barrier -> Seq(Machine)] /\ old \in Seq(Machine)
    BY <1>3 DEF TypeOK
  <1> HIDE DEF b, old
  <1>6. /\ calls \in Seq(Machine) /\ DOMAIN calls = 1 .. Len(old) + 1
        /\ calls[Len(old) + 1] = m
        /\ DOMAIN old = 1 .. Len(old) /\ Len(old) \in Nat
        /\ \A i \in 1 .. Len(old) : calls[i] = old[i]
    BY <1>5, AppendProperties
  <1>7. \A i \in DOMAIN old : /\ stage[old[i]] \in AtBarrier /\ BarrierOf(stage[old[i]]) = b
                              /\ rpc[old[i]] = Held /\ old[i] # m
    BY <1>2, <1>3 DEF Queue, old
  <1>8. \A i, j \in DOMAIN calls : calls[i] = calls[j] => i = j
    <2>1. \A i, j \in DOMAIN old : old[i] = old[j] => i = j
      BY <1>3 DEF Queue, old
    <2> HIDE DEF calls
    <2>2. \A i \in DOMAIN calls : i \in DOMAIN old \/ i = Len(old) + 1
      BY <1>6
    <2> QED BY <1>6, <1>7, <2>1, <2>2
  <1> HIDE DEF calls
  <1>9. \A p \in Range(calls) : /\ p \in Machine /\ stage[p] \in AtBarrier
                                /\ BarrierOf(stage[p]) = b /\ rpc[p] \notin {Free, Answered}
    <2> SUFFICES ASSUME NEW i \in DOMAIN calls
                 PROVE  /\ calls[i] \in Machine /\ stage[calls[i]] \in AtBarrier
                        /\ BarrierOf(stage[calls[i]]) = b /\ rpc[calls[i]] \notin {Free, Answered}
      BY DEF Range
    <2>1. calls[i] \in Machine
      BY <1>6
    <2>2. CASE i \in DOMAIN old
      BY <1>6, <1>7, <2>1, <2>2, CallsDiffer
    <2>3. CASE i = Len(old) + 1
      BY <1>1, <1>2, <1>6, <2>3 DEF b
    <2> QED BY <1>6, <2>2, <2>3
  <1>10. ASSUME Len(calls) = BarrierNum,
                rpc' = [p \in Machine |-> IF p \in Range(calls) THEN Answered ELSE rpc[p]],
                barrier_calls' = [barrier_calls EXCEPT ![b] = <<>>]
         PROVE  UpInv'
    <2>1. Range(calls) = Machine
      BY <1>6, <1>8, <1>10, AllIn DEF BarrierNum
    <2>2. \A p \in Machine : rpc'[p] = Answered
      BY <1>10, <2>1
    <2>3. TypeOK'
      <3>1. rpc' \in [Machine -> Call \cup {Free, Held, Answered}]
        BY <1>10, <2>1
      <3>2. barrier_calls' \in [Barrier -> Seq(Machine)]
        <4>1. <<>> \in Seq(Machine)
          OBVIOUS
        <4> QED BY <4>1, <1>5, <1>10
      <3> QED BY <3>1, <3>2, <1>4 DEF TypeOK
    <2>4. \A a \in Barrier : Queue(a)'
      <3> SUFFICES ASSUME NEW a \in Barrier, NEW i \in DOMAIN barrier_calls'[a] PROVE FALSE
        BY DEF Queue
      <3>1. a # b
        BY <1>3, <1>5, <1>10
      <3>2. barrier_calls'[a] = barrier_calls[a] /\ barrier_calls[a] \in Seq(Machine)
        BY <3>1, <1>5, <1>10
      <3>3. barrier_calls[a][i] \in Machine /\ BarrierOf(stage[barrier_calls[a][i]]) = a
        BY <3>2 DEF Queue
      <3> QED BY <3>1, <3>3, <2>1, <1>9
    <2>5. InStep'
      <3>1. ASSUME NEW p \in Machine PROVE Passed(p)' = Passed(p) + 1
        <4>1. stage[p] \in AtBarrier /\ rpc[p] \notin {Free, Answered} /\ rpc'[p] = Answered
          BY <1>9, <2>1, <2>2
        <4>2. registered[p] \in Nat
          BY DEF TypeOK
        <4> QED BY <1>4, <4>1, <4>2 DEF Passed, Returned, AtBarrier
      <3> QED BY <3>1 DEF InStep
    <2> QED BY <1>3, <1>4, <1>9, <2>1, <2>2, <2>3, <2>4, <2>5, BarrierServed
  <1>11. ASSUME rpc' = [rpc EXCEPT ![m] = Held],
                barrier_calls' = [barrier_calls EXCEPT ![b] = calls]
         PROVE  UpInv'
    <2>1. rpc'[m] = Held /\ \A p \in Machine \ {m} : rpc'[p] = rpc[p]
      BY <1>5, <1>11
    <2>2. TypeOK'
      <3>1. rpc' \in [Machine -> Call \cup {Free, Held, Answered}]
        BY <1>5, <1>11
      <3>2. barrier_calls' \in [Barrier -> Seq(Machine)]
        BY <1>5, <1>6, <1>11
      <3> QED BY <3>1, <3>2, <1>4 DEF TypeOK
    <2>3. ASSUME NEW a \in Barrier PROVE Queue(a)'
      <3>1. CASE a = b
        <4>1. barrier_calls'[a] = calls
          BY <3>1, <1>3, <1>5, <1>11
        <4>2. ASSUME NEW i \in DOMAIN calls
              PROVE  stage[calls[i]] \in AtBarrier /\ BarrierOf(stage[calls[i]]) = a /\ rpc'[calls[i]] = Held
          <5>1. CASE i \in DOMAIN old
            BY <5>1, <3>1, <1>5, <1>6, <1>7, <2>1
          <5>2. CASE i = Len(old) + 1
            BY <5>2, <3>1, <1>1, <1>6, <2>1 DEF b
          <5> QED BY <5>1, <5>2, <1>6
        <4> QED BY <4>1, <4>2, <1>4, <1>8 DEF Queue, BarrierOf
      <3>2. CASE a # b
        <4>1. barrier_calls'[a] = barrier_calls[a] /\ barrier_calls[a] \in Seq(Machine) /\ Queue(a)
          BY <3>2, <1>5, <1>11
        <4>2. ASSUME NEW i \in DOMAIN barrier_calls[a]
              PROVE  LET p == barrier_calls[a][i] IN
                       stage[p] \in AtBarrier /\ BarrierOf(stage[p]) = a /\ rpc'[p] = Held
          <5>1. barrier_calls[a][i] \in Machine
            BY <4>1
          <5>2. /\ stage[barrier_calls[a][i]] \in AtBarrier /\ rpc[barrier_calls[a][i]] = Held
                /\ BarrierOf(stage[barrier_calls[a][i]]) = a
            BY <4>1 DEF Queue
          <5>3. barrier_calls[a][i] # m
            BY <5>2, <1>2
          <5> QED BY <5>1, <5>2, <5>3, <2>1
        <4> QED BY <4>1, <4>2, <1>4 DEF Queue, BarrierOf
      <3> QED BY <3>1, <3>2
    <2>4. InStep'
      <3>1. ASSUME NEW p \in Machine PROVE Passed(p)' = Passed(p)
        <4>1. CASE p = m
          BY <4>1, <1>1, <1>2, <1>4, <2>1, CallsDiffer DEF Passed, Returned, AtBarrier
        <4>2. CASE p # m
          BY <4>2, <1>4, <2>1 DEF Passed, Returned
        <4> QED BY <4>1, <4>2
      <3> QED BY <3>1 DEF InStep
    <2>5. \A p \in {m} : /\ stage[p] \in AtBarrier /\ rpc[p] \notin {Free, Answered}
                         /\ rpc'[p] \in {Answered, Held}
      BY <1>1, <1>2, <2>1
    <2>6. UNCHANGED <<stage, todo, connected, recv_posted, helper, msg_handlers, registered,
                      kv, pending_kv_calls, aborted>>
      BY <1>4
    <2>7. {m} \in SUBSET Machine
      OBVIOUS
    <2> QED BY <1>3, <2>1, <2>2, <2>3, <2>4, <2>5, <2>6, <2>7, BarrierServed
  <1> QED BY <1>4, <1>10, <1>11

--------------------------------------------------------------------------------
LEMMA UpNext == UpInv /\ [Next]_vars => UpInv'
  <1> SUFFICES ASSUME UpInv, [Next]_vars PROVE UpInv'
    OBVIOUS
  <1>1. ASSUME NEW m \in Machine, Program(m) PROVE UpInv'
    BY <1>1, PushNext, PullNext, LeaveFirstNext, ClearNext, LeaveSecondNext, RegisterNext, ReturnNext
       DEF Program
  <1>2. ASSUME NEW m \in Machine, ServerStep(m) PROVE UpInv'
    BY <1>2, HandlePushNext, HandlePullNext, HandleClearNext, HandleBarrierNext DEF ServerStep, Serve
  <1>3. CASE UNCHANGED vars
    <2>1. UNCHANGED <<rpc, kv, pending_kv_calls, barrier_calls, aborted, stage, todo, connected,
                      recv_posted, helper, msg_handlers, registered>>
      BY <1>3 DEF vars, ctrl_vars, local_vars
    <2>2. TypeOK' /\ NoCheckFailure'
      BY <2>1 DEF UpInv, TypeOK, NoCheckFailure
    <2>3. ASSUME NEW m \in Machine PROVE Mine(m)' /\ Stored(m)' /\ Passed(m)' = Passed(m)
      <3>1. Untouched(m)
        BY <2>1 DEF Untouched
      <3>2. Stored(m)'
        BY <2>1 DEF UpInv, Stored
      <3> QED BY <3>1, <3>2, MineKept DEF UpInv
    <2>4. Pending' /\ \A b \in Barrier : Queue(b)'
      BY <2>1 DEF UpInv, Pending, Queue, BarrierOf
    <2>5. InStep'
      BY <2>3 DEF UpInv, InStep
    <2> QED BY <2>2, <2>3, <2>4, <2>5 DEF UpInv
  <1> QED BY <1>1, <1>2, <1>3 DEF Next

LEMMA Invariance == Spec => []UpInv
  BY UpInit, UpNext, PTL DEF Spec

\* The machines keep their types while they come up, however many there are.
THEOREM TypeCorrect == Spec => []TypeOK
  <1>1. UpInv => TypeOK
    BY DEF UpInv
  <1> QED BY <1>1, Invariance, PTL

\* No CHECK of a server fails: no key is pushed twice, and each is cleared once,
\* when nobody waits for it.  SetUp's first barrier is what ensures the latter.
THEOREM NoCheckFails == Spec => []NoCheckFailure
  <1>1. UpInv => NoCheckFailure
    BY DEF UpInv
  <1> QED BY <1>1, Invariance, PTL

\* When Init returns anywhere, every peer is connected, has its receive requests
\* posted and its helper created: SetUp's second barrier.
THEOREM ReadyForTraffic == Spec => []TrafficReady
  <1>1. UpInv => TrafficReady
    <2> SUFFICES ASSUME UpInv, NEW m \in Machine, stage[m] = "Register", NEW p \in Peers(m)
                 PROVE  m \in connected[p] /\ m \in recv_posted[p] /\ m \in helper[p]
      BY DEF TrafficReady
    <2>1. p \in Machine /\ m \in Peers(p)
      BY DEF Peers
    <2>2. Passed(m) = Passed(p) /\ registered[m] \in Nat
      BY <2>1 DEF UpInv, InStep, TypeOK
    <2>3. Passed(m) \in Nat /\ Passed(m) >= 2
      BY <2>2 DEF Passed
    <2>4. stage[p] \in Stages
      BY <2>1 DEF UpInv, TypeOK
    <2>5. stage[p] \in {"SetUp:68", "Register"}
      BY <2>2, <2>3, <2>4 DEF Passed, Stages
    <2>6. SetUp(p)
      BY <2>1 DEF UpInv, Mine
    <2> QED BY <2>1, <2>5, <2>6 DEF SetUp
  <1> QED BY <1>1, Invariance, PTL

\* With one handler for a type, and the same order of registration everywhere,
\* a handler is in place on every machine when its registration returns on one.
THEOREM HandlersInPlace ==
  ASSUME OneHandlerPerType, SameOrder
  PROVE  Spec => []HandlersEverywhere
  <1>1. UpInv => HandlersEverywhere
    <2> SUFFICES ASSUME UpInv, NEW m \in Machine, NEW p \in Machine, NEW i \in 1 .. registered[m]
                 PROVE  HandlerOrder[m][i] \in msg_handlers[p]
      BY DEF HandlersEverywhere
    <2>1. registered[m] \in Nat /\ registered[p] \in Nat /\ Passed(m) = Passed(p)
      BY DEF UpInv, TypeOK, InStep
    <2>2. stage[m] = "Register"
      BY <2>1 DEF UpInv, Mine, Registering
    <2>3. Passed(m) \in Nat /\ Passed(m) >= registered[m] + 2 /\ registered[m] >= 1
      BY <2>1, <2>2 DEF Passed
    <2>4. stage[p] = "Register"
      <3>1. stage[p] \in Stages
        BY DEF UpInv, TypeOK
      <3>2. Passed(p) \notin {0, 1, 2}
        BY <2>1, <2>3
      <3> QED BY <3>1, <3>2 DEF Passed, Stages
    <2>5. Entered(p) \in Nat /\ registered[m] <= Entered(p)
      <3>1. CASE rpc[p] = Answered
        <4>1. Passed(p) = registered[p] + 3 /\ Entered(p) = registered[p] + 1
          BY <2>4, <3>1, CallsDiffer DEF Passed, Entered
        <4> QED BY <2>1, <2>3, <4>1
      <3>2. CASE rpc[p] # Answered
        <4>1. Passed(p) = registered[p] + 2
          BY <2>4, <3>2 DEF Passed
        <4>2. Entered(p) = registered[p] \/ Entered(p) = registered[p] + 1
          BY <2>1 DEF Entered
        <4> QED BY <2>1, <2>3, <4>1, <4>2
      <3> QED BY <3>1, <3>2
    <2>6. HandlerOrder[p][i] \in msg_handlers[p]
      <3>1. i \in 1 .. Entered(p)
        BY <2>1, <2>5
      <3> QED BY <3>1 DEF UpInv, Mine, Registering
    <2> QED BY <2>6 DEF SameOrder
  <1> QED BY <1>1, Invariance, PTL
--------------------------------------------------------------------------------
(* No deadlock while the machines come up.                                 *)

\* What is needed of SameOrder: every machine registers as many handlers.
SameNumber == \A m, p \in Machine : Len(HandlerOrder[m]) = Len(HandlerOrder[p])

\* Whoever is held is in the list of what it waits for, a key that is missing
\* or a barrier that is not full.
Listed(m) ==
  /\ stage[m] = "Pull" /\ rpc[m] = Held => \E k \in Wanted(m) : m \in pending_kv_calls[k]
  /\ stage[m] \in AtBarrier /\ rpc[m] = Held => m \in Range(barrier_calls[BarrierOf(stage[m])])
  /\ stage[m] = "Register" => Entered(m) <= Len(HandlerOrder[m])

Open == /\ \A k \in Key : pending_kv_calls[k] # {} => k \notin kv
        /\ \A b \in Barrier : Len(barrier_calls[b]) < Cardinality(Machine)

Waits == Open /\ \A m \in Machine : Listed(m)

LEMMA Machines == IsFiniteSet(Machine) /\ Cardinality(Machine) \in Nat \ {0}
  BY BringUpAssumption, CtrlServerAssumption, FS_CardinalityType, FS_EmptySet

LEMMA HandlerNumbers ==
  \A m \in Machine : HandlerOrder[m] \in Seq(Handler) /\ Len(HandlerOrder[m]) \in Nat
  BY BringUpAssumption, LenProperties

LEMMA WaitsInit == Init => Waits
  <1> SUFFICES ASSUME Init PROVE Waits
    OBVIOUS
  <1> USE DEF Init, CtrlInit
  <1>1. Len(<<>>) = 0
    OBVIOUS
  <1>2. Open
    BY <1>1, Machines DEF Open
  <1>3. \A m \in Machine : Listed(m)
    BY CallsDiffer DEF Listed, AtBarrier
  <1> QED BY <1>2, <1>3 DEF Waits

\* A step of m's program holds nobody, and moves nobody else.
LEMMA ProgramWaits ==
  ASSUME UpInv, Waits, NEW m \in Machine, Program(m)
  PROVE  Waits'
  <1>1. /\ UNCHANGED <<kv, pending_kv_calls, barrier_calls>>
        /\ \A p \in Machine \ {m} : /\ rpc'[p] = rpc[p] /\ stage'[p] = stage[p]
                                    /\ registered'[p] = registered[p]
    BY DEF Program, Push, Pull, LeaveFirstBarrier, Clear, LeaveSecondBarrier, RegisterMsgHandler,
           CallReturns, Visit, Meet, Issue, GoTo, Return, ctrl_vars, local_vars, UpInv, TypeOK
  <1>2. Open'
    BY <1>1 DEF Waits, Open
  <1>3. ASSUME NEW p \in Machine, p # m PROVE Listed(p)'
    BY <1>1, <1>3 DEF Waits, Listed, Entered, BarrierOf
  <1>4. rpc'[m] # Held
    <2>1. \A c : Issue(m, c) => rpc'[m] = c
      BY DEF Issue, UpInv, TypeOK
    <2>2. rpc[m] = Free => rpc[m] # Held
      BY CallsDiffer
    <2> QED BY <2>1, <2>2, CallsDiffer
       DEF Program, Push, Pull, LeaveFirstBarrier, Clear, LeaveSecondBarrier, RegisterMsgHandler,
           CallReturns, Visit, Meet, LoopOver, Return, ctrl_vars, UpInv, TypeOK
  <1>5. stage'[m] = "Register" => Entered(m)' <= Len(HandlerOrder[m])
    <2>1. registered[m] \in Nat /\ Len(HandlerOrder[m]) \in Nat
      BY HandlerNumbers DEF UpInv, TypeOK
    <2>2. stage[m] = "Register" => Entered(m) <= Len(HandlerOrder[m])
      BY DEF Waits, Listed
    <2>3. CASE RegisterMsgHandler(m)
      <3>1. registered[m] < Len(HandlerOrder[m]) /\ registered' = registered
        BY <2>3 DEF RegisterMsgHandler
      <3> QED BY <2>1, <3>1 DEF Entered
    <2>4. CASE CallReturns(m)
      <3>1. /\ rpc[m] = Answered /\ rpc'[m] = Free /\ stage' = stage
            /\ stage[m] = "Register" => registered'[m] = registered[m] + 1
        BY <2>4 DEF CallReturns, Return, UpInv, TypeOK
      <3>2. stage[m] = "Register" => Entered(m) = registered[m] + 1 /\ Entered(m)' = registered[m] + 1
        BY <3>1, <2>1, CallsDiffer DEF Entered
      <3> QED BY <2>2, <3>1, <3>2
    <2>5. CASE LeaveSecondBarrier(m)
      <3>1. rpc'[m] = Free /\ registered'[m] = 0
        BY <2>5 DEF LeaveSecondBarrier, ctrl_vars, local_vars, UpInv, Mine, Registering
      <3> QED BY <2>1, <3>1 DEF Entered
    <2>6. CASE Push(m) \/ Pull(m) \/ LeaveFirstBarrier(m) \/ Clear(m)
      <3>1. stage'[m] # "Register"
        BY <2>6 DEF Push, Pull, LeaveFirstBarrier, Clear, Visit, GoTo, UpInv, TypeOK
      <3> QED BY <3>1
    <2> QED BY <2>3, <2>4, <2>5, <2>6 DEF Program
  <1>6. Listed(m)'
    BY <1>4, <1>5 DEF Listed
  <1> QED BY <1>2, <1>3, <1>6 DEF Waits

\* A server's step leaves what a machine has begun as it is.
LEMMA ListedServed ==
  ASSUME NEW p \in Machine, Listed(p), UNCHANGED <<stage, registered>>,
         rpc[p] = Free => rpc'[p] = Free,
         stage[p] = "Pull" /\ rpc'[p] = Held => \E k \in Wanted(p) : p \in pending_kv_calls'[k],
         stage[p] \in AtBarrier /\ rpc'[p] = Held
           => p \in Range(barrier_calls'[BarrierOf(stage[p])]),
         registered[p] \in Nat
  PROVE  Listed(p)'
  <1>1. stage'[p] = "Register" => Entered(p)' <= Len(HandlerOrder[p])
    <2>1. SUFFICES ASSUME stage[p] = "Register" PROVE Entered(p)' <= Len(HandlerOrder[p])
      OBVIOUS
    <2>2. /\ Entered(p) <= Len(HandlerOrder[p]) /\ Len(HandlerOrder[p]) \in Nat
          /\ Entered(p) \in {registered[p], registered[p] + 1}
      BY <2>1, HandlerNumbers DEF Listed, Entered
    <2>3. Entered(p)' = Entered(p) \/ Entered(p)' = registered[p]
      BY DEF Entered
    <2> QED BY <2>2, <2>3
  <1> QED BY <1>1 DEF Listed, BarrierOf

\* The waiting pulls of a key are answered when it is stored.
LEMMA PushWaits ==
  ASSUME UpInv, Waits, NEW m \in Machine, HandlePushKV(m), UNCHANGED <<stage, todo, local_vars>>
  PROVE  Waits'
  <1> USE DEF UpInv, Waits
  <1>1. PICK k \in Own(m) \ todo[m] : stage[m] = "Push" /\ rpc[m] = PushKV(k)
    BY CallOut, Fields DEF HandlePushKV, Sent, Mine
  <1>2. k \in Key /\ k \notin kv /\ rpc[m].key = k
    BY <1>1, Keys, Fields DEF Stored
  <1> DEFINE A == pending_kv_calls[k] \cup {m}
  <1>3. /\ kv' = kv \cup {k}
        /\ rpc' = [p \in Machine |-> IF p \in A THEN Answered ELSE rpc[p]]
        /\ pending_kv_calls' = [pending_kv_calls EXCEPT ![k] = {}]
        /\ UNCHANGED <<barrier_calls, stage, registered>>
    BY <1>2 DEF HandlePushKV, Answer, local_vars
  <1>4. \A q \in Key : pending_kv_calls'[q] = IF q = k THEN {} ELSE pending_kv_calls[q]
    BY <1>2, <1>3 DEF TypeOK
  <1>5. Open'
    <2>1. \A q \in Key : pending_kv_calls'[q] # {} => q \notin kv'
      BY <1>3, <1>4 DEF Open
    <2> QED BY <1>3, <2>1 DEF Open
  <1>6. ASSUME NEW p \in Machine PROVE Listed(p)'
    <2>1. registered[p] \in Nat
      BY DEF TypeOK
    <2>2. CASE p \in A
      <3>1. rpc'[p] = Answered
        BY <1>3, <2>2
      <3>2. rpc[p] # Free
        BY <1>1, <1>2, <2>2, CallsDiffer DEF Pending
      <3> QED BY <1>3, <2>1, <3>1, <3>2, ListedServed, CallsDiffer
    <2>3. CASE p \notin A
      <3>1. rpc'[p] = rpc[p] /\ p \notin pending_kv_calls[k]
        BY <1>3, <2>3
      <3>2. ASSUME stage[p] = "Pull", rpc'[p] = Held
            PROVE  \E q \in Wanted(p) : p \in pending_kv_calls'[q]
        <4>1. PICK q \in Wanted(p) : p \in pending_kv_calls[q]
          BY <3>1, <3>2 DEF Listed
        <4>2. q \in Key /\ q # k
          BY <3>1, <4>1, Keys
        <4> QED BY <1>4, <4>1, <4>2
      <3>3. stage[p] \in AtBarrier /\ rpc'[p] = Held
              => p \in Range(barrier_calls'[BarrierOf(stage[p])])
        BY <1>3, <3>1 DEF Listed
      <3> HIDE DEF A
      <3> QED BY <1>3, <2>1, <3>1, <3>2, <3>3, ListedServed
    <2> QED BY <2>2, <2>3
  <1> QED BY <1>5, <1>6

\* Who is not answered at once is listed under the key that is missing.
LEMMA PullWaits ==
  ASSUME UpInv, Waits, NEW m \in Machine, HandlePullKV(m), UNCHANGED <<stage, todo, local_vars>>
  PROVE  Waits'
  <1> USE DEF UpInv, Waits
  <1>1. PICK k \in Wanted(m) \ todo[m] : stage[m] = "Pull" /\ rpc[m] = PullKV(k)
    BY CallOut, Fields DEF HandlePullKV, Sent, Mine
  <1>2. k \in Key /\ rpc[m].key = k /\ rpc[m] \notin {Free, Held, Answered}
    BY <1>1, Keys, Fields, CallsDiffer
  <1>3. /\ \/ /\ rpc' = [p \in Machine |-> IF p \in {m} THEN Answered ELSE rpc[p]]
              /\ UNCHANGED pending_kv_calls
           \/ /\ k \notin kv
              /\ rpc' = [rpc EXCEPT ![m] = Held]
              /\ pending_kv_calls' = [pending_kv_calls EXCEPT ![k] = @ \cup {m}]
        /\ UNCHANGED <<kv, barrier_calls, stage, registered>>
    BY <1>2 DEF HandlePullKV, Answer, local_vars
  <1>4. /\ rpc \in [Machine -> Call \cup {Free, Held, Answered}]
        /\ pending_kv_calls \in [Key -> SUBSET Machine]
    BY DEF TypeOK
  <1>5. /\ \A p \in Machine \ {m} : rpc'[p] = rpc[p]
        /\ \A q \in Key : pending_kv_calls[q] \subseteq pending_kv_calls'[q]
        /\ rpc'[m] = Answered \/ (rpc'[m] = Held /\ m \in pending_kv_calls'[k])
        /\ \A q \in Key : pending_kv_calls'[q] = pending_kv_calls[q] \/ (q = k /\ k \notin kv)
    BY <1>2, <1>3, <1>4
  <1>6. Open'
    <2>1. \A q \in Key : pending_kv_calls'[q] # {} => q \notin kv'
      BY <1>3, <1>5 DEF Open
    <2> QED BY <1>3, <2>1 DEF Open
  <1>7. ASSUME NEW p \in Machine PROVE Listed(p)'
    <2>1. registered[p] \in Nat
      BY DEF TypeOK
    <2>2. CASE p = m
      <3>1. stage[m] \notin AtBarrier
        BY <1>1 DEF AtBarrier
      <3>2. rpc'[m] = Held => \E q \in Wanted(m) : m \in pending_kv_calls'[q]
        BY <1>5, CallsDiffer
      <3> QED BY <1>2, <1>3, <2>1, <2>2, <3>1, <3>2, ListedServed
    <2>3. CASE p # m
      <3>1. rpc'[p] = rpc[p]
        BY <1>5, <2>3
      <3>2. stage[p] = "Pull" /\ rpc'[p] = Held => \E q \in Wanted(p) : p \in pending_kv_calls'[q]
        BY <1>5, <3>1, Keys DEF Listed
      <3>3. stage[p] \in AtBarrier /\ rpc'[p] = Held
              => p \in Range(barrier_calls'[BarrierOf(stage[p])])
        BY <1>3, <3>1 DEF Listed
      <3> QED BY <1>3, <2>1, <3>1, <3>2, <3>3, ListedServed
    <2> QED BY <2>2, <2>3
  <1> QED BY <1>6, <1>7

\* A key that goes makes nobody wait.
LEMMA ClearWaits ==
  ASSUME UpInv, Waits, NEW m \in Machine, HandleClearKV(m), UNCHANGED <<stage, todo, local_vars>>
  PROVE  Waits'
  <1> USE DEF UpInv, Waits
  <1>1. PICK k \in Own(m) \ todo[m] : stage[m] = "Clear" /\ rpc[m] = ClearKV(k)
    BY CallOut, Fields DEF HandleClearKV, Sent, Mine
  <1>2. rpc[m] \notin {Free, Held, Answered}
    BY <1>1, CallsDiffer
  <1>3. /\ kv' \subseteq kv
        /\ rpc' = rpc \/ rpc' = [p \in Machine |-> IF p \in {m} THEN Answered ELSE rpc[p]]
        /\ UNCHANGED <<pending_kv_calls, barrier_calls, stage, registered>>
    BY DEF HandleClearKV, Answer, local_vars
  <1>4. Open'
    BY <1>3 DEF Open
  <1>5. ASSUME NEW p \in Machine PROVE Listed(p)'
    <2>1. registered[p] \in Nat
      BY DEF TypeOK
    <2>2. rpc'[p] = rpc[p] \/ (rpc'[p] = Answered /\ rpc[p] # Free)
      BY <1>2, <1>3
    <2>3. rpc'[p] = Held => rpc[p] = Held
      BY <2>2, CallsDiffer
    <2>4. stage[p] = "Pull" /\ rpc'[p] = Held => \E q \in Wanted(p) : p \in pending_kv_calls'[q]
      BY <1>3, <2>3 DEF Listed
    <2>5. stage[p] \in AtBarrier /\ rpc'[p] = Held
            => p \in Range(barrier_calls'[BarrierOf(stage[p])])
      BY <1>3, <2>3 DEF Listed
    <2> QED BY <1>3, <2>1, <2>2, <2>4, <2>5, ListedServed
  <1> QED BY <1>4, <1>5

\* A list with one more at its end names those it named and the new one.
LEMMA RangeAppend ==
  ASSUME NEW s \in Seq(Machine), NEW m \in Machine
  PROVE  Range(Append(s, m)) = Range(s) \cup {m} /\ Len(Append(s, m)) = Len(s) + 1
  <1> DEFINE t == Append(s, m)
  <1>1. /\ Len(s) \in Nat /\ DOMAIN s = 1 .. Len(s) /\ Len(t) = Len(s) + 1
        /\ DOMAIN t = 1 .. Len(s) + 1 /\ t[Len(s) + 1] = m
        /\ \A i \in 1 .. Len(s) : t[i] = s[i]
    BY AppendProperties, LenProperties
  <1> HIDE DEF t
  <1>2. Range(t) \subseteq Range(s) \cup {m}
    <2>1. ASSUME NEW i \in DOMAIN t PROVE t[i] \in Range(s) \cup {m}
      <3>1. i \in 1 .. Len(s) \/ i = Len(s) + 1
        BY <1>1
      <3> QED BY <1>1, <3>1 DEF Range
    <2> QED BY <2>1 DEF Range
  <1>3. Range(s) \subseteq Range(t) /\ m \in Range(t)
    <2>1. Len(s) + 1 \in DOMAIN t /\ \A i \in DOMAIN s : i \in DOMAIN t
      BY <1>1
    <2> QED BY <1>1, <2>1 DEF Range
  <1> QED BY <1>1, <1>2, <1>3 DEF t

\* Who is not let go is in the list, which is then not full.
LEMMA BarrierWaits ==
  ASSUME UpInv, Waits, NEW m \in Machine, HandleBarrier(m), UNCHANGED <<stage, todo, local_vars>>
  PROVE  Waits'
  <1> USE DEF UpInv, Waits
  <1> DEFINE b == BarrierOf(stage[m])
             old == barrier_calls[b]
             calls == Append(old, m)
  <1>1. stage[m] \in AtBarrier /\ rpc[m] = BarrierAt(b)
    BY CallOut, Fields DEF HandleBarrier, Sent, Mine
  <1>2. rpc[m].name = b /\ rpc[m] \notin {Free, Held, Answered}
    BY <1>1, Fields, CallsDiffer
  <1>3. b \in Barrier
    BY <1>1, BringUpAssumption DEF Barriers, AtBarrier, BarrierOf
  <1>4. /\ \/ /\ rpc' = [p \in Machine |-> IF p \in Range(calls) THEN Answered ELSE rpc[p]]
              /\ barrier_calls' = [barrier_calls EXCEPT ![b] = <<>>]
           \/ /\ Len(calls) # BarrierNum
              /\ rpc' = [rpc EXCEPT ![m] = Held]
              /\ barrier_calls' = [barrier_calls EXCEPT ![b] = calls]
        /\ UNCHANGED <<kv, pending_kv_calls, stage, registered>>
    BY <1>2 DEF HandleBarrier, Answer, local_vars
  <1>5. /\ rpc \in [Machine -> Call \cup {Free, Held, Answered}]
        /\ barrier_calls \in [Barrier -> Seq(Machine)] /\ old \in Seq(Machine)
    BY <1>3 DEF TypeOK
  <1>6. /\ Range(calls) = Range(old) \cup {m} /\ Len(calls) = Len(old) + 1
        /\ Len(old) \in Nat /\ Len(old) < Cardinality(Machine)
    BY <1>3, <1>5, RangeAppend, LenProperties DEF Open
  <1>7. \A p \in Range(old) : p \in Machine /\ rpc[p] = Held
    BY <1>3, <1>5 DEF Queue, Range
  <1> HIDE DEF b, old, calls
  <1>8. ASSUME NEW p \in Machine
        PROVE  /\ rpc'[p] \in {rpc[p], Answered} \/ (p = m /\ rpc'[p] = Held)
               /\ rpc'[p] = rpc[p] \/ rpc[p] # Free
               /\ rpc'[p] = Held /\ stage[p] \in AtBarrier
                    => p \in Range(barrier_calls'[BarrierOf(stage[p])])
    <2>1. rpc[p] = Held /\ stage[p] \in AtBarrier => p \in Range(barrier_calls[BarrierOf(stage[p])])
      BY DEF Listed
    <2>2. stage[p] \in AtBarrier => BarrierOf(stage[p]) \in Barrier
      BY BringUpAssumption DEF Barriers, AtBarrier, BarrierOf
    <2>3. \A a \in Barrier : a # b => barrier_calls'[a] = barrier_calls[a]
      BY <1>3, <1>4, <1>5
    <2>4. CASE rpc' = [q \in Machine |-> IF q \in Range(calls) THEN Answered ELSE rpc[q]]
      <3>1. rpc'[p] = IF p \in Range(calls) THEN Answered ELSE rpc[p]
        BY <2>4
      <3>2. p \in Range(calls) => rpc[p] # Free
        BY <1>2, <1>6, <1>7, CallsDiffer
      <3>3. rpc'[p] = Held => rpc[p] = Held /\ p \notin Range(old)
        BY <1>6, <3>1, CallsDiffer
      <3>4. rpc'[p] = Held /\ stage[p] \in AtBarrier => BarrierOf(stage[p]) # b
        BY <2>1, <3>3 DEF old
      <3> QED BY <2>1, <2>2, <2>3, <3>1, <3>2, <3>3, <3>4
    <2>5. CASE rpc' = [rpc EXCEPT ![m] = Held] /\ barrier_calls' = [barrier_calls EXCEPT ![b] = calls]
      <3>1. barrier_calls'[b] = calls
        BY <1>3, <1>5, <2>5
      <3>2. CASE p = m
        BY <1>2, <1>5, <1>6, <2>5, <3>1, <3>2 DEF b
      <3>3. CASE p # m
        <4>1. rpc'[p] = rpc[p]
          BY <1>5, <2>5, <3>3
        <4>2. CASE BarrierOf(stage[p]) = b
          BY <1>6, <2>1, <3>1, <4>1, <4>2 DEF old
        <4>3. CASE BarrierOf(stage[p]) # b
          BY <2>1, <2>2, <2>3, <4>1, <4>3
        <4> QED BY <4>1, <4>2, <4>3
      <3> QED BY <3>2, <3>3
    <2> QED BY <1>4, <2>4, <2>5
  <1>9. Open'
    <2>1. ASSUME NEW a \in Barrier PROVE Len(barrier_calls'[a]) < Cardinality(Machine)
      <3>1. CASE a # b
        <4>1. barrier_calls'[a] = barrier_calls[a]
          BY <1>4, <1>5, <3>1
        <4> QED BY <4>1 DEF Open
      <3>2. CASE a = b
        <4>1. barrier_calls'[a] \in {<<>>, calls} /\ (barrier_calls'[a] = calls => Len(calls) # BarrierNum)
          BY <1>3, <1>4, <1>5, <1>6, <3>2
        <4>2. Len(<<>>) = 0 /\ Cardinality(Machine) \in Nat \ {0}
          BY Machines
        <4> QED BY <1>6, <4>1, <4>2 DEF BarrierNum
      <3> QED BY <3>1, <3>2
    <2> QED BY <1>4, <2>1 DEF Open
  <1>10. ASSUME NEW p \in Machine PROVE Listed(p)'
    <2>1. registered[p] \in Nat
      BY DEF TypeOK
    <2>2. stage[p] = "Pull" /\ rpc'[p] = Held => rpc[p] = Held
      BY <1>1, <1>8, CallsDiffer DEF AtBarrier
    <2>3. stage[p] = "Pull" /\ rpc'[p] = Held => \E q \in Wanted(p) : p \in pending_kv_calls'[q]
      BY <1>4, <2>2 DEF Listed
    <2> QED BY <1>4, <1>8, <2>1, <2>3, ListedServed
  <1> QED BY <1>9, <1>10

LEMMA WaitsNext == UpInv /\ Waits /\ [Next]_vars => Waits'
  <1> SUFFICES ASSUME UpInv, Waits, [Next]_vars PROVE Waits'
    OBVIOUS
  <1>1. ASSUME NEW m \in Machine, Program(m) PROVE Waits'
    BY <1>1, ProgramWaits
  <1>2. ASSUME NEW m \in Machine, ServerStep(m) PROVE Waits'
    BY <1>2, PushWaits, PullWaits, ClearWaits, BarrierWaits DEF ServerStep, Serve
  <1>3. CASE UNCHANGED vars
    <2>1. UNCHANGED <<rpc, kv, pending_kv_calls, barrier_calls, stage, registered>>
      BY <1>3 DEF vars, ctrl_vars, local_vars
    <2> QED BY <2>1 DEF Waits, Open, Listed, Entered, BarrierOf
  <1> QED BY <1>1, <1>2, <1>3 DEF Next

\* How far a machine is that waits, or is up.
LEMMA HeldPassed ==
  ASSUME NEW m \in Machine, rpc[m] = Held, Calling(m)
  PROVE  \/ stage[m] \in {"Pull", "SetUp:62"} /\ Passed(m) = 0
         \/ stage[m] = "SetUp:68" /\ Passed(m) = 1
         \/ stage[m] = "Register" /\ Passed(m) = registered[m] + 2
  <1>1. ~Returned(m) /\ \A k : rpc[m] # PushKV(k) /\ rpc[m] # ClearKV(k)
    BY CallsDiffer DEF Returned
  <1>2. rpc[m] # Answered
    BY CallsDiffer
  <1> QED BY <1>1, <1>2 DEF Calling, Passed, AtBarrier

LEMMA UpPassed ==
  ASSUME NEW m \in Machine, Up(m)
  PROVE  Passed(m) = Len(HandlerOrder[m]) + 2
  BY CallsDiffer DEF Up, Passed

\* The start-up cannot deadlock, whatever the number of machines, the order in
\* which each visits its peers and the servers the keys are spread over: if all
\* register the same number of handlers, one of them can go on until all are up.
THEOREM NeverStuck == SameNumber => (Spec => []NothingStuck)
  <1>1. ASSUME SameNumber, UpInv, Waits PROVE NothingStuck
    <2> SUFFICES ASSUME \A m \in Machine : Up(m) \/ rpc[m] = Held, NEW m \in Machine, ~Up(m)
                 PROVE  FALSE
      BY DEF NothingStuck
    <2>1. \A p \in Machine : Calling(p) /\ Passed(p) = Passed(m) /\ registered[p] \in Nat
      BY <1>1 DEF UpInv, Mine, InStep, TypeOK
    <2>2. ASSUME NEW q \in Machine, rpc[q] = Held, stage[q] = "Pull" PROVE FALSE
      <3>1. PICK k \in Wanted(q) : q \in pending_kv_calls[k]
        BY <1>1, <2>2 DEF Waits, Listed
      <3>2. k \notin kv
        BY <1>1, <3>1, Keys DEF Waits, Open
      <3> DEFINE p == k[2]
      <3>3. p \in Machine /\ k \in Own(p)
        BY <3>1, Keys DEF Peers
      <3>4. Passed(p) = 0
        BY <2>1, <2>2, <3>3, HeldPassed
      <3>5. ~Up(p)
        BY <3>3, <3>4, UpPassed, HandlerNumbers
      <3>6. stage[p] \in {"Pull", "SetUp:62"}
        BY <2>1, <3>3, <3>4, <3>5, HeldPassed
      <3> QED BY <1>1, <3>2, <3>3, <3>6 DEF UpInv, Stored
    <2>3. rpc[m] = Held /\ stage[m] \in AtBarrier
      BY <2>1, <2>2, HeldPassed DEF AtBarrier
    <2>4. ASSUME NEW p \in Machine PROVE rpc[p] = Held /\ stage[p] = stage[m]
      <3>1. CASE Up(p)
        <4>1. Passed(p) = Len(HandlerOrder[m]) + 2 /\ Len(HandlerOrder[m]) \in Nat
          BY <1>1, <3>1, UpPassed, HandlerNumbers DEF SameNumber
        <4>2. Passed(m) = registered[m] + 2 /\ stage[m] = "Register"
          BY <2>1, <2>3, <4>1, HeldPassed
        <4>3. registered[m] + 1 <= Len(HandlerOrder[m])
          BY <1>1, <2>3, <4>2, CallsDiffer DEF Waits, Listed, Entered
        <4> QED BY <2>1, <4>1, <4>2, <4>3
      <3>2. CASE rpc[p] = Held
        <4>1. stage[p] # "Pull" /\ stage[m] # "Pull"
          BY <2>2, <2>3, <3>2
        <4> QED BY <2>1, <2>3, <3>2, <4>1, HeldPassed
      <3> QED BY <3>1, <3>2
    <2> DEFINE s == barrier_calls[BarrierOf(stage[m])]
    <2>5. BarrierOf(stage[m]) \in Barrier
      BY <2>3, BringUpAssumption DEF Barriers, AtBarrier, BarrierOf
    <2>6. s \in Seq(Machine) /\ Len(s) < Cardinality(Machine)
      BY <1>1, <2>5 DEF UpInv, TypeOK, Waits, Open
    <2>7. \A p \in Machine : p \in Range(s)
      BY <1>1, <2>3, <2>4 DEF Waits, Listed
    <2> HIDE DEF s
    <2>8. Cardinality(Machine) <= Len(s)
      <3>1. Len(s) \in Nat /\ DOMAIN s = 1 .. Len(s) /\ \A i \in DOMAIN s : s[i] \in Machine
        BY <2>6, LenProperties, ElementOfSeq
      <3>2. s \in Surjection(1 .. Len(s), Machine)
        <4>1. s \in [1 .. Len(s) -> Machine]
          BY <2>6, <3>1
        <4>2. \A p \in Machine : \E i \in 1 .. Len(s) : s[i] = p
          BY <2>7, <3>1 DEF Range
        <4> QED BY <4>1, <4>2 DEF Surjection
      <3>3. IsFiniteSet(1 .. Len(s)) /\ Cardinality(1 .. Len(s)) = Len(s)
        <4>1. Len(s) \in Nat
          BY <3>1
        <4>2. IsFiniteSet(1 .. Len(s))
              /\ Cardinality(1 .. Len(s)) = IF 1 > Len(s) THEN 0 ELSE Len(s) - 1 + 1
          BY <4>1, FS_Interval
        <4> QED BY <4>1, <4>2
      <3> QED BY <3>2, <3>3, FS_Surjection
    <2>9. Len(s) \in Nat /\ Cardinality(Machine) \in Nat
      BY <2>6, Machines, LenProperties
    <2> QED BY <2>6, <2>8, <2>9
  <1>2. ASSUME SameNumber PROVE Spec => []NothingStuck
    BY <1>1, <1>2, WaitsInit, WaitsNext, Invariance, PTL DEF Spec
  <1> QED BY <1>2

--------------------------------------------------------------------------------
(* Index sequences.  The functions are recursive: a function with the      *)
(* values wanted satisfies the definition, and the least argument at which *)
(* the one defined differed from it would contradict it.                   *)

\* Induction without a predicate: a set of numbers has a least one.
LEMMA LeastOf ==
  ASSUME NEW T, T \subseteq Nat, T # {}
  PROVE  \E n \in T : \A m \in T : n <= m
  <1>1. PICK n \in T : \A m \in T : <<m, n>> \notin OpToRel(<, Nat)
    BY WFMin, NatLessThanWellFounded, Zenon
  <1>2. n \in T /\ \A m \in T : ~(m < n)
    BY <1>1, Zenon DEF OpToRel
  <1> QED BY <1>2

\* The two calls of make_index_sequence<n> are for smaller sizes.
LEMMA Halves ==
  ASSUME NEW n \in Nat, n > 1
  PROVE  /\ n \div 2 \in Nat /\ n - n \div 2 \in Nat
         /\ n \div 2 < n /\ n - n \div 2 < n
  OBVIOUS

\* 0, 1, ..., n-1.
Counting(n) == [i \in 1 .. n |-> i - 1]

\* What IndexSequence is defined to be, in terms of its own values.
Defining(f, n) ==
  IF n = 0 THEN <<>>
  ELSE IF n = 1 THEN <<0>>
  ELSE MergeAndRenumber(f[n \div 2], f[n - n \div 2])

\* _merge_and_renumber of two such sequences is another.
LEMMA Merged ==
  ASSUME NEW a \in Nat, NEW b \in Nat
  PROVE  MergeAndRenumber(Counting(a), Counting(b)) = Counting(a + b)
  <1>1. /\ Counting(a) \in Seq(Int) /\ Len(Counting(a)) = a
        /\ Counting(b) \in Seq(Int) /\ Len(Counting(b)) = b
    BY DEF Counting
  <1> DEFINE t == [i \in 1 .. b |-> a + (i - 1)]
  <1>2. /\ t \in Seq(Int) /\ Len(t) = b
    OBVIOUS
  <1>3. MergeAndRenumber(Counting(a), Counting(b)) = Counting(a) \o t
    BY <1>1 DEF Counting, MergeAndRenumber
  <1>4. Counting(a + b) \in Seq(Int) /\ Len(Counting(a + b)) = a + b
    BY DEF Counting
  <1>5. \A i \in 1 .. a + b : (Counting(a) \o t)[i] = Counting(a + b)[i]
    BY <1>1, <1>2 DEF Counting
  <1>6. Counting(a) \o t \in Seq(Int) /\ Len(Counting(a) \o t) = a + b
    BY <1>1, <1>2
  <1>7. Counting(a) \o t = Counting(a + b)
    BY <1>4, <1>5, <1>6, SeqEqual
  <1> QED BY <1>3, <1>7

\* One that was cut in halves is put together again.
LEMMA MergedHalves ==
  ASSUME NEW n \in Nat, n > 1
  PROVE  MergeAndRenumber(Counting(n \div 2), Counting(n - n \div 2)) = Counting(n)
  <1> DEFINE a == n \div 2
             b == n - n \div 2
  <1>1. a \in Nat /\ b \in Nat
    BY Halves
  <1>2. a + b = n
    BY <1>1
  <1> HIDE DEF a, b
  <1>3. MergeAndRenumber(Counting(a), Counting(b)) = Counting(n)
    BY <1>1, <1>2, Merged
  <1> QED BY <1>3 DEF a, b

\* make_index_sequence<n>, which halves n until it is 0 or 1, yields every index
\* once and in order, for every n.
THEOREM IndicesInOrder == \A n \in Nat : IndexSequence[n] = Counting(n)
  <1> DEFINE f == [n \in Nat |-> Counting(n)]
  <1>1. f = [n \in Nat |-> Defining(f, n)]
    <2> SUFFICES ASSUME NEW n \in Nat PROVE Counting(n) = Defining(f, n)
      OBVIOUS
    <2>1. CASE n = 0
      BY <2>1 DEF Counting, Defining
    <2>2. CASE n = 1
      BY <2>2 DEF Counting, Defining
    <2>3. CASE n > 1
      <3>1. f[n \div 2] = Counting(n \div 2) /\ f[n - n \div 2] = Counting(n - n \div 2)
        BY <2>3, Halves
      <3> QED BY <2>3, <3>1, MergedHalves DEF Defining
    <2> QED BY <2>1, <2>2, <2>3
  <1>2. IndexSequence = [n \in Nat |-> Defining(IndexSequence, n)]
    BY <1>1 DEF IndexSequence, Defining
  <1> DEFINE Wrong == {n \in Nat : IndexSequence[n] # Counting(n)}
  <1>3. SUFFICES ASSUME Wrong # {} PROVE FALSE
    OBVIOUS
  <1>4. PICK n \in Wrong : \A m \in Wrong : n <= m
    BY <1>3, LeastOf
  <1>5. n \in Nat /\ IndexSequence[n] = Defining(IndexSequence, n)
    BY <1>2
  <1>6. CASE n = 0
    BY <1>5, <1>6 DEF Counting, Defining
  <1>7. CASE n = 1
    BY <1>5, <1>7 DEF Counting, Defining
  <1>8. CASE n > 1
    <2>1. IndexSequence[n \div 2] = Counting(n \div 2) /\ IndexSequence[n - n \div 2] = Counting(n - n \div 2)
      BY <1>4, <1>5, <1>8, Halves
    <2> QED BY <1>4, <1>5, <1>8, <2>1, MergedHalves DEF Defining
  <1> QED BY <1>5, <1>6, <1>7, <1>8

--------------------------------------------------------------------------------
(* CN_PP_FOR_EACH over a sequence, whose table entry n calls entry n-1.    *)

\* What the loop leaves, for macros that leave one token.
Table(macro, seq) == [i \in 1 .. Len(seq) |-> Head(macro[seq[i]])]

\* What entry n leaves: the last n tokens.
LastOf(s, n) == [i \in 1 .. n |-> s[Len(s) - n + i]]

\* What entry is defined to be, in terms of its own values.
Unrolled(macro, seq, f, n) ==
  IF n = 0 THEN <<>> ELSE macro[seq[Len(seq) - n + 1]] \o f[n - 1]

\* Entry n leaves one token more than entry n-1, in front.
LEMMA OneMore ==
  ASSUME NEW U, NEW t \in Seq(U), NEW x \in U, NEW n \in 1 .. Len(t),
         x = t[Len(t) - n + 1]
  PROVE  LastOf(t, n) = <<x>> \o LastOf(t, n - 1)
  <1>1. n \in Nat /\ n - 1 \in Nat /\ Len(t) \in Nat /\ n <= Len(t) /\ n >= 1
    OBVIOUS
  <1>2. \A k \in 0 .. Len(t) : \A i \in 1 .. k : t[Len(t) - k + i] \in U
    <2> SUFFICES ASSUME NEW k \in 0 .. Len(t), NEW i \in 1 .. k PROVE Len(t) - k + i \in 1 .. Len(t)
      BY ElementOfSeq
    <2> QED OBVIOUS
  <1>3. /\ LastOf(t, n) \in Seq(U) /\ Len(LastOf(t, n)) = n
        /\ LastOf(t, n - 1) \in Seq(U) /\ Len(LastOf(t, n - 1)) = n - 1
    BY <1>1, <1>2 DEF LastOf
  <1>4. <<x>> \in Seq(U) /\ Len(<<x>>) = 1
    OBVIOUS
  <1> DEFINE c == <<x>> \o LastOf(t, n - 1)
  <1>5. c \in Seq(U) /\ Len(c) = n
    BY <1>1, <1>3, <1>4
  <1>6. \A i \in 1 .. n : c[i] = LastOf(t, n)[i]
    <2> SUFFICES ASSUME NEW i \in 1 .. n PROVE c[i] = LastOf(t, n)[i]
      OBVIOUS
    <2>1. CASE i = 1
      BY <1>1, <1>3, <1>4, <2>1 DEF LastOf
    <2>2. CASE i # 1
      <3> i \in Nat /\ i > 1 /\ i <= n
        BY <1>1, <2>2
      <3>1. c[i] = LastOf(t, n - 1)[i - 1]
        BY <1>1, <1>3, <1>4
      <3>2. LastOf(t, n - 1)[i - 1] = t[Len(t) - (n - 1) + (i - 1)]
        BY <1>1 DEF LastOf
      <3>3. Len(t) - (n - 1) + (i - 1) = Len(t) - n + i
        BY <1>1
      <3> QED BY <1>1, <3>1, <3>2, <3>3 DEF LastOf
    <2> QED BY <2>1, <2>2
  <1> QED BY <1>3, <1>5, <1>6, SeqEqual

\* Within the limit of the generated tables, the loop leaves one token for each
\* element, in the order of the sequence.
LEMMA ForEachIsTable ==
  ASSUME NEW seq, NEW S, seq \in Seq(S), Len(seq) <= SeqLimit,
         NEW U, NEW macro, \A x \in S : macro[x] \in Seq(U) /\ Len(macro[x]) = 1
  PROVE  ForEach(macro, seq) = Table(macro, seq)
  <1> DEFINE t == Table(macro, seq)
             L == Len(seq)
             f == [n \in 0 .. L |-> LastOf(t, n)]
  <1>1. L \in Nat /\ \A i \in 1 .. L : seq[i] \in S
    OBVIOUS
  <1>2. \A x \in S : Head(macro[x]) \in U /\ macro[x] = <<Head(macro[x])>>
    OBVIOUS
  <1>3. t \in Seq(U) /\ Len(t) = L /\ \A i \in 1 .. L : macro[seq[i]] = <<t[i]>>
    BY <1>1, <1>2 DEF Table
  <1> HIDE DEF t
  <1>4. \A n \in 1 .. L : LastOf(t, n) = macro[seq[L - n + 1]] \o LastOf(t, n - 1)
    <2> SUFFICES ASSUME NEW n \in 1 .. L
                 PROVE  LastOf(t, n) = macro[seq[L - n + 1]] \o LastOf(t, n - 1)
      OBVIOUS
    <2>1. L - n + 1 \in 1 .. L
      BY <1>1
    <2>2. t[L - n + 1] \in U
      BY <1>3, <2>1, ElementOfSeq
    <2>3. LastOf(t, n) = <<t[L - n + 1]>> \o LastOf(t, n - 1)
      BY <1>3, <2>2, OneMore
    <2> QED BY <1>3, <2>1, <2>3
  <1>5. LastOf(t, 0) = <<>> /\ LastOf(t, L) = t
    <2>1. LastOf(t, 0) = <<>>
      BY DEF LastOf
    <2>2. \A i \in 1 .. L : Len(t) - L + i = i
      BY <1>1, <1>3
    <2>3. LastOf(t, L) = [i \in 1 .. L |-> t[i]]
      BY <2>2 DEF LastOf
    <2>4. t = [i \in 1 .. L |-> t[i]]
      BY <1>3
    <2> QED BY <2>1, <2>3, <2>4
  <1>6. f = [n \in 0 .. L |-> Unrolled(macro, seq, f, n)]
    <2> SUFFICES ASSUME NEW n \in 0 .. L PROVE LastOf(t, n) = Unrolled(macro, seq, f, n)
      OBVIOUS
    <2>1. CASE n = 0
      BY <1>5, <2>1 DEF Unrolled
    <2>2. CASE n # 0
      <3>1. n \in 1 .. L /\ n - 1 \in 0 .. L
        BY <1>1, <2>2
      <3> QED BY <1>4, <2>2, <3>1 DEF Unrolled
    <2> QED BY <2>1, <2>2
  <1> DEFINE entry == CHOOSE g : g = [n \in 0 .. L |-> Unrolled(macro, seq, g, n)]
  <1>7. entry = [n \in 0 .. L |-> Unrolled(macro, seq, entry, n)]
    BY <1>6
  <1>8. SeqSize(seq) = L /\ L # NoSize
    BY <1>1 DEF SeqSize, SeqLimit, NoSize
  <1>9. ForEach(macro, seq) = entry[L]
    BY <1>8 DEF ForEach, Unrolled
  <1> HIDE DEF entry
  <1>10. entry[L] = LastOf(t, L)
    <2> DEFINE Wrong == {n \in 0 .. L : entry[n] # LastOf(t, n)}
    <2>1. SUFFICES ASSUME Wrong # {} PROVE FALSE
      BY <1>1
    <2>2. PICK n \in Wrong : \A m \in Wrong : n <= m
      <3>1. Wrong \subseteq Nat
        BY <1>1
      <3> QED BY <2>1, <3>1, LeastOf
    <2>3. entry[n] = Unrolled(macro, seq, entry, n)
      BY <1>7
    <2>4. CASE n = 0
      BY <1>5, <2>3, <2>4 DEF Unrolled
    <2>5. CASE n # 0
      <3>1. n \in 1 .. L /\ n - 1 \in 0 .. L /\ ~(n <= n - 1)
        BY <1>1, <2>5
      <3>2. entry[n - 1] = LastOf(t, n - 1)
        BY <2>2, <3>1
      <3> QED BY <1>4, <2>3, <2>5, <3>1, <3>2 DEF Unrolled
    <2> QED BY <2>4, <2>5
  <1> QED BY <1>5, <1>9, <1>10 DEF t
--------------------------------------------------------------------------------
(* The tables of the control service.                                      *)

Methods == Range(CTRL_METHOD_SEQ)
MethodNum == Len(CTRL_METHOD_SEQ)

\* The methods, and that no two are the same.
LEMMA MethodList ==
  /\ MethodNum = 5 /\ kCtrlMethodNum = 5
  /\ CTRL_METHOD_SEQ \in Seq(Methods) /\ DOMAIN CTRL_METHOD_SEQ = 1 .. 5
  /\ \A i \in 1 .. 5 : CTRL_METHOD_SEQ[i] \in Methods
  /\ \A method \in Methods : \E i \in 1 .. 5 : method = CTRL_METHOD_SEQ[i]
  /\ \A i, j \in 1 .. 5 : CTRL_METHOD_SEQ[i] = CTRL_METHOD_SEQ[j] => i = j
  <1> DEFINE M == {"LoadServer", "Barrier", "PushKV", "ClearKV", "PullKV"}
  <1>1. /\ CTRL_METHOD_SEQ \in Seq(M) /\ MethodNum = 5 /\ DOMAIN CTRL_METHOD_SEQ = 1 .. 5
        /\ CTRL_METHOD_SEQ[1] = "LoadServer" /\ CTRL_METHOD_SEQ[2] = "Barrier"
        /\ CTRL_METHOD_SEQ[3] = "PushKV" /\ CTRL_METHOD_SEQ[4] = "ClearKV"
        /\ CTRL_METHOD_SEQ[5] = "PullKV"
    BY DEF CTRL_METHOD_SEQ, MethodNum
  <1> HIDE DEF MethodNum
  <1>2. Methods = {CTRL_METHOD_SEQ[i] : i \in 1 .. 5}
    BY <1>1 DEF Methods, Range
  <1>3. CTRL_METHOD_SEQ \in Seq(Methods)
    <2>1. \A i \in 1 .. Len(CTRL_METHOD_SEQ) : CTRL_METHOD_SEQ[i] \in Methods
      BY <1>1, <1>2 DEF MethodNum
    <2> QED BY <1>1, <2>1, SeqDef
  <1>4. kCtrlMethodNum = 5
    BY <1>1 DEF kCtrlMethodNum, SeqSize, SeqLimit, MethodNum
  <1>5. \A i, j \in 1 .. 5 : CTRL_METHOD_SEQ[i] = CTRL_METHOD_SEQ[j] => i = j
    BY <1>1
  <1> QED BY <1>1, <1>2, <1>3, <1>4, <1>5

\* A loop over the methods: line i is about method i.
LEMMA TokenTable ==
  ASSUME NEW macro, NEW U, \A x \in Methods : macro[x] \in Seq(U) /\ Len(macro[x]) = 1
  PROVE  /\ Len(ForEach(macro, CTRL_METHOD_SEQ)) = 5
         /\ ForEach(macro, CTRL_METHOD_SEQ) \in Seq(U)
         /\ \A i \in 1 .. 5 : ForEach(macro, CTRL_METHOD_SEQ)[i] = Head(macro[CTRL_METHOD_SEQ[i]])
  <1>1. CTRL_METHOD_SEQ \in Seq(Methods) /\ Len(CTRL_METHOD_SEQ) = 5
    BY MethodList DEF MethodNum
  <1>2. ForEach(macro, CTRL_METHOD_SEQ) = Table(macro, CTRL_METHOD_SEQ)
    <2>1. Len(CTRL_METHOD_SEQ) <= SeqLimit
      BY <1>1 DEF SeqLimit
    <2> QED BY <1>1, <2>1, ForEachIsTable
  <1>3. \A i \in 1 .. 5 : Head(macro[CTRL_METHOD_SEQ[i]]) \in U
    BY MethodList
  <1> QED BY <1>1, <1>2, <1>3 DEF Table

\* Line i of the enumeration, of the names and of the request types.
LEMMA TableLines ==
  /\ Len(CtrlMethod) = 5 /\ \A i \in 1 .. 5 : CtrlMethod[i] = <<"k", CTRL_METHOD_SEQ[i]>>
  /\ \A i \in 1 .. 5 : g_method_name[i] = <<"/comm_network.CtrlService/", CTRL_METHOD_SEQ[i]>>
  /\ \A i \in 1 .. 5 : CtrlRequestTuple[i] = <<CTRL_METHOD_SEQ[i], "Request">>
  <1> DEFINE k == [method \in Methods |-> << <<"k", method>> >>]
             g == [method \in Methods |-> << <<"/comm_network.CtrlService/", method>> >>]
             r == [method \in Methods |-> << <<method, "Request">> >>]
             V == {<<a, x>> : a \in {"k", "/comm_network.CtrlService/"}, x \in Methods}
                  \cup {<<x, "Request">> : x \in Methods}
  <1>1. \A x \in Methods : /\ k[x] \in Seq(V) /\ Len(k[x]) = 1 /\ Head(k[x]) = <<"k", x>>
                           /\ g[x] \in Seq(V) /\ Len(g[x]) = 1
                           /\ Head(g[x]) = <<"/comm_network.CtrlService/", x>>
                           /\ r[x] \in Seq(V) /\ Len(r[x]) = 1 /\ Head(r[x]) = <<x, "Request">>
    OBVIOUS
  <1>2. CtrlMethod = ForEach(k, CTRL_METHOD_SEQ) /\ g_method_name = ForEach(g, CTRL_METHOD_SEQ)
        /\ CtrlRequestTuple = ForEach(r, CTRL_METHOD_SEQ) \o << <<"void">> >>
    BY DEF CtrlMethod, g_method_name, CtrlRequestTuple, Methods
  <1> HIDE DEF k, g, r, V
  <1>3. /\ Len(ForEach(k, CTRL_METHOD_SEQ)) = 5
        /\ \A i \in 1 .. 5 : ForEach(k, CTRL_METHOD_SEQ)[i] = <<"k", CTRL_METHOD_SEQ[i]>>
    BY <1>1, TokenTable, MethodList
  <1>4. \A i \in 1 .. 5 : ForEach(g, CTRL_METHOD_SEQ)[i] = <<"/comm_network.CtrlService/", CTRL_METHOD_SEQ[i]>>
    BY <1>1, TokenTable, MethodList
  <1>5. /\ Len(ForEach(r, CTRL_METHOD_SEQ)) = 5 /\ ForEach(r, CTRL_METHOD_SEQ) \in Seq(V)
        /\ \A i \in 1 .. 5 : ForEach(r, CTRL_METHOD_SEQ)[i] = <<CTRL_METHOD_SEQ[i], "Request">>
    BY <1>1, TokenTable, MethodList
  <1>6. \A i \in 1 .. 5 : CtrlRequestTuple[i] = ForEach(r, CTRL_METHOD_SEQ)[i]
    <2> DEFINE R == ForEach(r, CTRL_METHOD_SEQ)
               W == V \cup {<<"void">>}
    <2>1. R \in Seq(W) /\ Len(R) = 5 /\ << <<"void">> >> \in Seq(W)
      BY <1>5
    <2> HIDE DEF R, W
    <2>2. \A i \in 1 .. 5 : (R \o << <<"void">> >>)[i] = R[i]
      BY <2>1
    <2> QED BY <1>2, <2>2 DEF R
  <1> QED BY <1>2, <1>3, <1>4, <1>5, <1>6

\* Position i - 1 means method i on either side, and the server posts a call for
\* each position.
LEMMA MethodPositions ==
  ASSUME NEW i \in 1 .. 5
  PROVE  /\ Value(CTRL_METHOD_SEQ[i]) = i - 1
         /\ rpcmethods[i] = g_method_name[i]
         /\ AsyncService[i] = g_method_name[i]
         /\ handlers[i - 1] = CTRL_METHOD_SEQ[i]
         /\ Range(IndexSequence[kCtrlMethodNum]) = 0 .. 4
  <1>1. \A j \in 1 .. 5 : Value(CTRL_METHOD_SEQ[j]) = j - 1
    <2> SUFFICES ASSUME NEW j \in 1 .. 5 PROVE Value(CTRL_METHOD_SEQ[j]) = j - 1
      OBVIOUS
    <2>1. j - 1 \in 0 .. Len(CtrlMethod) - 1 /\ At(CtrlMethod, j - 1) = <<"k", CTRL_METHOD_SEQ[j]>>
      BY TableLines DEF At
    <2>2. \A v \in 0 .. Len(CtrlMethod) - 1 : At(CtrlMethod, v) = <<"k", CTRL_METHOD_SEQ[j]>> => v = j - 1
      <3> SUFFICES ASSUME NEW v \in 0 .. 4, At(CtrlMethod, v) = <<"k", CTRL_METHOD_SEQ[j]>>
                   PROVE  v = j - 1
        BY TableLines
      <3>1. v + 1 \in 1 .. 5 /\ CTRL_METHOD_SEQ[v + 1] = CTRL_METHOD_SEQ[j]
        BY TableLines DEF At
      <3> QED BY <3>1, MethodList
    <2> QED BY <2>1, <2>2 DEF Value
  <1>2. IndexSequence[kCtrlMethodNum] = Counting(5)
    BY MethodList, IndicesInOrder
  <1>3. \A j \in 1 .. 5 : At(Counting(5), j - 1) = j - 1
    BY DEF At, Counting
  <1>4. rpcmethods[i] = g_method_name[i]
    BY <1>2, <1>3, MethodList DEF rpcmethods, GetMethodName, At
  <1>5. AsyncService[i] = g_method_name[i]
    BY MethodList DEF AsyncService, GetMethodName, At
  <1>6. handlers[i - 1] = CTRL_METHOD_SEQ[i]
    <2>1. \A method \in Methods : Value(method) = i - 1 => method = CTRL_METHOD_SEQ[i]
      BY <1>1, MethodList
    <2>2. CTRL_METHOD_SEQ[i] \in Methods /\ Value(CTRL_METHOD_SEQ[i]) = i - 1
      BY <1>1, MethodList
    <2>3. (CHOOSE method \in Methods : Value(method) = i - 1) = CTRL_METHOD_SEQ[i]
      BY <2>1, <2>2
    <2>4. i - 1 \in 0 .. kCtrlMethodNum - 1
      BY MethodList
    <2> QED BY <2>3, <2>4 DEF handlers, Methods
  <1>7. Range(Counting(5)) = 0 .. 4
    <2>1. \A x \in 0 .. 4 : x + 1 \in 1 .. 5 /\ x = (x + 1) - 1
      OBVIOUS
    <2> QED BY <2>1 DEF Counting, Range
  <1> QED BY <1>1, <1>2, <1>4, <1>5, <1>6, <1>7

\* The client's stub, the server's methods and the server's handlers agree about
\* every method, although each finds it by its position in a table of its own.
THEOREM TablesAgree == \A method \in Range(CTRL_METHOD_SEQ) : Understood(method)
  <1> SUFFICES ASSUME NEW i \in 1 .. 5 PROVE Understood(CTRL_METHOD_SEQ[i])
    BY MethodList DEF Methods
  <1> DEFINE posted(j) == [name |-> g_method_name[j], request |-> <<CTRL_METHOD_SEQ[j], "Request">>,
                           handler |-> CTRL_METHOD_SEQ[j]]
  <1>1. CallMethod(CTRL_METHOD_SEQ[i]) = [name |-> g_method_name[i], request |-> <<CTRL_METHOD_SEQ[i], "Request">>]
    BY MethodPositions, TableLines DEF CallMethod, At
  <1>2. \A j \in 0 .. 4 : j + 1 \in 1 .. 5 /\ (j + 1) - 1 = j
    OBVIOUS
  <1>3. \A j \in 0 .. 4 : /\ At(AsyncService, j) = g_method_name[j + 1]
                          /\ At(CtrlRequestTuple, j) = <<CTRL_METHOD_SEQ[j + 1], "Request">>
                          /\ handlers[j] = CTRL_METHOD_SEQ[j + 1]
    BY <1>2, MethodPositions, TableLines DEF At
  <1>4. Range(IndexSequence[kCtrlMethodNum]) = 0 .. 4
    BY MethodPositions
  <1>5. EnqueueRequests = {posted(j + 1) : j \in 0 .. 4}
    BY <1>3, <1>4 DEF EnqueueRequests
  <1>6. \A j \in 1 .. 5 : g_method_name[j] = g_method_name[i] => j = i
    <2> SUFFICES ASSUME NEW j \in 1 .. 5, g_method_name[j] = g_method_name[i] PROVE j = i
      OBVIOUS
    <2>1. CTRL_METHOD_SEQ[j] = CTRL_METHOD_SEQ[i]
      BY TableLines
    <2> QED BY <2>1, MethodList
  <1>7. {call \in EnqueueRequests : call.name = g_method_name[i]} = {posted(i)}
    <2>1. posted(i) \in EnqueueRequests
      <3>1. i - 1 \in 0 .. 4 /\ (i - 1) + 1 = i
        OBVIOUS
      <3> QED BY <1>5, <3>1
    <2>2. \A call \in EnqueueRequests : call.name = g_method_name[i] => call = posted(i)
      BY <1>2, <1>5, <1>6
    <2> QED BY <2>1, <2>2
  <1> QED BY <1>1, <1>7 DEF Understood

\* Whatever call a machine has out while it comes up, and the heartbeat's, finds
\* the handler written for it.
THEOREM CallsFindHandlers == Spec => []CallsUnderstood
  <1>1. Methods = {CTRL_METHOD_SEQ[i] : i \in 1 .. 5} /\ \A method \in Methods : Understood(method)
    BY MethodList, TablesAgree DEF Methods
  <1>2. {"LoadServer", "Barrier", "PushKV", "ClearKV", "PullKV"} \subseteq Methods
    BY <1>1 DEF CTRL_METHOD_SEQ
  <1>3. UpInv => CallsUnderstood
    <2> SUFFICES ASSUME UpInv, NEW m \in Machine, rpc[m].at = "sent" PROVE Understood(rpc[m].op)
      BY <1>1, <1>2 DEF CallsUnderstood
    <2>1. rpc[m] \in Call \cup {Free, Held, Answered}
      BY DEF UpInv, TypeOK
    <2>2. rpc[m].op \in {"Barrier", "PushKV", "ClearKV", "PullKV"}
      BY <2>1 DEF Call, Free, Held, Answered, PushKV, PullKV, ClearKV, BarrierAt
    <2> QED BY <1>1, <1>2, <2>2
  <1> QED BY <1>3, Invariance, PTL
================================================================================
