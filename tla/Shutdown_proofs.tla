----------------------------- MODULE Shutdown_proofs -----------------------------
(***************************************************************************)
(* Proofs about the end of a program.  The argument is an account: what a  *)
(* counter still has to come down by is what is on its way to the machine, *)
(* so that two counters at zero, which is what the barrier adds, leave     *)
(* nothing on the way at all.                                              *)
(***************************************************************************)
EXTENDS Shutdown, FiniteSetTheorems, SequenceTheorems, TLAPS

--------------------------------------------------------------------------------
(* How often an element occurs in a queue, and what the operations on the  *)
(* queue do to that number.                                                *)

Positions(s, x) == {i \in DOMAIN s : s[i] = x}

Count(s, x) == Cardinality(Positions(s, x))

LEMMA CountNat ==
  ASSUME NEW S, NEW s \in Seq(S), NEW x
  PROVE  IsFiniteSet(Positions(s, x)) /\ Count(s, x) \in Nat
  <1>1. Len(s) \in Nat /\ DOMAIN s = 1 .. Len(s)
    OBVIOUS
  <1>2. IsFiniteSet(1 .. Len(s))
    BY <1>1, FS_Interval
  <1>3. Positions(s, x) \subseteq 1 .. Len(s)
    BY <1>1 DEF Positions
  <1>4. IsFiniteSet(Positions(s, x))
    BY <1>2, <1>3, FS_Subset
  <1> QED BY <1>4, FS_CardinalityType DEF Count

LEMMA CountEmpty == \A x : Count(<<>>, x) = 0
  <1>1. \A x : Positions(<<>>, x) = {}
    BY DEF Positions
  <1> QED BY <1>1, FS_EmptySet DEF Count

LEMMA CountAppend ==
  ASSUME NEW S, NEW s \in Seq(S), NEW y \in S, NEW x
  PROVE  Count(Append(s, y), x) = IF y = x THEN Count(s, x) + 1 ELSE Count(s, x)
  <1> DEFINE t == Append(s, y)
  <1>1. Len(s) \in Nat /\ DOMAIN s = 1 .. Len(s)
    OBVIOUS
  <1>2. DOMAIN t = 1 .. Len(s) + 1
    BY AppendProperties, <1>1
  <1>3. /\ \A i \in 1 .. Len(s) : t[i] = s[i]
        /\ t[Len(s) + 1] = y
    BY AppendProperties
  <1>4. IsFiniteSet(Positions(s, x))
    BY CountNat
  <1>5. Len(s) + 1 \notin Positions(s, x)
    BY <1>1 DEF Positions
  <1> HIDE DEF t
  <1>6. CASE y = x
    <2>1. Positions(t, x) = Positions(s, x) \cup {Len(s) + 1}
      BY <1>1, <1>2, <1>3, <1>6 DEF Positions
    <2> QED BY <2>1, <1>4, <1>5, <1>6, FS_AddElement DEF Count, t
  <1>7. CASE y # x
    <2>1. Positions(t, x) = Positions(s, x)
      BY <1>1, <1>2, <1>3, <1>7 DEF Positions
    <2> QED BY <2>1, <1>7 DEF Count, t
  <1> QED BY <1>6, <1>7

LEMMA CountTail ==
  ASSUME NEW S, NEW s \in Seq(S), s # <<>>, NEW x
  PROVE  Count(Tail(s), x) = IF Head(s) = x THEN Count(s, x) - 1 ELSE Count(s, x)
  <1> DEFINE t == Tail(s)
             f == [i \in Positions(t, x) |-> i + 1]
             R == Positions(s, x) \ {1}
  <1>1. /\ Len(s) \in Nat \ {0} /\ DOMAIN s = 1 .. Len(s)
        /\ t \in Seq(S) /\ DOMAIN t = 1 .. Len(s) - 1
        /\ \A i \in 1 .. Len(s) - 1 : t[i] = s[i + 1]
    BY HeadTailProperties
  <1>2. Head(s) = s[1] /\ 1 \in DOMAIN s
    BY <1>1
  <1>3. IsFiniteSet(Positions(s, x)) /\ Count(s, x) \in Nat /\ IsFiniteSet(Positions(t, x))
    BY CountNat, <1>1
  <1> HIDE DEF t
  <1>4. f \in Bijection(Positions(t, x), R)
    <2>1. \A i \in Positions(t, x) : i \in Nat /\ i + 1 \in R
      BY <1>1 DEF Positions
    <2>2. f \in [Positions(t, x) -> R]
      BY <2>1
    <2>3. \A i, j \in Positions(t, x) : f[i] = f[j] => i = j
      BY <2>1
    <2>4. \A j \in R : \E i \in Positions(t, x) : f[i] = j
      <3> TAKE j \in R
      <3>1. j \in 2 .. Len(s) /\ s[j] = x
        BY <1>1 DEF Positions
      <3>2. j - 1 \in DOMAIN t /\ t[j - 1] = x
        BY <1>1, <3>1
      <3>3. j - 1 \in Positions(t, x)
        BY <3>2 DEF Positions
      <3>4. f[j - 1] = j
        BY <3>3, <3>1
      <3> QED BY <3>3, <3>4
    <2> HIDE DEF f, R
    <2>5. f \in Injection(Positions(t, x), R)
      BY <2>2, <2>3 DEF Injection, IsInjective
    <2>6. f \in Surjection(Positions(t, x), R)
      BY <2>2, <2>4 DEF Surjection
    <2> QED BY <2>5, <2>6 DEF Bijection
  <1> HIDE DEF f
  <1>5. Cardinality(R) = Count(t, x)
    <2>1. ExistsBijection(Positions(t, x), R)
      BY <1>4 DEF ExistsBijection
    <2> HIDE DEF R
    <2> QED BY <2>1, <1>3, FS_Bijection DEF Count
  <1>6. Cardinality(R) = IF 1 \in Positions(s, x) THEN Count(s, x) - 1 ELSE Count(s, x)
    BY <1>3, FS_RemoveElement DEF Count
  <1>7. 1 \in Positions(s, x) <=> Head(s) = x
    BY <1>2 DEF Positions
  <1> QED BY <1>5, <1>6, <1>7 DEF t

\* What occurs is counted.
LEMMA CountPositive ==
  ASSUME NEW S, NEW s \in Seq(S), NEW i \in DOMAIN s
  PROVE  Count(s, s[i]) > 0
  <1>1. i \in Positions(s, s[i])
    BY DEF Positions
  <1>2. IsFiniteSet(Positions(s, s[i])) /\ Count(s, s[i]) \in Nat
    BY CountNat
  <1>3. Count(s, s[i]) # 0
    BY <1>1, <1>2, FS_EmptySet DEF Count
  <1> QED BY <1>2, <1>3

LEMMA CountHead ==
  ASSUME NEW S, NEW s \in Seq(S), s # <<>>
  PROVE  Count(s, Head(s)) > 0
  <1>1. 1 \in DOMAIN s /\ Head(s) = s[1]
    OBVIOUS
  <1> QED BY <1>1, CountPositive

\* A sequence in which nothing occurs is empty.
LEMMA CountNone ==
  ASSUME NEW S, NEW s \in Seq(S), \A x \in S : Count(s, x) = 0
  PROVE  s = <<>>
  <1> SUFFICES ASSUME s # <<>> PROVE FALSE
    OBVIOUS
  <1>1. Head(s) \in S
    BY HeadTailProperties
  <1> QED BY <1>1, CountHead
--------------------------------------------------------------------------------
\* Requests of kind x that s has posted and its peer has not handled.
OnWay(s, x) == Count(sq[s], x) + Count(cq[Peer(s)], x) + Count(wc_vec[Peer(s)], x)

\* The FreeBufferPair m is about to post.
Posting(m) == IF poller[m] = "PostFree" THEN 1 ELSE 0

\* Reads of the memory of m whose reader has not been called back.
Unread(m) == OnWay(Peer(m), "PleaseWrite") + records[m] + OnWay(m, "LastPiece")

\* Reads of the memory of m that m has not been called back for, though the
\* reader has.
Unreleased(m) == Posting(Peer(m)) + OnWay(Peer(m), "FreeBufferPair")

\* The read-done callback m is about to run.
Running(m) == IF poller[m] = "DoneCb" THEN 1 ELSE 0

\* The callbacks m still has to run.
Due(m) == Unread(Peer(m)) + Unread(m) + Unreleased(m) + Running(m)

\* Where the buffers of m are.
Buffers(m) == idle_buffers[m] + OnWay(m, "LastPiece") + Unreleased(m)

--------------------------------------------------------------------------------
\* Where a poller can be.
Places == {"Test", "Clear", "Poll", "Handle", "PostFree", "DoneCb", "Exit"}

Types == /\ main \in [Machine -> {"Wait", "Barrier", "Stop", "Join", "Done"}]
         /\ cnt_val \in [Machine -> Nat]
         /\ poller \in [Machine -> Places]
         /\ poll_exit_flag \in [Machine -> BOOLEAN]
         /\ wc_vec \in [Machine -> Seq(Request)]
         /\ records \in [Machine -> Nat]
         /\ idle_buffers \in [Machine -> Nat]
         /\ sq \in [Machine -> Seq(Request)]
         /\ cq \in [Machine -> Seq(Request)]
         /\ destroyed \in [Machine -> BOOLEAN]

\* Between two batches nothing is in hand; a record waits only for a buffer;
\* and a queue pair is destroyed by the main thread when the poller is gone.
Shape == \A m \in Machine :
           /\ poller[m] \in {"Test", "Clear", "Poll", "Exit"} => wc_vec[m] = <<>>
           /\ records[m] = 0 \/ idle_buffers[m] = 0
           /\ destroyed[m] => main[m] = "Done" /\ poller[m] = "Exit"

\* What the places of the main threads say about the counters.
Waits == \A m \in Machine :
           /\ main[m] # "Wait" => cnt_val[m] = 0
           /\ BarrierBefore /\ main[m] \in {"Stop", "Join", "Done"} => main[Peer(m)] # "Wait"

\* The accounts: they can only be short of what a destroyed queue pair has
\* dropped, and with the barrier they are exact.
Accounts == \A m \in Machine :
              /\ cnt_val[m] \in Due(m) .. 2 * Iterations
              /\ Unread(m) <= Iterations
              /\ Buffers(m) <= RegisterBufferNum
              /\ BarrierBefore => cnt_val[m] = Due(m) /\ Buffers(m) = RegisterBufferNum

ShutdownInv == Types /\ Shape /\ Waits /\ Accounts

--------------------------------------------------------------------------------
LEMMA Peers ==
  ASSUME NEW m \in Machine
  PROVE  /\ Peer(m) \in Machine /\ Peer(m) # m /\ Peer(Peer(m)) = m
         /\ \A n \in Machine : n = m \/ n = Peer(m)
  <1>1. \A n \in Machine : \E p : Machine \ {n} = {p}
    <2> TAKE n \in Machine
    <2>1. IsFiniteSet(Machine \ {n}) /\ Cardinality(Machine \ {n}) = 1
      BY ShutdownAssumption, FS_RemoveElement
    <2> QED BY <2>1, FS_Singleton
  <1>2. \A n \in Machine : Machine \ {n} = {Peer(n)}
    BY <1>1 DEF Peer
  <1>3. /\ Peer(m) \in Machine /\ Peer(m) # m
        /\ \A n \in Machine : n = m \/ n = Peer(m)
    BY <1>2
  <1>4. Peer(Peer(m)) = m
    BY <1>2, <1>3
  <1> QED BY <1>3, <1>4

LEMMA OnWayNat == Types => \A s \in Machine : \A x : OnWay(s, x) \in Nat
  <1> SUFFICES ASSUME Types, NEW s \in Machine, NEW x PROVE OnWay(s, x) \in Nat
    OBVIOUS
  <1>1. Peer(s) \in Machine
    BY Peers
  <1>2. Count(sq[s], x) \in Nat /\ Count(cq[Peer(s)], x) \in Nat /\ Count(wc_vec[Peer(s)], x) \in Nat
    BY <1>1, CountNat DEF Types
  <1> QED BY <1>2 DEF OnWay

LEMMA OnWayNatNext == Types' => \A s \in Machine : \A x : OnWay(s, x)' \in Nat
  <1> SUFFICES ASSUME Types', NEW s \in Machine, NEW x PROVE OnWay(s, x)' \in Nat
    OBVIOUS
  <1>1. Peer(s) \in Machine
    BY Peers
  <1>2. /\ sq'[s] \in Seq(Request) /\ cq'[Peer(s)] \in Seq(Request)
        /\ wc_vec'[Peer(s)] \in Seq(Request)
    BY <1>1 DEF Types
  <1>3. /\ Count(sq'[s], x) \in Nat /\ Count(cq'[Peer(s)], x) \in Nat
        /\ Count(wc_vec'[Peer(s)], x) \in Nat
    BY <1>2, CountNat
  <1> QED BY <1>3 DEF OnWay
--------------------------------------------------------------------------------
(* How the steps move requests.                                            *)

Took(posts) == IF posts THEN 1 ELSE 0

\* Handling a completion takes one request of its kind off the way to m, and may
\* post another.
LEMMA HandledMoves ==
  ASSUME Types, NEW m \in Machine, NEW wc \in Request, NEW next, Handles(m, wc, next),
         UNCHANGED cq, NEW posts \in BOOLEAN, NEW y \in Request,
         sq' = [sq EXCEPT ![m] = IF posts THEN Append(@, y) ELSE @]
  PROVE  /\ \A x \in Request \ {wc} : OnWay(Peer(m), x)' = OnWay(Peer(m), x)
         /\ OnWay(Peer(m), wc) > 0 /\ OnWay(Peer(m), wc)' = OnWay(Peer(m), wc) - 1
         /\ \A x \in Request \ {y} : OnWay(m, x)' = OnWay(m, x)
         /\ OnWay(m, y)' = OnWay(m, y) + Took(posts)
         /\ wc_vec' \in [Machine -> Seq(Request)] /\ sq' \in [Machine -> Seq(Request)]
  <1> DEFINE p == Peer(m)
  <1>1. p \in Machine /\ p # m /\ Peer(p) = m
    BY Peers
  <1>2. /\ wc_vec[m] \in Seq(Request) /\ wc_vec[m] # <<>> /\ Head(wc_vec[m]) = wc
        /\ wc_vec' = [wc_vec EXCEPT ![m] = Tail(@)]
        /\ sq[m] \in Seq(Request)
    BY DEF Types, Handles
  <1>3. wc_vec'[m] = Tail(wc_vec[m]) /\ wc_vec'[p] = wc_vec[p] /\ sq'[p] = sq[p]
    BY <1>1, <1>2 DEF Types
  <1>4. sq'[m] = IF posts THEN Append(sq[m], y) ELSE sq[m]
    BY DEF Types
  <1>5. \A x : /\ Count(sq[p], x) \in Nat /\ Count(cq[m], x) \in Nat /\ Count(wc_vec[m], x) \in Nat
               /\ Count(sq[m], x) \in Nat /\ Count(cq[p], x) \in Nat /\ Count(wc_vec[p], x) \in Nat
    BY <1>1, CountNat DEF Types
  <1>6. \A x : Count(Tail(wc_vec[m]), x) = IF wc = x THEN Count(wc_vec[m], x) - 1
                                                    ELSE Count(wc_vec[m], x)
    BY <1>2, CountTail
  <1>7. \A x : Count(Append(sq[m], y), x) = IF y = x THEN Count(sq[m], x) + 1 ELSE Count(sq[m], x)
    BY <1>2, CountAppend
  <1>8. Count(wc_vec[m], wc) > 0
    BY <1>2, CountHead
  <1>9. ASSUME NEW x \in Request \ {wc} PROVE OnWay(p, x)' = OnWay(p, x)
    BY <1>1, <1>3, <1>6 DEF OnWay
  <1>a. OnWay(p, wc)' = OnWay(p, wc) - 1
    <2>1. Count(Tail(wc_vec[m]), wc) = Count(wc_vec[m], wc) - 1
      BY <1>6
    <2> QED BY <2>1, <1>1, <1>3, <1>5 DEF OnWay
  <1>b. ASSUME NEW x \in Request \ {y} PROVE OnWay(m, x)' = OnWay(m, x)
    <2>1. Count(sq'[m], x) = Count(sq[m], x)
      BY <1>4, <1>7
    <2> QED BY <2>1, <1>1, <1>3 DEF OnWay
  <1>c. OnWay(p, wc) > 0
    BY <1>1, <1>5, <1>8 DEF OnWay
  <1>d. Tail(wc_vec[m]) \in Seq(Request) /\ Append(sq[m], y) \in Seq(Request)
    BY <1>2, HeadTailProperties, AppendProperties
  <1>e. wc_vec' \in [Machine -> Seq(Request)] /\ sq' \in [Machine -> Seq(Request)]
    BY <1>2, <1>d DEF Types
  <1>f. OnWay(m, y)' = OnWay(m, y) + Took(posts)
    <2>1. Count(sq'[m], y) = Count(sq[m], y) + Took(posts)
      <3>1. CASE posts
        BY <3>1, <1>4, <1>7 DEF Took
      <3>2. CASE ~posts
        BY <3>2, <1>4, <1>5 DEF Took
      <3> QED BY <3>1, <3>2
    <2>2. Took(posts) \in Nat
      BY DEF Took
    <2> QED BY <2>1, <2>2, <1>1, <1>3, <1>5 DEF OnWay
  <1> QED BY <1>9, <1>a, <1>b, <1>c, <1>e, <1>f

\* The device and ibv_poll_cq move requests on, and none gets lost.
LEMMA PolledMoves ==
  ASSUME Types, NEW m \in Machine, wc_vec[m] = <<>>,
         wc_vec' = [wc_vec EXCEPT ![m] = cq[m]], cq' = [cq EXCEPT ![m] = <<>>], UNCHANGED sq
  PROVE  \A s \in Machine : \A x : OnWay(s, x)' = OnWay(s, x)
  <1> SUFFICES ASSUME NEW s \in Machine, NEW x PROVE OnWay(s, x)' = OnWay(s, x)
    OBVIOUS
  <1>1. Peer(s) \in Machine
    BY Peers
  <1>2. CASE Peer(s) = m
    <2>1. wc_vec'[m] = cq[m] /\ cq'[m] = <<>>
      BY DEF Types
    <2>2. Count(cq[m], x) \in Nat /\ Count(sq[s], x) \in Nat
      BY CountNat DEF Types
    <2> QED BY <1>2, <2>1, <2>2, CountEmpty DEF OnWay
  <1>3. CASE Peer(s) # m
    <2>1. wc_vec'[Peer(s)] = wc_vec[Peer(s)] /\ cq'[Peer(s)] = cq[Peer(s)]
      BY <1>1, <1>3 DEF Types
    <2> QED BY <2>1 DEF OnWay
  <1> QED BY <1>2, <1>3

LEMMA DeliveredMoves ==
  ASSUME Types, NEW m \in Machine, sq[m] # <<>>, UNCHANGED wc_vec,
         cq' = [cq EXCEPT ![Peer(m)] = Append(@, Head(sq[m]))], sq' = [sq EXCEPT ![m] = Tail(@)]
  PROVE  /\ \A s \in Machine : \A x : OnWay(s, x)' = OnWay(s, x)
         /\ sq' \in [Machine -> Seq(Request)] /\ cq' \in [Machine -> Seq(Request)]
  <1>1. Peer(m) \in Machine
    BY Peers
  <1>2. sq[m] \in Seq(Request) /\ cq[Peer(m)] \in Seq(Request)
    BY <1>1 DEF Types
  <1>3. /\ Head(sq[m]) \in Request /\ Tail(sq[m]) \in Seq(Request)
        /\ Append(cq[Peer(m)], Head(sq[m])) \in Seq(Request)
    BY <1>2, HeadTailProperties, AppendProperties
  <1>4. sq' \in [Machine -> Seq(Request)] /\ cq' \in [Machine -> Seq(Request)]
    BY <1>1, <1>3 DEF Types
  <1>5. ASSUME NEW s \in Machine, NEW x PROVE OnWay(s, x)' = OnWay(s, x)
    <2>1. CASE s = m
      <3>1. sq'[m] = Tail(sq[m]) /\ cq'[Peer(m)] = Append(cq[Peer(m)], Head(sq[m]))
        BY <1>1 DEF Types
      <3>2. Count(Tail(sq[m]), x) = IF Head(sq[m]) = x THEN Count(sq[m], x) - 1
                                                       ELSE Count(sq[m], x)
        BY <1>2, CountTail
      <3>3. Count(Append(cq[Peer(m)], Head(sq[m])), x)
              = IF Head(sq[m]) = x THEN Count(cq[Peer(m)], x) + 1 ELSE Count(cq[Peer(m)], x)
        BY <1>2, <1>3, CountAppend
      <3>4. /\ Count(sq[m], x) \in Nat /\ Count(cq[Peer(m)], x) \in Nat
            /\ Count(wc_vec[Peer(m)], x) \in Nat
        BY <1>1, CountNat DEF Types
      <3> QED BY <2>1, <3>1, <3>2, <3>3, <3>4 DEF OnWay
    <2>2. CASE s # m
      <3>1. Peer(s) \in Machine /\ Peer(s) # Peer(m)
        BY <2>2, Peers
      <3>2. sq'[s] = sq[s] /\ cq'[Peer(s)] = cq[Peer(s)]
        BY <1>1, <2>2, <3>1 DEF Types
      <3> QED BY <3>2 DEF OnWay
    <2> QED BY <2>1, <2>2
  <1> QED BY <1>4, <1>5

\* Destroying a queue pair only takes requests off.
LEMMA DroppedMoves ==
  ASSUME Types, NEW m \in Machine, UNCHANGED wc_vec,
         sq' = [sq EXCEPT ![m] = <<>>], cq' = [cq EXCEPT ![m] = <<>>]
  PROVE  \A s \in Machine : \A x : OnWay(s, x)' \in 0 .. OnWay(s, x)
  <1> SUFFICES ASSUME NEW s \in Machine, NEW x PROVE OnWay(s, x)' \in 0 .. OnWay(s, x)
    OBVIOUS
  <1>1. Peer(s) \in Machine
    BY Peers
  <1>2. /\ Count(sq[s], x) \in Nat /\ Count(cq[Peer(s)], x) \in Nat
        /\ Count(wc_vec[Peer(s)], x) \in Nat
    BY <1>1, CountNat DEF Types
  <1>3. sq'[s] = IF s = m THEN <<>> ELSE sq[s]
    BY DEF Types
  <1>4. cq'[Peer(s)] = IF Peer(s) = m THEN <<>> ELSE cq[Peer(s)]
    BY <1>1 DEF Types
  <1>5. Count(sq'[s], x) \in 0 .. Count(sq[s], x)
    BY <1>2, <1>3, CountEmpty
  <1>6. Count(cq'[Peer(s)], x) \in 0 .. Count(cq[Peer(s)], x)
    BY <1>2, <1>4, CountEmpty
  <1> QED BY <1>2, <1>5, <1>6 DEF OnWay

\* So does a post take one request onto the way.
LEMMA PostedMoves ==
  ASSUME Types, NEW m \in Machine, NEW y \in Request, UNCHANGED <<wc_vec, cq>>,
         sq' = [sq EXCEPT ![m] = Append(@, y)]
  PROVE  /\ \A x : OnWay(Peer(m), x)' = OnWay(Peer(m), x)
         /\ \A x \in Request \ {y} : OnWay(m, x)' = OnWay(m, x)
         /\ OnWay(m, y)' = OnWay(m, y) + 1
         /\ sq' \in [Machine -> Seq(Request)]
  <1>1. Peer(m) \in Machine /\ Peer(m) # m
    BY Peers
  <1>2. sq[m] \in Seq(Request) /\ Append(sq[m], y) \in Seq(Request)
    BY AppendProperties DEF Types
  <1>3. sq'[m] = Append(sq[m], y) /\ sq'[Peer(m)] = sq[Peer(m)]
    BY <1>1 DEF Types
  <1>4. \A x : Count(Append(sq[m], y), x) = IF y = x THEN Count(sq[m], x) + 1 ELSE Count(sq[m], x)
    BY <1>2, CountAppend
  <1>5. \A x : /\ Count(sq[m], x) \in Nat /\ Count(cq[Peer(m)], x) \in Nat
               /\ Count(wc_vec[Peer(m)], x) \in Nat
    BY <1>1, CountNat DEF Types
  <1>6. ASSUME NEW x \in Request \ {y} PROVE OnWay(m, x)' = OnWay(m, x)
    BY <1>3, <1>4 DEF OnWay
  <1>9. OnWay(m, y)' = OnWay(m, y) + 1
    <2>1. Count(sq'[m], y) = Count(sq[m], y) + 1
      BY <1>3, <1>4
    <2> QED BY <2>1, <1>5 DEF OnWay
  <1>7. ASSUME NEW x PROVE OnWay(Peer(m), x)' = OnWay(Peer(m), x)
    BY <1>3 DEF OnWay
  <1>8. sq' \in [Machine -> Seq(Request)]
    BY <1>2 DEF Types
  <1> QED BY <1>6, <1>7, <1>8, <1>9

\* One turn of the write helper's loop, or none.
LoopWrites(m, queued, idle, posts) ==
  /\ sq' = [sq EXCEPT ![m] = IF posts THEN Append(@, "LastPiece") ELSE @]
  /\ records' = [records EXCEPT ![m] = queued - Took(posts)]
  /\ idle_buffers' = [idle_buffers EXCEPT ![m] = idle - Took(posts)]
  /\ queued - Took(posts) \in Nat /\ idle - Took(posts) \in Nat
  /\ queued - Took(posts) = 0 \/ idle - Took(posts) = 0

\* The write helper's loop writes one piece at most: before it there is no
\* record or no idle buffer, and one of the two has just come.
LEMMA LoopWritesOne ==
  ASSUME Types, NEW m \in Machine, NEW queued \in Nat, NEW idle \in Nat,
         WriteUntilQueueEmptyOrNoBuffer(m, queued, idle), queued <= 1 \/ idle <= 1
  PROVE  \E posts \in BOOLEAN : LoopWrites(m, queued, idle, posts)
  <1> DEFINE posts == queued > 0 /\ idle > 0
             pieces == IF queued < idle THEN queued ELSE idle
             k == IF posts THEN 1 ELSE 0
  <1>1. pieces = k
    OBVIOUS
  <1>2. sq[m] \in Seq(Request)
    BY DEF Types
  <1>3. sq[m] \o [i \in 1 .. k |-> "LastPiece"] = IF posts THEN Append(sq[m], "LastPiece") ELSE sq[m]
    <2>1. CASE posts
      <3>1. [i \in 1 .. k |-> "LastPiece"] = <<"LastPiece">>
        BY <2>1
      <3> QED BY <2>1, <3>1, <1>2, AppendIsConcat DEF Request
    <2>2. CASE ~posts
      <3>1. [i \in 1 .. k |-> "LastPiece"] = <<>>
        BY <2>2
      <3> QED BY <2>2, <3>1, <1>2, ConcatEmptySeq
    <2> QED BY <2>1, <2>2
  <1>4. /\ sq' = [sq EXCEPT ![m] = IF posts THEN Append(@, "LastPiece") ELSE @]
        /\ records' = [records EXCEPT ![m] = queued - k]
        /\ idle_buffers' = [idle_buffers EXCEPT ![m] = idle - k]
    <2> HIDE DEF posts, k
    <2>1. sq' = [sq EXCEPT ![m] = @ \o [i \in 1 .. pieces |-> "LastPiece"]]
      BY DEF WriteUntilQueueEmptyOrNoBuffer
    <2>2. sq' = [sq EXCEPT ![m] = sq[m] \o [i \in 1 .. k |-> "LastPiece"]]
      BY <2>1, <1>1 DEF Types
    <2> HIDE DEF pieces
    <2>3. sq' = [sq EXCEPT ![m] = IF posts THEN Append(@, "LastPiece") ELSE @]
      BY <2>2, <1>3 DEF Types
    <2>4. /\ records' = [records EXCEPT ![m] = queued - pieces]
          /\ idle_buffers' = [idle_buffers EXCEPT ![m] = idle - pieces]
      BY DEF WriteUntilQueueEmptyOrNoBuffer, pieces
    <2> QED BY <2>3, <2>4, <1>1
  <1>5. queued - k \in Nat /\ idle - k \in Nat /\ (queued - k = 0 \/ idle - k = 0)
    OBVIOUS
  <1>6. posts \in BOOLEAN
    OBVIOUS
  <1>7. k = Took(posts)
    BY DEF Took
  <1> HIDE DEF posts, k
  <1>8. LoopWrites(m, queued, idle, posts)
    BY <1>4, <1>5, <1>7 DEF LoopWrites
  <1> QED BY <1>6, <1>8

LEMMA LoopWritten ==
  ASSUME Types, NEW m \in Machine, NEW p \in Machine, p # m, NEW queued \in Nat, NEW idle \in Nat,
         NEW posts \in BOOLEAN, LoopWrites(m, queued, idle, posts)
  PROVE  /\ records' \in [Machine -> Nat] /\ idle_buffers' \in [Machine -> Nat]
         /\ records'[m] = queued - Took(posts) /\ records'[p] = records[p]
         /\ idle_buffers'[m] = idle - Took(posts) /\ idle_buffers'[p] = idle_buffers[p]
         /\ (\A n \in Machine : records[n] = 0 \/ idle_buffers[n] = 0)
              => \A n \in Machine : records'[n] = 0 \/ idle_buffers'[n] = 0
  <1>1. PICK r : r = queued - Took(posts)
    OBVIOUS
  <1>2. PICK i : i = idle - Took(posts)
    OBVIOUS
  <1>3. records' = [records EXCEPT ![m] = r] /\ idle_buffers' = [idle_buffers EXCEPT ![m] = i]
    BY <1>1, <1>2 DEF LoopWrites
  <1>4. r \in Nat /\ i \in Nat /\ (r = 0 \/ i = 0)
    BY <1>1, <1>2 DEF LoopWrites
  <1>5. records' \in [Machine -> Nat] /\ idle_buffers' \in [Machine -> Nat]
    BY <1>3, <1>4 DEF Types
  <1>6. \A n \in Machine : /\ records'[n] = IF n = m THEN r ELSE records[n]
                           /\ idle_buffers'[n] = IF n = m THEN i ELSE idle_buffers[n]
    BY <1>3 DEF Types
  <1> QED BY <1>1, <1>2, <1>4, <1>5, <1>6
--------------------------------------------------------------------------------
(* The accounts.                                                           *)

\* Steps that move no request and end no callback.
LEMMA AccountsKept ==
  ASSUME Accounts, UNCHANGED <<cnt_val, records, idle_buffers>>,
         \A s \in Machine : \A x : OnWay(s, x)' = OnWay(s, x),
         \A m \in Machine : Posting(m)' = Posting(m) /\ Running(m)' = Running(m)
  PROVE  Accounts'
  <1> SUFFICES ASSUME NEW m \in Machine
               PROVE  /\ Due(m)' = Due(m) /\ Unread(m)' = Unread(m) /\ Buffers(m)' = Buffers(m)
    BY DEF Accounts
  <1>1. Peer(m) \in Machine /\ Peer(Peer(m)) = m
    BY Peers
  <1>2. \A n \in {m, Peer(m)} : /\ Unread(n)' = Unread(n)
                                /\ Unreleased(n)' = Unreleased(n)
    BY <1>1 DEF Unread, Unreleased
  <1> QED BY <1>1, <1>2 DEF Due, Buffers

\* A step of m that moves a read of its memory on, a read of its peer's on, a
\* buffer on, or takes a callback off its counter, keeps the accounts.
LEMMA AccountsBalance ==
  ASSUME Types, Types', Accounts, NEW m \in Machine, NEW p, p = Peer(m),
         OnWay(m, "PleaseWrite")' = OnWay(m, "PleaseWrite"),
         Posting(p)' = Posting(p), Running(p)' = Running(p),
         records'[p] = records[p], idle_buffers'[p] = idle_buffers[p], cnt_val'[p] = cnt_val[p],
         OnWay(p, "PleaseWrite")' + records'[m] + OnWay(m, "LastPiece")'
           = OnWay(p, "PleaseWrite") + records[m] + OnWay(m, "LastPiece"),
         OnWay(p, "LastPiece")' + Posting(m)' + OnWay(m, "FreeBufferPair")'
           = OnWay(p, "LastPiece") + Posting(m) + OnWay(m, "FreeBufferPair"),
         idle_buffers'[m] + OnWay(m, "LastPiece")' + OnWay(p, "FreeBufferPair")'
           = idle_buffers[m] + OnWay(m, "LastPiece") + OnWay(p, "FreeBufferPair"),
         cnt_val'[m] - OnWay(p, "LastPiece")' - OnWay(p, "FreeBufferPair")' - Running(m)'
           = cnt_val[m] - OnWay(p, "LastPiece") - OnWay(p, "FreeBufferPair") - Running(m),
         OnWay(p, "LastPiece")' <= OnWay(p, "LastPiece"), cnt_val'[m] <= cnt_val[m]
  PROVE  Accounts'
  <1>1. p \in Machine /\ p # m /\ Peer(p) = m /\ \A n \in Machine : n = m \/ n = p
    BY Peers
  <1>2. \A x : /\ OnWay(m, x) \in Nat /\ OnWay(p, x) \in Nat
               /\ OnWay(m, x)' \in Nat /\ OnWay(p, x)' \in Nat
    BY <1>1, OnWayNat, OnWayNatNext
  <1>3. /\ \A n \in Machine : records[n] \in Nat /\ idle_buffers[n] \in Nat /\ cnt_val[n] \in Nat
        /\ \A n \in Machine : records'[n] \in Nat /\ idle_buffers'[n] \in Nat /\ cnt_val'[n] \in Nat
    <2>1. \A n \in Machine : records[n] \in Nat /\ idle_buffers[n] \in Nat /\ cnt_val[n] \in Nat
      BY DEF Types
    <2>2. \A n \in Machine : records'[n] \in Nat /\ idle_buffers'[n] \in Nat /\ cnt_val'[n] \in Nat
      BY DEF Types
    <2> QED BY <2>1, <2>2
  <1>4. \A n \in Machine : /\ Posting(n) \in Nat /\ Posting(n)' \in Nat
                           /\ Running(n) \in Nat /\ Running(n)' \in Nat
    BY DEF Posting, Running
  <1>5. Unread(m)' = Unread(m) /\ Unread(m) \in Nat
    BY <1>1, <1>2, <1>3 DEF Unread
  <1>6. /\ Unread(p)' = Unread(p) + OnWay(p, "LastPiece")' - OnWay(p, "LastPiece")
        /\ Unread(p) \in Nat /\ Unread(p)' \in Nat
    BY <1>1, <1>2, <1>3 DEF Unread
  <1>7. /\ Unreleased(m)' = Unreleased(m) + OnWay(p, "FreeBufferPair")' - OnWay(p, "FreeBufferPair")
        /\ Unreleased(m) \in Nat /\ Unreleased(m)' \in Nat
    BY <1>1, <1>2, <1>4 DEF Unreleased
  <1>8. /\ Unreleased(p)' = Unreleased(p) + OnWay(p, "LastPiece") - OnWay(p, "LastPiece")'
        /\ Unreleased(p) \in Nat /\ Unreleased(p)' \in Nat
    BY <1>1, <1>2, <1>4 DEF Unreleased
  <1>9. Buffers(m)' = Buffers(m)
    <2>1. /\ idle_buffers[m] \in Nat /\ OnWay(m, "LastPiece") \in Nat
          /\ idle_buffers'[m] \in Nat /\ OnWay(m, "LastPiece")' \in Nat
          /\ OnWay(p, "FreeBufferPair") \in Nat /\ OnWay(p, "FreeBufferPair")' \in Nat
      BY <1>2, <1>3
    <2> QED BY <2>1, <1>7 DEF Buffers
  <1>10. Buffers(p)' = Buffers(p)
    BY <1>1, <1>2, <1>3, <1>8 DEF Buffers
  <1>11. cnt_val'[m] - Due(m)' = cnt_val[m] - Due(m)
    BY <1>1, <1>2, <1>3, <1>4, <1>5, <1>6, <1>7 DEF Due
  <1>12. Due(p)' = Due(p)
    BY <1>1, <1>2, <1>4, <1>5, <1>6, <1>8 DEF Due
  <1>13. \A n \in Machine : Due(n) \in Nat /\ Due(n)' \in Nat
    BY <1>1, <1>4, <1>5, <1>6, <1>7, <1>8 DEF Due
  <1>14. \A n \in Machine : Unread(n)' <= Unread(n) /\ Unread(n)' \in Nat /\ Unread(n) \in Nat
    BY <1>1, <1>2, <1>5, <1>6
  <1>15. \A n \in Machine : Buffers(n)' = Buffers(n)
    BY <1>1, <1>9, <1>10
  <1>16. \A n \in Machine : /\ cnt_val'[n] - Due(n)' = cnt_val[n] - Due(n)
                            /\ cnt_val'[n] <= cnt_val[n]
    BY <1>1, <1>3, <1>11, <1>12, <1>13
  <1> QED
    <2> SUFFICES ASSUME NEW n \in Machine
                 PROVE  /\ cnt_val'[n] \in Due(n)' .. 2 * Iterations
                        /\ Unread(n)' <= Iterations
                        /\ Buffers(n)' <= RegisterBufferNum
                        /\ BarrierBefore => cnt_val'[n] = Due(n)' /\ Buffers(n)' = RegisterBufferNum
      BY DEF Accounts
    <2>1. /\ cnt_val[n] \in Due(n) .. 2 * Iterations /\ Unread(n) <= Iterations
          /\ Buffers(n) <= RegisterBufferNum
          /\ BarrierBefore => cnt_val[n] = Due(n) /\ Buffers(n) = RegisterBufferNum
      BY DEF Accounts
    <2>2. 2 * Iterations \in Nat
      BY ShutdownAssumption
    <2> QED BY <2>1, <2>2, <1>3, <1>13, <1>14, <1>15, <1>16, ShutdownAssumption

\* With both counters at zero, nothing is on its way and nothing is kept.
LEMMA CountersAtZero ==
  ASSUME Types, Accounts, BarrierBefore, \A n \in Machine : cnt_val[n] = 0
  PROVE  /\ \A s \in Machine, x \in Request : OnWay(s, x) = 0
         /\ \A n \in Machine : records[n] = 0 /\ idle_buffers[n] = RegisterBufferNum
  <1> SUFFICES ASSUME NEW m \in Machine
               PROVE  /\ \A x \in Request : OnWay(m, x) = 0
                      /\ records[m] = 0 /\ idle_buffers[m] = RegisterBufferNum
    OBVIOUS
  <1> DEFINE p == Peer(m)
  <1>1. p \in Machine /\ Peer(p) = m
    BY Peers
  <1>2. \A x : OnWay(m, x) \in Nat /\ OnWay(p, x) \in Nat
    BY <1>1, OnWayNat
  <1>3. \A n \in Machine : /\ records[n] \in Nat /\ idle_buffers[n] \in Nat
                           /\ Posting(n) \in Nat /\ Running(n) \in Nat
    BY DEF Types, Posting, Running
  <1>4. \A n \in {m, p} : Due(n) = 0 /\ Buffers(n) = RegisterBufferNum
    BY <1>1 DEF Accounts
  <1>5. Unread(m) \in Nat /\ Unread(p) \in Nat /\ Unreleased(m) \in Nat /\ Unreleased(p) \in Nat
    BY <1>1, <1>2, <1>3 DEF Unread, Unreleased
  <1>6. Unread(m) = 0 /\ Unread(p) = 0 /\ Unreleased(m) = 0 /\ Unreleased(p) = 0
    <2>1. Due(m) = Unread(p) + Unread(m) + Unreleased(m) + Running(m)
      BY DEF Due
    <2>2. Due(p) = Unread(m) + Unread(p) + Unreleased(p) + Running(p)
      BY <1>1 DEF Due
    <2>3. Running(m) \in Nat /\ Running(p) \in Nat
      BY <1>1, <1>3
    <2> HIDE DEF p
    <2> QED BY <2>1, <2>2, <2>3, <1>4, <1>5
  <1>7. OnWay(p, "PleaseWrite") = 0 /\ records[m] = 0 /\ OnWay(m, "LastPiece") = 0
    BY <1>2, <1>3, <1>6 DEF Unread
  <1>8. OnWay(m, "PleaseWrite") = 0
    <2>1. Unread(p) = OnWay(m, "PleaseWrite") + records[p] + OnWay(p, "LastPiece")
      BY <1>1 DEF Unread
    <2>2. records[p] \in Nat
      BY <1>1, <1>3
    <2> HIDE DEF p
    <2> QED BY <2>1, <2>2, <1>2, <1>6
  <1>9. OnWay(m, "FreeBufferPair") = 0
    BY <1>1, <1>2, <1>3, <1>6 DEF Unreleased
  <1>10. idle_buffers[m] = RegisterBufferNum
    BY <1>3, <1>4, <1>6, <1>7 DEF Buffers
  <1> QED BY <1>7, <1>8, <1>9, <1>10 DEF Request
--------------------------------------------------------------------------------
LEMMA InvInit == Init => ShutdownInv
  <1> SUFFICES ASSUME Init PROVE ShutdownInv
    OBVIOUS
  <1> DEFINE asked == [i \in 1 .. Iterations |-> "PleaseWrite"]
  <1>1. asked \in Seq(Request) /\ DOMAIN asked = 1 .. Iterations
    BY ShutdownAssumption DEF Request
  <1>2. \A m \in Machine : sq[m] = asked /\ cq[m] = <<>> /\ wc_vec[m] = <<>>
    BY DEF Init
  <1>3. Types
    BY <1>1, ShutdownAssumption DEF Init, Types, Places
  <1>4. Shape
    BY DEF Init, Shape
  <1>5. Waits
    BY DEF Init, Waits
  <1>6. \A x : Count(asked, x) = IF x = "PleaseWrite" THEN Iterations ELSE 0
    <2> TAKE x
    <2>1. Positions(asked, x) = IF x = "PleaseWrite" THEN 1 .. Iterations ELSE {}
      BY DEF Positions
    <2>2. Cardinality(1 .. Iterations) = Iterations
      BY ShutdownAssumption, FS_Interval
    <2> HIDE DEF asked
    <2> QED BY <2>1, <2>2, FS_EmptySet DEF Count
  <1> HIDE DEF asked
  <1>7. \A s \in Machine : \A x : OnWay(s, x) = IF x = "PleaseWrite" THEN Iterations ELSE 0
    BY <1>2, <1>6, Peers, CountEmpty, ShutdownAssumption DEF OnWay
  <1>8. Accounts
    <2> SUFFICES ASSUME NEW m \in Machine
                 PROVE  /\ cnt_val[m] \in Due(m) .. 2 * Iterations
                        /\ Unread(m) <= Iterations
                        /\ Buffers(m) <= RegisterBufferNum
                        /\ BarrierBefore => cnt_val[m] = Due(m) /\ Buffers(m) = RegisterBufferNum
      BY DEF Accounts
    <2>1. Peer(m) \in Machine /\ Peer(Peer(m)) = m
      BY Peers
    <2>2. \A n \in Machine : records[n] = 0 /\ Posting(n) = 0 /\ Running(n) = 0
      BY DEF Init, Posting, Running
    <2>3. Unread(m) = Iterations /\ Unread(Peer(m)) = Iterations
      BY <2>1, <2>2, <1>7, ShutdownAssumption DEF Unread
    <2>4. Unreleased(m) = 0
      BY <2>1, <2>2, <1>7 DEF Unreleased
    <2>5. cnt_val[m] = 2 * Iterations /\ idle_buffers[m] = RegisterBufferNum
      BY DEF Init
    <2>6. OnWay(m, "LastPiece") = 0
      BY <1>7
    <2> QED BY <2>2, <2>3, <2>4, <2>5, <2>6, ShutdownAssumption DEF Due, Buffers
  <1> QED BY <1>3, <1>4, <1>5, <1>8 DEF ShutdownInv

\* Whoever has a callback to run still waits for it.
LEMMA CallbackIsDue ==
  ASSUME Types, Waits, Accounts, NEW m \in Machine,
         \/ OnWay(Peer(m), "LastPiece") > 0 \/ OnWay(Peer(m), "FreeBufferPair") > 0
         \/ Running(m) > 0
  PROVE  cnt_val[m] > 0 /\ main[m] = "Wait"
  <1> DEFINE p == Peer(m)
  <1>1. p \in Machine /\ Peer(p) = m
    BY Peers
  <1>2. \A x : OnWay(m, x) \in Nat /\ OnWay(p, x) \in Nat
    BY <1>1, OnWayNat
  <1>3. \A n \in Machine : records[n] \in Nat /\ Posting(n) \in Nat /\ Running(n) \in Nat
    BY DEF Types, Posting, Running
  <1>4. Unread(m) \in Nat /\ Unread(p) \in Nat /\ Unreleased(m) \in Nat
    BY <1>1, <1>2, <1>3 DEF Unread, Unreleased
  <1>5. Unread(p) >= OnWay(p, "LastPiece")
    BY <1>1, <1>2, <1>3 DEF Unread
  <1>6. Unreleased(m) >= OnWay(p, "FreeBufferPair")
    BY <1>1, <1>2, <1>3 DEF Unreleased
  <1>7. Due(m) > 0 /\ Due(m) \in Nat
    BY <1>1, <1>2, <1>3, <1>4, <1>5, <1>6 DEF Due
  <1>8. cnt_val[m] >= Due(m) /\ cnt_val[m] \in Nat
    BY <1>7 DEF Accounts, Types
  <1> QED BY <1>7, <1>8 DEF Waits

\* Steps of the threads that touch neither requests nor callbacks.
LEMMA QuietNext ==
  ASSUME ShutdownInv, NEW m \in Machine,
         \/ TestExit(m) \/ ClearFlag(m) \/ EndOfBatch(m)
         \/ WaitUntilCntEqualZero(m) \/ LeaveBarrier(m) \/ Stop(m)
  PROVE  ShutdownInv'
  <1> USE DEF ShutdownInv
  <1>1. UNCHANGED <<cnt_val, wc_vec, records, idle_buffers, sq, cq, destroyed>>
    BY DEF TestExit, ClearFlag, EndOfBatch, WaitUntilCntEqualZero, LeaveBarrier, Stop, helper_vars
  <1>2. \/ /\ UNCHANGED main
           /\ \/ TestExit(m) \/ ClearFlag(m) \/ EndOfBatch(m)
        \/ /\ UNCHANGED poller
           /\ \/ WaitUntilCntEqualZero(m) \/ LeaveBarrier(m) \/ Stop(m)
    BY DEF TestExit, ClearFlag, EndOfBatch, WaitUntilCntEqualZero, LeaveBarrier, Stop
  <1>3. /\ poller' \in [Machine -> Places]
        /\ poll_exit_flag' \in [Machine -> BOOLEAN]
    BY DEF Places, Types, TestExit, ClearFlag, EndOfBatch, WaitUntilCntEqualZero, LeaveBarrier,
           Stop, Poller, Clear
  <1>4. main' \in [Machine -> {"Wait", "Barrier", "Stop", "Join", "Done"}]
    BY DEF Types, TestExit, ClearFlag, EndOfBatch, WaitUntilCntEqualZero, LeaveBarrier, Stop, Main
  <1>5. Types'
    BY <1>1, <1>3, <1>4 DEF Types
  <1>6. Shape'
    <2>1. \A n \in Machine : destroyed[n] => main'[n] = "Done"
      BY DEF Types, Shape, TestExit, ClearFlag, EndOfBatch, WaitUntilCntEqualZero, LeaveBarrier,
             Stop, Main
    <2>2. \A n \in Machine : destroyed[n] => poller'[n] = "Exit"
      BY DEF Types, Shape, TestExit, ClearFlag, EndOfBatch, WaitUntilCntEqualZero, LeaveBarrier,
             Stop, Poller
    <2>3. \A n \in Machine : poller'[n] \in {"Test", "Clear", "Poll", "Exit"} => wc_vec[n] = <<>>
      BY DEF Types, Shape, TestExit, ClearFlag, EndOfBatch, WaitUntilCntEqualZero, LeaveBarrier,
             Stop, Poller
    <2> QED BY <1>1, <2>1, <2>2, <2>3 DEF Shape
  <1>7. Waits'
    <2>1. \A n \in Machine : main'[n] # "Wait" => cnt_val[n] = 0
      BY <1>2 DEF Types, Waits, WaitUntilCntEqualZero, LeaveBarrier, Stop, Main, CounterReached
    <2>2. \A n \in Machine : main'[n] = "Wait" => main[n] = "Wait"
      BY <1>2 DEF Types, WaitUntilCntEqualZero, LeaveBarrier, Stop, Main
    <2>3. \A n \in Machine : /\ BarrierBefore /\ main'[n] \in {"Stop", "Join", "Done"}
                             /\ main[n] \notin {"Stop", "Join", "Done"}
                             => main[Peer(n)] # "Wait"
      BY <1>2 DEF Types, WaitUntilCntEqualZero, LeaveBarrier, Stop, Main
    <2>4. \A n \in Machine : Peer(n) \in Machine
      BY Peers
    <2> QED BY <1>1, <2>1, <2>2, <2>3, <2>4 DEF Waits
  <1>8. \A s \in Machine : \A x : OnWay(s, x)' = OnWay(s, x)
    BY <1>1 DEF OnWay
  <1>9. \A n \in Machine : Posting(n)' = Posting(n) /\ Running(n)' = Running(n)
    BY DEF Types, Posting, Running, TestExit, ClearFlag, EndOfBatch, WaitUntilCntEqualZero,
           LeaveBarrier, Stop, Main, Poller
  <1>10. Accounts'
    BY <1>1, <1>8, <1>9, AccountsKept
  <1> QED BY <1>5, <1>6, <1>7, <1>10

LEMMA PollCQNext ==
  ASSUME ShutdownInv, NEW m \in Machine, PollCQ(m)
  PROVE  ShutdownInv'
  <1> USE DEF ShutdownInv
  <1>1. /\ UNCHANGED <<main, cnt_val, poll_exit_flag, records, idle_buffers, sq, destroyed>>
        /\ poller[m] = "Poll" /\ poller' = [poller EXCEPT ![m] = "Handle"]
        /\ wc_vec' = [wc_vec EXCEPT ![m] = cq[m]] /\ cq' = [cq EXCEPT ![m] = <<>>]
    BY DEF PollCQ, Poller, helper_vars
  <1>2. Types'
    BY <1>1 DEF Types, Places
  <1>3. Shape'
    BY <1>1 DEF Types, Shape
  <1>4. Waits'
    BY <1>1 DEF Waits
  <1>5. wc_vec[m] = <<>>
    BY <1>1 DEF Shape
  <1>6. \A s \in Machine : \A x : OnWay(s, x)' = OnWay(s, x)
    BY <1>1, <1>5, PolledMoves
  <1>7. \A n \in Machine : Posting(n)' = Posting(n) /\ Running(n)' = Running(n)
    BY <1>1 DEF Types, Posting, Running
  <1>8. Accounts'
    BY <1>1, <1>6, <1>7, AccountsKept
  <1> QED BY <1>2, <1>3, <1>4, <1>8

LEMMA DeliverNext ==
  ASSUME ShutdownInv, NEW m \in Machine, Deliver(m)
  PROVE  ShutdownInv'
  <1> USE DEF ShutdownInv
  <1>1. /\ UNCHANGED <<main, cnt_val, poller, poll_exit_flag, wc_vec, records, idle_buffers, destroyed>>
        /\ sq[m] # <<>>
        /\ cq' = [cq EXCEPT ![Peer(m)] = Append(@, Head(sq[m]))] /\ sq' = [sq EXCEPT ![m] = Tail(@)]
    BY DEF Deliver, helper_vars, thread_vars
  <1>2. /\ \A s \in Machine : \A x : OnWay(s, x)' = OnWay(s, x)
        /\ sq' \in [Machine -> Seq(Request)] /\ cq' \in [Machine -> Seq(Request)]
    BY <1>1, DeliveredMoves
  <1>3. Types'
    BY <1>1, <1>2 DEF Types
  <1>4. Shape'
    BY <1>1 DEF Shape
  <1>5. Waits'
    BY <1>1 DEF Waits
  <1>6. \A n \in Machine : Posting(n)' = Posting(n) /\ Running(n)' = Running(n)
    BY <1>1 DEF Posting, Running
  <1>7. Accounts'
    BY <1>1, <1>2, <1>6, AccountsKept
  <1> QED BY <1>3, <1>4, <1>5, <1>7

LEMMA AsyncWriteNext ==
  ASSUME ShutdownInv, NEW m \in Machine, AsyncWrite(m)
  PROVE  ShutdownInv'
  <1> USE DEF ShutdownInv
  <1>p. PICK p \in Machine : p = Peer(m) /\ p # m
    BY Peers
  <1>1. /\ UNCHANGED <<main, cnt_val, poll_exit_flag, cq, destroyed>>
        /\ Handles(m, "PleaseWrite", "Handle")
        /\ WriteUntilQueueEmptyOrNoBuffer(m, records[m] + 1, idle_buffers[m])
    BY DEF AsyncWrite
  <1>2. poller[m] = "Handle" /\ UNCHANGED poller
    BY <1>1 DEF Types, Handles, Poller
  <1>3. records[m] + 1 \in Nat /\ idle_buffers[m] \in Nat /\ (records[m] + 1 <= 1 \/ idle_buffers[m] <= 1)
    <2>1. records[m] \in Nat /\ idle_buffers[m] \in Nat
      BY DEF Types
    <2>2. records[m] = 0 \/ idle_buffers[m] = 0
      BY DEF Shape
    <2> QED BY <2>1, <2>2
  <1>4. PICK posts \in BOOLEAN : LoopWrites(m, records[m] + 1, idle_buffers[m], posts)
    BY <1>1, <1>3, LoopWritesOne
  <1> DEFINE k == Took(posts)
  <1>5. k \in 0 .. 1
    BY DEF Took
  <1>6. /\ \A x \in Request \ {"PleaseWrite"} : OnWay(p, x)' = OnWay(p, x)
        /\ OnWay(p, "PleaseWrite")' = OnWay(p, "PleaseWrite") - 1
        /\ \A x \in Request \ {"LastPiece"} : OnWay(m, x)' = OnWay(m, x)
        /\ OnWay(m, "LastPiece")' = OnWay(m, "LastPiece") + k
        /\ wc_vec' \in [Machine -> Seq(Request)] /\ sq' \in [Machine -> Seq(Request)]
    <2>1. sq' = [sq EXCEPT ![m] = IF posts THEN Append(@, "LastPiece") ELSE @]
      BY <1>4 DEF LoopWrites
    <2> QED BY <2>1, <1>p, <1>1, HandledMoves DEF Request
  <1>7. /\ records' \in [Machine -> Nat] /\ idle_buffers' \in [Machine -> Nat]
        /\ records'[m] = records[m] + 1 - k /\ records'[p] = records[p]
        /\ idle_buffers'[m] = idle_buffers[m] - k /\ idle_buffers'[p] = idle_buffers[p]
    <2>1. PICK queued \in Nat, idle \in Nat : queued = records[m] + 1 /\ idle = idle_buffers[m]
      BY <1>3
    <2>2. LoopWrites(m, queued, idle, posts)
      BY <2>1, <1>4
    <2>3. /\ records' \in [Machine -> Nat] /\ idle_buffers' \in [Machine -> Nat]
          /\ records'[m] = queued - k /\ records'[p] = records[p]
          /\ idle_buffers'[m] = idle - k /\ idle_buffers'[p] = idle_buffers[p]
      BY <2>2, <1>p, LoopWritten
    <2>4. records[m] \in Nat /\ idle_buffers[m] \in Nat
      BY DEF Types
    <2> HIDE DEF k
    <2> QED BY <1>5, <2>1, <2>3, <2>4
  <1>8. Types'
    BY <1>1, <1>2, <1>6, <1>7 DEF Types
  <1>9. Shape'
    <2>1. \A n \in Machine : poller[n] \in {"Test", "Clear", "Poll", "Exit"} => wc_vec'[n] = <<>>
      BY <1>1, <1>2 DEF Types, Shape, Handles
    <2>2. \A n \in Machine : records'[n] = 0 \/ idle_buffers'[n] = 0
      BY <1>p, <1>3, <1>4, LoopWritten DEF Shape
    <2> QED BY <1>1, <1>2, <2>1, <2>2 DEF Shape
  <1>10. Waits'
    BY <1>1 DEF Waits
  <1>11. \A x : OnWay(m, x) \in Nat /\ OnWay(p, x) \in Nat
    BY OnWayNat
  <1>12. /\ Posting(p)' = Posting(p) /\ Posting(m)' = Posting(m) /\ Posting(m) \in Nat
         /\ Running(p)' = Running(p) /\ Running(m)' = Running(m) /\ Running(m) \in Nat
    BY <1>2 DEF Posting, Running
  <1>13. /\ OnWay(p, "PleaseWrite")' = OnWay(p, "PleaseWrite") - 1
         /\ OnWay(p, "LastPiece")' = OnWay(p, "LastPiece")
         /\ OnWay(p, "FreeBufferPair")' = OnWay(p, "FreeBufferPair")
    BY <1>6 DEF Request
  <1>14. /\ OnWay(m, "PleaseWrite")' = OnWay(m, "PleaseWrite")
         /\ OnWay(m, "LastPiece")' = OnWay(m, "LastPiece") + k
         /\ OnWay(m, "FreeBufferPair")' = OnWay(m, "FreeBufferPair")
    BY <1>6 DEF Request
  <1>15. Accounts'
    <2> HIDE DEF k
    <2>1. records[m] \in Nat /\ cnt_val[m] \in Nat
      BY DEF Types
    <2>2. OnWay(p, "PleaseWrite")' + records'[m] + OnWay(m, "LastPiece")'
            = OnWay(p, "PleaseWrite") + records[m] + OnWay(m, "LastPiece")
      BY <2>1, <1>5, <1>7, <1>11, <1>13, <1>14
    <2>3. idle_buffers'[m] + OnWay(m, "LastPiece")' + OnWay(p, "FreeBufferPair")'
            = idle_buffers[m] + OnWay(m, "LastPiece") + OnWay(p, "FreeBufferPair")
      BY <1>3, <1>5, <1>7, <1>11, <1>13, <1>14
    <2>4. UNCHANGED cnt_val
      BY <1>1
    <2>5. OnWay(p, "LastPiece") \in Nat
      BY <1>11
    <2> QED BY <2>1, <2>2, <2>3, <2>4, <2>5, <1>p, <1>7, <1>8, <1>12, <1>13, <1>14, AccountsBalance
  <1> QED BY <1>8, <1>9, <1>10, <1>15

LEMMA ReadDoneNext ==
  ASSUME ShutdownInv, NEW m \in Machine, ReadDone(m)
  PROVE  ShutdownInv'
  <1> USE DEF ShutdownInv
  <1>p. PICK p \in Machine : p = Peer(m) /\ p # m
    BY Peers
  <1>1. /\ UNCHANGED <<main, records, idle_buffers, poll_exit_flag, sq, cq, destroyed>>
        /\ Handles(m, "LastPiece", "PostFree")
        /\ cnt_val' = [cnt_val EXCEPT ![m] = @ - 1]
    BY DEF ReadDone, Decrease, helper_vars
  <1>2. poller[m] = "Handle" /\ poller' = [poller EXCEPT ![m] = "PostFree"]
    BY <1>1 DEF Handles, Poller
  <1>3. /\ \A x \in Request \ {"LastPiece"} : OnWay(p, x)' = OnWay(p, x)
        /\ OnWay(p, "LastPiece") > 0 /\ OnWay(p, "LastPiece")' = OnWay(p, "LastPiece") - 1
        /\ \A x \in Request \ {"LastPiece"} : OnWay(m, x)' = OnWay(m, x)
        /\ OnWay(m, "LastPiece")' = OnWay(m, "LastPiece") + Took(FALSE)
        /\ wc_vec' \in [Machine -> Seq(Request)]
    <2>1. sq' = [sq EXCEPT ![m] = IF FALSE THEN Append(@, "LastPiece") ELSE @]
      BY <1>1 DEF Types
    <2> QED BY <2>1, <1>p, <1>1, HandledMoves DEF Request
  <1>4. cnt_val[m] > 0 /\ main[m] = "Wait"
    BY <1>p, <1>3, CallbackIsDue
  <1>5. cnt_val' \in [Machine -> Nat] /\ cnt_val'[m] = cnt_val[m] - 1 /\ cnt_val'[p] = cnt_val[p]
    BY <1>p, <1>1, <1>4 DEF Types
  <1>6. Types'
    BY <1>1, <1>2, <1>3, <1>5 DEF Types, Places
  <1>7. Shape'
    BY <1>1, <1>2 DEF Types, Shape, Handles
  <1>8. Waits'
    <2>1. \A n \in Machine : main[n] # "Wait" => cnt_val'[n] = 0
      BY <1>1, <1>4 DEF Types, Waits
    <2> QED BY <2>1, <1>1 DEF Waits
  <1>9. \A x : OnWay(m, x) \in Nat /\ OnWay(p, x) \in Nat
    BY OnWayNat
  <1>10. /\ Posting(p)' = Posting(p) /\ Posting(m)' = 1 /\ Posting(m) = 0
         /\ Running(p)' = Running(p) /\ Running(m)' = 0 /\ Running(m) = 0
    BY <1>p, <1>2 DEF Types, Posting, Running
  <1>11. /\ OnWay(p, "PleaseWrite")' = OnWay(p, "PleaseWrite")
         /\ OnWay(p, "LastPiece")' = OnWay(p, "LastPiece") - 1
         /\ OnWay(p, "FreeBufferPair")' = OnWay(p, "FreeBufferPair")
    BY <1>3 DEF Request
  <1>12. /\ OnWay(m, "PleaseWrite")' = OnWay(m, "PleaseWrite")
         /\ OnWay(m, "LastPiece")' = OnWay(m, "LastPiece")
         /\ OnWay(m, "FreeBufferPair")' = OnWay(m, "FreeBufferPair")
    <2>1. OnWay(m, "LastPiece")' = OnWay(m, "LastPiece") + 0
      <3>1. Took(FALSE) = 0
        BY DEF Took
      <3>2. OnWay(m, "LastPiece")' = OnWay(m, "LastPiece") + Took(FALSE)
        BY <1>3
      <3> QED BY <3>1, <3>2
    <2>2. OnWay(m, "LastPiece")' = OnWay(m, "LastPiece")
      <3>1. OnWay(m, "LastPiece") \in Nat
        BY <1>9
      <3> QED BY <2>1, <3>1
    <2>3. \A x \in Request \ {"LastPiece"} : OnWay(m, x)' = OnWay(m, x)
      BY <1>3
    <2> QED BY <2>2, <2>3 DEF Request
  <1>13. Accounts'
    <2>1. cnt_val[m] \in Nat
      BY DEF Types
    <2>2. OnWay(p, "LastPiece")' + Posting(m)' + OnWay(m, "FreeBufferPair")'
            = OnWay(p, "LastPiece") + Posting(m) + OnWay(m, "FreeBufferPair")
      BY <1>9, <1>10, <1>11, <1>12
    <2>3. cnt_val'[m] - OnWay(p, "LastPiece")' - OnWay(p, "FreeBufferPair")' - Running(m)'
            = cnt_val[m] - OnWay(p, "LastPiece") - OnWay(p, "FreeBufferPair") - Running(m)
      BY <2>1, <1>5, <1>9, <1>10, <1>11
    <2>4. cnt_val'[m] <= cnt_val[m] /\ OnWay(p, "LastPiece")' <= OnWay(p, "LastPiece")
      BY <2>1, <1>5, <1>9, <1>11
    <2> QED BY <2>2, <2>3, <2>4, <1>p, <1>1, <1>5, <1>6, <1>10, <1>11, <1>12, AccountsBalance
  <1> QED BY <1>6, <1>7, <1>8, <1>13

LEMMA PostFreeBufferPairNext ==
  ASSUME ShutdownInv, NEW m \in Machine, PostFreeBufferPair(m)
  PROVE  ShutdownInv'
  <1> USE DEF ShutdownInv
  <1>p. PICK p \in Machine : p = Peer(m) /\ p # m
    BY Peers
  <1>1. /\ UNCHANGED <<main, cnt_val, records, idle_buffers, poll_exit_flag, wc_vec, cq, destroyed>>
        /\ poller[m] = "PostFree" /\ poller' = [poller EXCEPT ![m] = "Handle"]
        /\ sq' = [sq EXCEPT ![m] = Append(@, "FreeBufferPair")]
    BY DEF PostFreeBufferPair, Poller, helper_vars
  <1>2. /\ \A x : OnWay(p, x)' = OnWay(p, x)
        /\ \A x \in Request \ {"FreeBufferPair"} : OnWay(m, x)' = OnWay(m, x)
        /\ OnWay(m, "FreeBufferPair")' = OnWay(m, "FreeBufferPair") + 1
        /\ sq' \in [Machine -> Seq(Request)]
    BY <1>p, <1>1, PostedMoves DEF Request
  <1>3. Types'
    BY <1>1, <1>2 DEF Types, Places
  <1>4. Shape'
    BY <1>1 DEF Types, Shape
  <1>5. Waits'
    BY <1>1 DEF Waits
  <1>6. \A x : OnWay(m, x) \in Nat /\ OnWay(p, x) \in Nat
    BY OnWayNat
  <1>7. /\ Posting(p)' = Posting(p) /\ Posting(m)' = 0 /\ Posting(m) = 1
        /\ Running(p)' = Running(p) /\ Running(m)' = 0 /\ Running(m) = 0
    BY <1>p, <1>1 DEF Types, Posting, Running
  <1>8. /\ OnWay(m, "PleaseWrite")' = OnWay(m, "PleaseWrite")
        /\ OnWay(m, "LastPiece")' = OnWay(m, "LastPiece")
        /\ OnWay(m, "FreeBufferPair")' = OnWay(m, "FreeBufferPair") + 1
    BY <1>2 DEF Request
  <1>9. cnt_val[m] \in Nat
    BY DEF Types
  <1>10. OnWay(p, "LastPiece")' + Posting(m)' + OnWay(m, "FreeBufferPair")'
           = OnWay(p, "LastPiece") + Posting(m) + OnWay(m, "FreeBufferPair")
    BY <1>2, <1>6, <1>7, <1>8
  <1>11. OnWay(p, "LastPiece")' <= OnWay(p, "LastPiece") /\ cnt_val'[m] <= cnt_val[m]
    BY <1>1, <1>2, <1>6, <1>9
  <1>12. Accounts'
    BY <1>p, <1>1, <1>2, <1>3, <1>7, <1>8, <1>10, <1>11, AccountsBalance
  <1> QED BY <1>3, <1>4, <1>5, <1>12

LEMMA FreeBufferNext ==
  ASSUME ShutdownInv, NEW m \in Machine, FreeBuffer(m)
  PROVE  ShutdownInv'
  <1> USE DEF ShutdownInv
  <1>p. PICK p \in Machine : p = Peer(m) /\ p # m
    BY Peers
  <1>1. /\ UNCHANGED <<main, cnt_val, poll_exit_flag, cq, destroyed>>
        /\ Handles(m, "FreeBufferPair", "DoneCb")
        /\ WriteUntilQueueEmptyOrNoBuffer(m, records[m], idle_buffers[m] + 1)
    BY DEF FreeBuffer
  <1>2. poller[m] = "Handle" /\ poller' = [poller EXCEPT ![m] = "DoneCb"]
    BY <1>1 DEF Handles, Poller
  <1>3. records[m] \in Nat /\ idle_buffers[m] + 1 \in Nat /\ (records[m] <= 1 \/ idle_buffers[m] + 1 <= 1)
    <2>1. records[m] \in Nat /\ idle_buffers[m] \in Nat
      BY DEF Types
    <2>2. records[m] = 0 \/ idle_buffers[m] = 0
      BY DEF Shape
    <2> QED BY <2>1, <2>2
  <1>4. PICK posts \in BOOLEAN : LoopWrites(m, records[m], idle_buffers[m] + 1, posts)
    BY <1>1, <1>3, LoopWritesOne
  <1> DEFINE k == Took(posts)
  <1>5. k \in 0 .. 1
    BY DEF Took
  <1>6. /\ \A x \in Request \ {"FreeBufferPair"} : OnWay(p, x)' = OnWay(p, x)
        /\ OnWay(p, "FreeBufferPair") > 0
        /\ OnWay(p, "FreeBufferPair")' = OnWay(p, "FreeBufferPair") - 1
        /\ \A x \in Request \ {"LastPiece"} : OnWay(m, x)' = OnWay(m, x)
        /\ OnWay(m, "LastPiece")' = OnWay(m, "LastPiece") + k
        /\ wc_vec' \in [Machine -> Seq(Request)] /\ sq' \in [Machine -> Seq(Request)]
    <2>1. sq' = [sq EXCEPT ![m] = IF posts THEN Append(@, "LastPiece") ELSE @]
      BY <1>4 DEF LoopWrites
    <2> QED BY <2>1, <1>p, <1>1, HandledMoves DEF Request
  <1>8. /\ records' \in [Machine -> Nat] /\ idle_buffers' \in [Machine -> Nat]
        /\ records'[m] = records[m] - k /\ records'[p] = records[p]
        /\ idle_buffers'[m] = idle_buffers[m] + 1 - k /\ idle_buffers'[p] = idle_buffers[p]
    <2>1. PICK queued \in Nat, idle \in Nat : queued = records[m] /\ idle = idle_buffers[m] + 1
      BY <1>3
    <2>2. LoopWrites(m, queued, idle, posts)
      BY <2>1, <1>4
    <2>3. /\ records' \in [Machine -> Nat] /\ idle_buffers' \in [Machine -> Nat]
          /\ records'[m] = queued - k /\ records'[p] = records[p]
          /\ idle_buffers'[m] = idle - k /\ idle_buffers'[p] = idle_buffers[p]
      BY <2>2, <1>p, LoopWritten
    <2>4. records[m] \in Nat /\ idle_buffers[m] \in Nat
      BY DEF Types
    <2> HIDE DEF k
    <2> QED BY <1>5, <2>1, <2>3, <2>4
  <1>10. Types'
    BY <1>1, <1>2, <1>6, <1>8 DEF Types, Places
  <1>11. Shape'
    <2>1. \A n \in Machine : poller'[n] \in {"Test", "Clear", "Poll", "Exit"} => wc_vec'[n] = <<>>
      BY <1>1, <1>2 DEF Types, Shape, Handles
    <2>2. \A n \in Machine : records'[n] = 0 \/ idle_buffers'[n] = 0
      BY <1>p, <1>3, <1>4, LoopWritten DEF Shape
    <2>3. \A n \in Machine : destroyed[n] => main[n] = "Done" /\ poller'[n] = "Exit"
      BY <1>2 DEF Types, Shape
    <2> QED BY <1>1, <2>1, <2>2, <2>3 DEF Shape
  <1>12. Waits'
    BY <1>1 DEF Waits
  <1>13. \A x : OnWay(m, x) \in Nat /\ OnWay(p, x) \in Nat
    BY OnWayNat
  <1>14. /\ Posting(p)' = Posting(p) /\ Posting(m)' = 0 /\ Posting(m) = 0
         /\ Running(p)' = Running(p) /\ Running(m)' = 1 /\ Running(m) = 0
    BY <1>p, <1>2 DEF Types, Posting, Running
  <1>15. /\ OnWay(p, "PleaseWrite")' = OnWay(p, "PleaseWrite")
         /\ OnWay(p, "LastPiece")' = OnWay(p, "LastPiece")
         /\ OnWay(p, "FreeBufferPair")' = OnWay(p, "FreeBufferPair") - 1
    BY <1>6 DEF Request
  <1>16. /\ OnWay(m, "PleaseWrite")' = OnWay(m, "PleaseWrite")
         /\ OnWay(m, "LastPiece")' = OnWay(m, "LastPiece") + k
         /\ OnWay(m, "FreeBufferPair")' = OnWay(m, "FreeBufferPair")
    BY <1>6 DEF Request
  <1>17. Accounts'
    <2> HIDE DEF k
    <2>1. records[m] \in Nat /\ idle_buffers[m] \in Nat /\ cnt_val[m] \in Nat
      BY DEF Types
    <2>2. OnWay(p, "PleaseWrite")' + records'[m] + OnWay(m, "LastPiece")'
            = OnWay(p, "PleaseWrite") + records[m] + OnWay(m, "LastPiece")
      BY <2>1, <1>5, <1>8, <1>13, <1>15, <1>16
    <2>3. idle_buffers'[m] + OnWay(m, "LastPiece")' + OnWay(p, "FreeBufferPair")'
            = idle_buffers[m] + OnWay(m, "LastPiece") + OnWay(p, "FreeBufferPair")
      BY <2>1, <1>5, <1>8, <1>13, <1>15, <1>16
    <2>4. cnt_val'[m] - OnWay(p, "LastPiece")' - OnWay(p, "FreeBufferPair")' - Running(m)'
            = cnt_val[m] - OnWay(p, "LastPiece") - OnWay(p, "FreeBufferPair") - Running(m)
      BY <2>1, <1>1, <1>13, <1>14, <1>15
    <2>5. /\ OnWay(p, "LastPiece")' + Posting(m)' + OnWay(m, "FreeBufferPair")'
            = OnWay(p, "LastPiece") + Posting(m) + OnWay(m, "FreeBufferPair")
          /\ cnt_val'[m] <= cnt_val[m] /\ cnt_val'[p] = cnt_val[p]
          /\ OnWay(p, "LastPiece")' <= OnWay(p, "LastPiece")
      BY <2>1, <1>1, <1>13, <1>14, <1>15, <1>16
    <2> QED BY <2>2, <2>3, <2>4, <2>5, <1>p, <1>8, <1>10, <1>14, <1>15, <1>16, AccountsBalance
  <1> QED BY <1>10, <1>11, <1>12, <1>17

LEMMA ReadDoneCbNext ==
  ASSUME ShutdownInv, NEW m \in Machine, ReadDoneCb(m)
  PROVE  ShutdownInv'
  <1> USE DEF ShutdownInv
  <1>p. PICK p \in Machine : p = Peer(m) /\ p # m
    BY Peers
  <1>1. /\ UNCHANGED <<main, records, idle_buffers, poll_exit_flag, wc_vec, sq, cq, destroyed>>
        /\ poller[m] = "DoneCb" /\ poller' = [poller EXCEPT ![m] = "Handle"]
        /\ cnt_val' = [cnt_val EXCEPT ![m] = @ - 1]
    BY DEF ReadDoneCb, Poller, Decrease, helper_vars
  <1>2. /\ Posting(p)' = Posting(p) /\ Posting(m)' = Posting(m)
        /\ Running(p)' = Running(p) /\ Running(m)' = 0 /\ Running(m) = 1
    BY <1>p, <1>1 DEF Types, Posting, Running
  <1>3. cnt_val[m] > 0 /\ main[m] = "Wait"
    BY <1>2, CallbackIsDue
  <1>4. cnt_val' \in [Machine -> Nat] /\ cnt_val'[m] = cnt_val[m] - 1 /\ cnt_val'[p] = cnt_val[p]
    BY <1>p, <1>1, <1>3 DEF Types
  <1>5. Types'
    BY <1>1, <1>4 DEF Types, Places
  <1>6. Shape'
    BY <1>1 DEF Types, Shape
  <1>7. Waits'
    <2>1. \A n \in Machine : main[n] # "Wait" => cnt_val'[n] = 0
      BY <1>1, <1>3 DEF Types, Waits
    <2> QED BY <2>1, <1>1 DEF Waits
  <1>8. \A s \in Machine : \A x : OnWay(s, x)' = OnWay(s, x)
    BY <1>1 DEF OnWay
  <1>9. \A x : OnWay(m, x) \in Nat /\ OnWay(p, x) \in Nat
    BY OnWayNat
  <1>10. Accounts'
    <2>1. cnt_val[m] \in Nat
      BY DEF Types
    <2>2. cnt_val'[m] - OnWay(p, "LastPiece")' - OnWay(p, "FreeBufferPair")' - Running(m)'
            = cnt_val[m] - OnWay(p, "LastPiece") - OnWay(p, "FreeBufferPair") - Running(m)
      BY <2>1, <1>2, <1>4, <1>8, <1>9
    <2>3. cnt_val'[m] <= cnt_val[m] /\ OnWay(p, "LastPiece")' <= OnWay(p, "LastPiece")
      BY <2>1, <1>4, <1>8, <1>9
    <2> QED BY <2>2, <2>3, <1>p, <1>1, <1>2, <1>4, <1>5, <1>8, AccountsBalance
  <1> QED BY <1>5, <1>6, <1>7, <1>10

LEMMA TearDownNext ==
  ASSUME ShutdownInv, NEW m \in Machine, TearDown(m)
  PROVE  ShutdownInv'
  <1> USE DEF ShutdownInv
  <1>1. /\ UNCHANGED <<cnt_val, records, idle_buffers, poller, poll_exit_flag, wc_vec>>
        /\ poller[m] = "Exit" /\ main[m] = "Join" /\ main' = [main EXCEPT ![m] = "Done"]
        /\ destroyed' = [destroyed EXCEPT ![m] = TRUE]
        /\ sq' = [sq EXCEPT ![m] = <<>>] /\ cq' = [cq EXCEPT ![m] = <<>>]
    BY DEF TearDown, Joined, Main, DestroyQP, helper_vars
  <1>2. Types'
    <2>1. <<>> \in Seq(Request)
      OBVIOUS
    <2>2. sq' \in [Machine -> Seq(Request)] /\ cq' \in [Machine -> Seq(Request)]
      BY <1>1, <2>1 DEF Types
    <2> QED BY <1>1, <2>2 DEF Types
  <1>3. Shape'
    BY <1>1 DEF Types, Shape
  <1>4. Waits'
    <2>1. \A n \in Machine : main'[n] # "Wait" => cnt_val[n] = 0
      BY <1>1 DEF Types, Waits
    <2>2. \A n \in Machine : main'[n] = "Wait" => main[n] = "Wait"
      BY <1>1 DEF Types
    <2>3. \A n \in Machine : BarrierBefore /\ main'[n] \in {"Stop", "Join", "Done"}
                             => main[Peer(n)] # "Wait"
      BY <1>1 DEF Types, Waits
    <2>4. \A n \in Machine : Peer(n) \in Machine
      BY Peers
    <2> QED BY <1>1, <2>1, <2>2, <2>3, <2>4 DEF Waits
  <1>5. \A s \in Machine : \A x : OnWay(s, x)' \in 0 .. OnWay(s, x) /\ OnWay(s, x) \in Nat
    BY <1>1, DroppedMoves, OnWayNat
  <1>6. \A n \in Machine : /\ Posting(n)' = Posting(n) /\ Posting(n) \in Nat
                           /\ Running(n)' = Running(n) /\ Running(n) \in Nat
    BY <1>1 DEF Posting, Running
  <1>7. \A n \in Machine : /\ records'[n] = records[n] /\ records[n] \in Nat
                           /\ idle_buffers'[n] = idle_buffers[n] /\ idle_buffers[n] \in Nat
    BY <1>1 DEF Types
  <1>8. \A n \in Machine : /\ Unread(n)' <= Unread(n) /\ Unread(n) \in Nat /\ Unread(n)' \in Nat
                           /\ Unreleased(n)' <= Unreleased(n)
                           /\ Unreleased(n) \in Nat /\ Unreleased(n)' \in Nat
    <2> TAKE n \in Machine
    <2>1. Peer(n) \in Machine
      BY Peers
    <2> QED BY <2>1, <1>5, <1>6, <1>7 DEF Unread, Unreleased
  <1>9. \A n \in Machine : Due(n)' \in 0 .. Due(n) /\ Due(n) \in Nat
    <2> TAKE n \in Machine
    <2>1. Peer(n) \in Machine
      BY Peers
    <2> QED BY <2>1, <1>6, <1>8 DEF Due
  <1>10. \A n \in Machine : Buffers(n)' \in 0 .. Buffers(n) /\ Buffers(n) \in Nat
    BY <1>5, <1>7, <1>8 DEF Buffers
  <1>11. ASSUME BarrierBefore, NEW n \in Machine PROVE Due(n)' = Due(n) /\ Buffers(n)' = Buffers(n)
    <2>1. \A q \in Machine : cnt_val[q] = 0
      BY <1>1, <1>11, Peers DEF Waits
    <2>2. \A s \in Machine, x \in Request : OnWay(s, x) = 0
      BY <1>11, <2>1, CountersAtZero
    <2>3. \A s \in Machine, x \in Request : OnWay(s, x)' = OnWay(s, x)
      BY <2>2, <1>5
    <2>4. \A q \in Machine : Peer(q) \in Machine
      BY Peers
    <2>5. \A q \in Machine : Unread(q)' = Unread(q) /\ Unreleased(q)' = Unreleased(q)
      BY <1>6, <1>7, <2>3, <2>4 DEF Unread, Unreleased, Request
    <2> QED BY <1>6, <1>7, <2>3, <2>4, <2>5 DEF Due, Buffers, Request
  <1>12. Accounts'
    <2> SUFFICES ASSUME NEW n \in Machine
                 PROVE  /\ cnt_val'[n] \in Due(n)' .. 2 * Iterations
                        /\ Unread(n)' <= Iterations
                        /\ Buffers(n)' <= RegisterBufferNum
                        /\ BarrierBefore => cnt_val'[n] = Due(n)' /\ Buffers(n)' = RegisterBufferNum
      BY DEF Accounts
    <2>1. /\ cnt_val[n] \in Due(n) .. 2 * Iterations /\ Unread(n) <= Iterations
          /\ Buffers(n) <= RegisterBufferNum
          /\ BarrierBefore => cnt_val[n] = Due(n) /\ Buffers(n) = RegisterBufferNum
      BY DEF Accounts
    <2>2. cnt_val'[n] = cnt_val[n]
      BY <1>1
    <2>3. 2 * Iterations \in Nat
      BY ShutdownAssumption
    <2>4. /\ Due(n)' \in 0 .. Due(n) /\ Due(n) \in Nat
          /\ Buffers(n)' \in 0 .. Buffers(n) /\ Buffers(n) \in Nat
          /\ Unread(n)' <= Unread(n) /\ Unread(n) \in Nat /\ Unread(n)' \in Nat
      BY <1>8, <1>9, <1>10
    <2>5. BarrierBefore => Due(n)' = Due(n) /\ Buffers(n)' = Buffers(n)
      BY <1>11
    <2> QED BY <2>1, <2>2, <2>3, <2>4, <2>5, ShutdownAssumption
  <1> QED BY <1>2, <1>3, <1>4, <1>12
--------------------------------------------------------------------------------
LEMMA InvNext == ShutdownInv /\ [Next]_vars => ShutdownInv'
  <1> SUFFICES ASSUME ShutdownInv, [Next]_vars PROVE ShutdownInv'
    OBVIOUS
  <1>1. CASE UNCHANGED vars
    <2>1. UNCHANGED <<main, cnt_val, poller, poll_exit_flag, wc_vec, records, idle_buffers, sq, cq,
                      destroyed>>
      BY <1>1 DEF vars, thread_vars, helper_vars
    <2>2. Types' /\ Shape' /\ Waits'
      BY <2>1 DEF ShutdownInv, Types, Shape, Waits
    <2>3. \A s \in Machine : \A x : OnWay(s, x)' = OnWay(s, x)
      BY <2>1 DEF OnWay
    <2>4. \A n \in Machine : Posting(n)' = Posting(n) /\ Running(n)' = Running(n)
      BY <2>1 DEF Posting, Running
    <2>5. Accounts'
      BY <2>1, <2>3, <2>4, AccountsKept DEF ShutdownInv
    <2> QED BY <2>2, <2>5 DEF ShutdownInv
  <1>2. ASSUME NEW m \in Machine, PollerStep(m) PROVE ShutdownInv'
    <2>1. CASE TestExit(m) \/ ClearFlag(m) \/ EndOfBatch(m)
      BY <2>1, QuietNext
    <2>2. CASE PollCQ(m)
      BY <2>2, PollCQNext
    <2>3. CASE AsyncWrite(m)
      BY <2>3, AsyncWriteNext
    <2>4. CASE ReadDone(m)
      BY <2>4, ReadDoneNext
    <2>5. CASE PostFreeBufferPair(m)
      BY <2>5, PostFreeBufferPairNext
    <2>6. CASE FreeBuffer(m)
      BY <2>6, FreeBufferNext
    <2>7. CASE ReadDoneCb(m)
      BY <2>7, ReadDoneCbNext
    <2> QED BY <1>2, <2>1, <2>2, <2>3, <2>4, <2>5, <2>6, <2>7 DEF PollerStep
  <1>3. ASSUME NEW m \in Machine, MainStep(m) PROVE ShutdownInv'
    <2>1. CASE WaitUntilCntEqualZero(m) \/ LeaveBarrier(m) \/ Stop(m)
      BY <2>1, QuietNext
    <2>2. CASE TearDown(m)
      BY <2>2, TearDownNext
    <2> QED BY <1>3, <2>1, <2>2 DEF MainStep
  <1>4. ASSUME NEW m \in Machine, Deliver(m) PROVE ShutdownInv'
    BY <1>4, DeliverNext
  <1> QED BY <1>1, <1>2, <1>3, <1>4 DEF Next

LEMMA Invariance == Spec => []ShutdownInv
  <1> QED BY InvInit, InvNext, PTL DEF Spec
--------------------------------------------------------------------------------
LEMMA InvType == ShutdownInv => TypeOK
  <1> SUFFICES ASSUME ShutdownInv PROVE TypeOK
    OBVIOUS
  <1> USE DEF ShutdownInv
  <1>1. ASSUME NEW m \in Machine
        PROVE  /\ cnt_val[m] \in 0 .. 2 * Iterations /\ records[m] \in 0 .. Iterations
               /\ idle_buffers[m] \in 0 .. RegisterBufferNum
    <2>1. Peer(m) \in Machine /\ \A n \in Machine : \A x : OnWay(n, x) \in Nat
      BY Peers, OnWayNat
    <2>2. /\ OnWay(m, "LastPiece") \in Nat /\ OnWay(Peer(m), "PleaseWrite") \in Nat
          /\ OnWay(Peer(m), "FreeBufferPair") \in Nat /\ Posting(Peer(m)) \in Nat
      BY <2>1 DEF Posting
    <2>3. cnt_val[m] \in Nat /\ records[m] \in Nat /\ idle_buffers[m] \in Nat
      BY DEF Types
    <2>4. cnt_val[m] <= 2 * Iterations /\ Unread(m) <= Iterations /\ Buffers(m) <= RegisterBufferNum
      BY <2>3 DEF Accounts
    <2>5. Iterations \in Nat /\ RegisterBufferNum \in Nat /\ 2 * Iterations \in Nat
      BY ShutdownAssumption
    <2>6. records[m] <= Unread(m) /\ Unread(m) \in Nat
      BY <2>2, <2>3 DEF Unread
    <2>7. idle_buffers[m] <= Buffers(m) /\ Buffers(m) \in Nat
      BY <2>2, <2>3 DEF Buffers, Unreleased
    <2> QED BY <2>3, <2>4, <2>5, <2>6, <2>7
  <1>2. /\ cnt_val \in [Machine -> 0 .. 2 * Iterations] /\ records \in [Machine -> 0 .. Iterations]
        /\ idle_buffers \in [Machine -> 0 .. RegisterBufferNum]
    BY <1>1 DEF Types
  <1> QED BY <1>2 DEF TypeOK, Types, Places

\* Every variable keeps its type.  In particular a BlockingCounter is never
\* decreased below zero, so its CHECK never fails, and the write helper's queue
\* of idle buffers never grows past the buffers there are.
THEOREM TypeCorrect == Spec => []TypeOK
  <1> QED BY Invariance, InvType, PTL

LEMMA NothingOnWay ==
  ASSUME Types, \A s \in Machine, x \in Request : OnWay(s, x) = 0, NEW n \in Machine
  PROVE  sq[n] = <<>> /\ cq[n] = <<>> /\ wc_vec[n] = <<>>
  <1>1. PICK q \in Machine : n = Peer(q)
    BY Peers
  <1>2. sq[n] \in Seq(Request) /\ cq[n] \in Seq(Request) /\ wc_vec[n] \in Seq(Request)
    BY DEF Types
  <1>3. ASSUME NEW x \in Request
        PROVE  Count(sq[n], x) = 0 /\ Count(cq[n], x) = 0 /\ Count(wc_vec[n], x) = 0
    <2>1. Peer(n) \in Machine
      BY Peers
    <2>2. \A s \in Machine : /\ Count(sq[s], x) \in Nat /\ Count(cq[s], x) \in Nat
                            /\ Count(wc_vec[s], x) \in Nat
      BY CountNat DEF Types
    <2>3. Count(sq[n], x) + Count(cq[Peer(n)], x) + Count(wc_vec[Peer(n)], x) = 0
      BY DEF OnWay
    <2>4. Count(sq[q], x) + Count(cq[n], x) + Count(wc_vec[n], x) = 0
      BY <1>1 DEF OnWay
    <2>5. /\ Count(sq[n], x) \in Nat /\ Count(cq[Peer(n)], x) \in Nat
          /\ Count(wc_vec[Peer(n)], x) \in Nat
      BY <2>1, <2>2
    <2>6. /\ Count(sq[q], x) \in Nat /\ Count(cq[n], x) \in Nat /\ Count(wc_vec[n], x) \in Nat
      BY <2>2
    <2>7. Count(sq[n], x) = 0
      BY <2>3, <2>5
    <2>8. Count(cq[n], x) = 0 /\ Count(wc_vec[n], x) = 0
      BY <2>4, <2>6
    <2> QED BY <2>7, <2>8
  <1> QED BY <1>2, <1>3, CountNone

\* With the barrier before Finalize, neither a request nor a completion nor a
\* record is lost: when a queue pair is destroyed, every callback of both
\* machines has run.  Without it the run finalize_alone shows the loss.
THEOREM NothingIsLost == ASSUME BarrierBefore PROVE Spec => []NothingLost
  <1>1. ASSUME ShutdownInv PROVE NothingLost
    <2> SUFFICES ASSUME NEW m \in Machine, destroyed[m]
                 PROVE  /\ \A p \in Machine : /\ sq[p] = <<>> /\ cq[p] = <<>> /\ wc_vec[p] = <<>>
                                               /\ cnt_val[p] = 0
                        /\ records[m] = 0 /\ idle_buffers[m] = RegisterBufferNum
      BY DEF NothingLost
    <2>1. Types /\ Shape /\ Waits /\ Accounts
      BY <1>1 DEF ShutdownInv
    <2>2. main[m] = "Done"
      BY <2>1 DEF Shape
    <2>3. main[Peer(m)] # "Wait"
      BY <2>1, <2>2 DEF Waits
    <2>4. \A n \in Machine : cnt_val[n] = 0
      BY <2>1, <2>2, <2>3, Peers DEF Waits
    <2>5. /\ \A s \in Machine, x \in Request : OnWay(s, x) = 0
          /\ records[m] = 0 /\ idle_buffers[m] = RegisterBufferNum
      BY <2>1, <2>4, CountersAtZero
    <2>6. \A p \in Machine : sq[p] = <<>> /\ cq[p] = <<>> /\ wc_vec[p] = <<>>
      BY <2>1, <2>5, NothingOnWay
    <2> QED BY <2>4, <2>5, <2>6
  <1> QED BY <1>1, Invariance, PTL
--------------------------------------------------------------------------------
(* The flag that both Stop and PollCQ test and set.                        *)

\* The flag is set while the poller is between its test and its clear, and for
\* good once Stop has got it; only then does the poller's loop end.
Flag == \A m \in Machine :
          IF main[m] \in {"Join", "Done"}
            THEN poll_exit_flag[m] /\ poller[m] # "Clear"
            ELSE poller[m] # "Exit" /\ (poll_exit_flag[m] <=> poller[m] = "Clear")

LEMMA FlagInit == Init => Flag
  BY DEF Init, Flag

\* A step of one machine leaves the flag of the other alone.
LEMMA FlagAtOne ==
  ASSUME Types, Flag, NEW m \in Machine, NEW mains, NEW pollers, NEW flag,
         main' = [main EXCEPT ![m] = mains], poller' = [poller EXCEPT ![m] = pollers],
         poll_exit_flag' = [poll_exit_flag EXCEPT ![m] = flag],
         IF mains \in {"Join", "Done"} THEN flag /\ pollers # "Clear"
                                       ELSE pollers # "Exit" /\ (flag <=> pollers = "Clear")
  PROVE  Flag'
  <1> SUFFICES ASSUME NEW n \in Machine
               PROVE  IF main'[n] \in {"Join", "Done"}
                        THEN poll_exit_flag'[n] /\ poller'[n] # "Clear"
                        ELSE poller'[n] # "Exit" /\ (poll_exit_flag'[n] <=> poller'[n] = "Clear")
    BY DEF Flag
  <1>1. CASE n = m
    <2>1. main'[m] = mains /\ poller'[m] = pollers /\ poll_exit_flag'[m] = flag
      BY DEF Types
    <2> QED BY <1>1, <2>1
  <1>2. CASE n # m
    <2>1. /\ main'[n] = main[n] /\ poller'[n] = poller[n]
          /\ poll_exit_flag'[n] = poll_exit_flag[n]
      BY <1>2 DEF Types
    <2> QED BY <2>1 DEF Flag
  <1> QED BY <1>1, <1>2

LEMMA FlagNext == Types /\ Flag /\ [Next]_vars => Flag'
  <1> SUFFICES ASSUME Types, Flag, [Next]_vars PROVE Flag'
    OBVIOUS
  <1> DEFINE Kept == UNCHANGED <<main, poller, poll_exit_flag>>
             At(m) == IF main[m] \in {"Join", "Done"}
                        THEN poll_exit_flag[m] /\ poller[m] # "Clear"
                        ELSE poller[m] # "Exit" /\ (poll_exit_flag[m] <=> poller[m] = "Clear")
  <1>1. ASSUME Kept PROVE Flag'
    BY <1>1 DEF Flag
  <1>2. ASSUME NEW m \in Machine
        PROVE  /\ At(m)
               /\ main = [main EXCEPT ![m] = main[m]]
               /\ poller = [poller EXCEPT ![m] = poller[m]]
               /\ poll_exit_flag = [poll_exit_flag EXCEPT ![m] = poll_exit_flag[m]]
    BY DEF Flag, Types
  <1>3. ASSUME NEW m \in Machine, NEW from, NEW next, Poller(m, from, next), UNCHANGED main,
               UNCHANGED poll_exit_flag, from \notin {"Clear", "Exit"}, next \notin {"Clear", "Exit"}
        PROVE  Flag'
    <2>1. /\ main' = [main EXCEPT ![m] = main[m]]
          /\ poller' = [poller EXCEPT ![m] = next]
          /\ poll_exit_flag' = [poll_exit_flag EXCEPT ![m] = poll_exit_flag[m]]
      BY <1>2, <1>3 DEF Poller
    <2>2. poller[m] # "Clear" /\ At(m)
      BY <1>2, <1>3 DEF Poller
    <2>3. IF main[m] \in {"Join", "Done"}
            THEN poll_exit_flag[m] /\ next # "Clear"
            ELSE next # "Exit" /\ (poll_exit_flag[m] <=> next = "Clear")
      BY <1>3, <2>2
    <2> HIDE DEF At
    <2> QED BY <2>1, <2>3, FlagAtOne
  <1>4. ASSUME NEW m \in Machine, NEW from, NEW next, Main(m, from, next), UNCHANGED poller,
               UNCHANGED poll_exit_flag,
               from \in {"Join", "Done"} <=> next \in {"Join", "Done"}
        PROVE  Flag'
    <2>1. /\ main' = [main EXCEPT ![m] = next]
          /\ poller' = [poller EXCEPT ![m] = poller[m]]
          /\ poll_exit_flag' = [poll_exit_flag EXCEPT ![m] = poll_exit_flag[m]]
      BY <1>2, <1>4 DEF Main
    <2>2. main[m] = from /\ At(m)
      BY <1>2, <1>4 DEF Main
    <2>3. IF next \in {"Join", "Done"}
            THEN poll_exit_flag[m] /\ poller[m] # "Clear"
            ELSE poller[m] # "Exit" /\ (poll_exit_flag[m] <=> poller[m] = "Clear")
      BY <1>4, <2>2
    <2> HIDE DEF At
    <2> QED BY <2>1, <2>3, FlagAtOne
  <1>5. ASSUME NEW m \in Machine, PollerStep(m) PROVE Flag'
    <2>1. CASE TestExit(m)
      <3>1. /\ main' = [main EXCEPT ![m] = main[m]]
            /\ poll_exit_flag' = [poll_exit_flag EXCEPT ![m] = TRUE]
        BY <1>2, <2>1 DEF TestExit
      <3>2. CASE poll_exit_flag[m] /\ Poller(m, "Test", "Exit")
        <4>1. main[m] \in {"Join", "Done"}
          BY <1>2, <3>2 DEF Poller
        <4> QED BY <3>1, <3>2, <4>1, FlagAtOne DEF Poller
      <3>3. CASE ~poll_exit_flag[m] /\ Poller(m, "Test", "Clear")
        <4>1. main[m] \notin {"Join", "Done"}
          BY <1>2, <3>3
        <4> QED BY <3>1, <3>3, <4>1, FlagAtOne DEF Poller
      <3> QED BY <2>1, <3>2, <3>3 DEF TestExit
    <2>2. CASE ClearFlag(m)
      <3>1. /\ main' = [main EXCEPT ![m] = main[m]]
            /\ poller' = [poller EXCEPT ![m] = "Poll"]
            /\ poll_exit_flag' = [poll_exit_flag EXCEPT ![m] = FALSE]
        BY <1>2, <2>2 DEF ClearFlag, Clear, Poller
      <3>2. main[m] \notin {"Join", "Done"}
        BY <1>2, <2>2 DEF ClearFlag, Poller
      <3> QED BY <3>1, <3>2, FlagAtOne
    <2>3. CASE PollCQ(m)
      BY <2>3, <1>3 DEF PollCQ
    <2>4. CASE AsyncWrite(m)
      BY <2>4, <1>3 DEF AsyncWrite, Handles
    <2>5. CASE ReadDone(m)
      BY <2>5, <1>3 DEF ReadDone, Handles
    <2>6. CASE PostFreeBufferPair(m)
      BY <2>6, <1>3 DEF PostFreeBufferPair
    <2>7. CASE FreeBuffer(m)
      BY <2>7, <1>3 DEF FreeBuffer, Handles
    <2>8. CASE EndOfBatch(m)
      BY <2>8, <1>3 DEF EndOfBatch
    <2>9. CASE ReadDoneCb(m)
      BY <2>9, <1>3 DEF ReadDoneCb
    <2> QED BY <1>5, <2>1, <2>2, <2>3, <2>4, <2>5, <2>6, <2>7, <2>8, <2>9 DEF PollerStep
  <1>6. ASSUME NEW m \in Machine, MainStep(m) PROVE Flag'
    <2>1. CASE WaitUntilCntEqualZero(m)
      BY <2>1, <1>4 DEF WaitUntilCntEqualZero
    <2>2. CASE LeaveBarrier(m)
      BY <2>2, <1>4 DEF LeaveBarrier
    <2>3. CASE Stop(m)
      <3>1. /\ main' = [main EXCEPT ![m] = "Join"]
            /\ poller' = [poller EXCEPT ![m] = poller[m]]
            /\ poll_exit_flag' = [poll_exit_flag EXCEPT ![m] = TRUE]
        BY <1>2, <2>3 DEF Stop, Main
      <3>2. poller[m] # "Clear"
        BY <1>2, <2>3 DEF Stop, Main
      <3> QED BY <3>1, <3>2, FlagAtOne
    <2>4. CASE TearDown(m)
      BY <2>4, <1>4 DEF TearDown
    <2> QED BY <1>6, <2>1, <2>2, <2>3, <2>4 DEF MainStep
  <1>7. ASSUME NEW m \in Machine, Deliver(m) PROVE Flag'
    BY <1>1, <1>7 DEF Deliver, thread_vars
  <1>8. CASE UNCHANGED vars
    BY <1>1, <1>8 DEF vars, thread_vars
  <1> QED BY <1>5, <1>6, <1>7, <1>8 DEF Next

LEMMA FlagInvariance == Spec => []Flag
  <1>1. ShutdownInv => Types
    BY DEF ShutdownInv
  <1> QED BY <1>1, FlagInit, FlagNext, Invariance, PTL DEF Spec

\* Stop cannot be missed: the poller never clears the flag that Stop has set,
\* and nothing but Stop ends the poller's loop, wherever the two threads are
\* when they meet.  As Stop joins the poller, Finalize destroys no queue pair
\* that it still uses, with or without the barrier.
THEOREM StopIsSeen == Spec => []StopNotMissed
  <1>1. ShutdownInv /\ Flag => StopNotMissed
    BY DEF ShutdownInv, Shape, Flag, StopNotMissed
  <1> QED BY <1>1, Invariance, FlagInvariance, PTL
--------------------------------------------------------------------------------
(* Nobody waits for a callback that is not coming.                         *)

\* A machine that has not passed the barrier has its poller, and its queue
\* pair; with the barrier, so has its peer.
LEMMA StillRunning ==
  ASSUME ShutdownInv, Flag, BarrierBefore, NEW m \in Machine, cnt_val[m] > 0, NEW n \in Machine
  PROVE  poller[n] # "Exit" /\ ~destroyed[n]
  <1>1. main[m] = "Wait"
    <2>1. cnt_val[m] # 0
      BY DEF ShutdownInv, Types
    <2> QED BY <2>1 DEF ShutdownInv, Waits
  <1>2. n = m \/ m = Peer(n)
    BY Peers
  <1>3. main[n] \notin {"Stop", "Join", "Done"}
    BY <1>1, <1>2 DEF ShutdownInv, Waits
  <1> QED BY <1>3 DEF ShutdownInv, Shape, Flag

\* With empty queues nothing is on its way.
LEMMA NoneOnWay ==
  ASSUME \A n \in Machine : sq[n] = <<>> /\ cq[n] = <<>> /\ wc_vec[n] = <<>>, NEW s \in Machine
  PROVE  \A x : OnWay(s, x) = 0
  <1>1. Peer(s) \in Machine
    BY Peers
  <1> QED BY <1>1, CountEmpty DEF OnWay

\* When nothing moves any more, the accounts are those of the counters and the
\* records alone; all buffers are idle, so no record waits for one.
LEMMA NothingLeft ==
  ASSUME ShutdownInv, BarrierBefore,
         \A n \in Machine : sq[n] = <<>> /\ cq[n] = <<>> /\ wc_vec[n] = <<>>,
         \A n \in Machine : poller[n] \notin {"PostFree", "DoneCb"},
         NEW m \in Machine
  PROVE  cnt_val[m] = 0
  <1>1. \A s \in Machine : \A x : OnWay(s, x) = 0
    BY NoneOnWay
  <1>2. \A n \in Machine : Posting(n) = 0 /\ Running(n) = 0
    BY DEF Posting, Running
  <1>3. \A n \in Machine : records[n] \in Nat /\ idle_buffers[n] \in Nat
    BY DEF ShutdownInv, Types
  <1>4. \A n \in Machine : Peer(n) \in Machine
    BY Peers
  <1>5. \A n \in Machine : Unreleased(n) = 0
    BY <1>1, <1>2, <1>4 DEF Unreleased
  <1>6. \A n \in Machine : Unread(n) = records[n]
    BY <1>1, <1>3, <1>4 DEF Unread
  <1>7. \A n \in Machine : Buffers(n) = idle_buffers[n]
    BY <1>1, <1>3, <1>5 DEF Buffers
  <1>8. \A n \in Machine : idle_buffers[n] # 0
    BY <1>7, ShutdownAssumption DEF ShutdownInv, Accounts
  <1>9. \A n \in Machine : records[n] = 0
    BY <1>8 DEF ShutdownInv, Shape
  <1>10. Due(m) = 0
    BY <1>2, <1>4, <1>5, <1>6, <1>9 DEF Due
  <1> QED BY <1>10 DEF ShutdownInv, Accounts

\* With the barrier, a main thread that waits for its counter waits for a
\* callback that is coming: a missing callback has a request on its way, or a
\* record that waits for a buffer which itself is on its way back; and both
\* pollers and both queue pairs are there to the end.
THEOREM NeverStuck == ASSUME BarrierBefore PROVE Spec => []NothingStuck
  <1>1. ASSUME ShutdownInv, Flag PROVE NothingStuck
    <2> SUFFICES ASSUME NEW m \in Machine, cnt_val[m] > 0
                 PROVE  \E p \in Machine :
                          \/ sq[p] # <<>> /\ ~destroyed[Peer(p)]
                          \/ /\ poller[p] # "Exit"
                             /\ \/ cq[p] # <<>> \/ wc_vec[p] # <<>>
                                \/ poller[p] \in {"PostFree", "DoneCb"}
      BY DEF NothingStuck
    <2>1. \A p \in Machine : poller[p] # "Exit" /\ ~destroyed[p] /\ ~destroyed[Peer(p)]
      BY <1>1, StillRunning, Peers
    <2>2. cnt_val[m] # 0
      BY <1>1 DEF ShutdownInv, Types
    <2>3. \E p \in Machine : \/ sq[p] # <<>> \/ cq[p] # <<>> \/ wc_vec[p] # <<>>
                             \/ poller[p] \in {"PostFree", "DoneCb"}
      BY <1>1, <2>2, NothingLeft
    <2> QED BY <2>1, <2>3
  <1> QED BY <1>1, Invariance, FlagInvariance, PTL
================================================================================
