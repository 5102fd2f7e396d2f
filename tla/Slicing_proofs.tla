----------------------------- MODULE Slicing_proofs -----------------------------
(***************************************************************************)
(* When the number of elements divides the buffer, a read of any size      *)
(* arrives whole, for every size of buffer and number of elements.         *)
(***************************************************************************)
EXTENDS Slicing, TLAPS

\* The configuration the code needs and does not check.
Even == SgeNum * SgeBytes = BufferBytes

LEMMA SgeBytesPositive == SgeBytes \in Nat \ {0}
  BY SlicingAssumption DEF SgeBytes

\* Elements lie one after the other.
LEMMA StartProperties ==
  /\ Start(0) = 0
  /\ \A i \in Nat : Start(i) \in Nat /\ Start(i + 1) = Start(i) + SgeBytes
  /\ \A i, j \in Nat : i <= j => Start(i) <= Start(j)
  <1> USE SgeBytesPositive
  <1>1. Start(0) = 0
    BY DEF Start
  <1>2. ASSUME NEW i \in Nat PROVE Start(i) \in Nat /\ Start(i + 1) = Start(i) + SgeBytes
    BY DEF Start
  <1>3. ASSUME NEW i \in Nat, NEW j \in Nat, i <= j PROVE Start(i) <= Start(j)
    BY <1>3 DEF Start
  <1> QED BY <1>1, <1>2, <1>3

\* The elements of a piece cover it, and none of them is wholly beyond it.
LEMMA ElementsCover ==
  ASSUME Even, NEW t \in 1 .. BufferBytes, NEW n,
         n = Lesser(SgeNum, (t - 1) \div SgeBytes + 1)
  PROVE  /\ n \in 1 .. SgeNum
         /\ t <= Start(n)
         /\ Start(n) <= BufferBytes
         /\ \A i \in 0 .. n - 1 : Start(i) < t
  <1> DEFINE S == SgeBytes
             q == (t - 1) \div S
  <1>1. S \in Nat \ {0} /\ SgeNum \in Nat \ {0} /\ BufferBytes \in Nat /\ SgeNum * S = BufferBytes
    BY SgeBytesPositive, SlicingAssumption DEF Even
  <1> HIDE DEF S
  <1>2. q \in Nat /\ q * S <= t - 1 /\ t - 1 < q * S + S
    BY <1>1
  <1> HIDE DEF q
  <1>3. n = IF SgeNum < q + 1 THEN SgeNum ELSE q + 1
    BY DEF Lesser, q, S
  <1>4. n \in 1 .. SgeNum
    BY <1>1, <1>2, <1>3
  <1>5. Start(q + 1) = Start(q) + S /\ Start(q) = q * S /\ Start(SgeNum) = BufferBytes
    BY <1>1, <1>2, StartProperties DEF Start, S
  <1>6. t <= Start(n)
    <2>1. CASE n = SgeNum
      BY <2>1, <1>1, <1>5
    <2>2. CASE n = q + 1
      BY <2>2, <1>1, <1>2, <1>5
    <2> QED BY <2>1, <2>2, <1>3
  <1>7. Start(n) <= BufferBytes
    BY <1>1, <1>4, <1>5, StartProperties
  <1>8. ASSUME NEW i \in 0 .. n - 1 PROVE Start(i) < t
    <2>1. i <= q
      BY <1>1, <1>2, <1>3, <1>4
    <2>2. Start(i) <= Start(q)
      BY <1>2, <1>4, <2>1, StartProperties
    <2>3. i \in Nat /\ Start(i) \in Nat
      BY <1>4, StartProperties
    <2> QED BY <1>1, <1>2, <1>5, <2>2, <2>3
  <1> QED BY <1>4, <1>6, <1>7, <1>8
--------------------------------------------------------------------------------
\* The copying loops stay inside their piece.
InPiece == /\ TypeOK
           /\ transfer_record <= transfer_bytes
           /\ phase = "read" => offset < bytes

LEMMA InPieceInit == Init => InPiece
  <1> SUFFICES ASSUME Init PROVE InPiece
    OBVIOUS
  <1>1. TypeOK
    BY SlicingAssumption DEF Init, TypeOK, Byte, BufferIndex, Fresh
  <1>2. transfer_record <= transfer_bytes
    BY SlicingAssumption DEF Init, transfer_bytes, Lesser
  <1> QED BY <1>1, <1>2 DEF Init, InPiece

LEMMA InPieceNext == InPiece /\ [Next]_vars => InPiece'
  <1> SUFFICES ASSUME InPiece, [Next]_vars PROVE InPiece'
    OBVIOUS
  <1> DEFINE t == transfer_bytes
             x == temp_bytes
  <1>1. /\ BufferBytes \in Nat \ {0} /\ SgeNum \in Nat \ {0} /\ MaxBytes \in Nat
        /\ SgeBytes \in Nat \ {0} /\ SgeNum * SgeBytes <= BufferBytes
    <2>1. \A S \in Nat : S = BufferBytes \div SgeNum => SgeNum * S <= BufferBytes
      BY SlicingAssumption
    <2> QED BY <2>1, SlicingAssumption, SgeBytesPositive DEF SgeBytes
  <1>2. /\ bytes \in Nat /\ offset \in Nat /\ sge \in 0 .. SgeNum /\ transfer_record \in Nat
        /\ offset <= bytes /\ bytes <= MaxBytes
    BY <1>1 DEF InPiece, TypeOK
  <1>3. /\ t \in 0 .. BufferBytes /\ offset + t <= bytes
        /\ transfer_record <= t
    BY <1>1, <1>2 DEF transfer_bytes, Lesser, InPiece
  <1>4. /\ x \in Nat /\ x <= SgeBytes /\ transfer_record + x <= t
    BY <1>1, <1>2, <1>3 DEF temp_bytes, Lesser
  <1>5. ASSUME sge < sge_num
        PROVE  /\ sge + 1 \in 0 .. SgeNum /\ Start(sge) \in Nat
               /\ Start(sge) + SgeBytes <= BufferBytes
    <2>1. sge_num <= SgeNum /\ sge_num \in Int
      <3>1. (t - 1) \div SgeBytes \in Int
        BY <1>1, <1>3
      <3> QED BY <1>1, <3>1 DEF sge_num, Lesser
    <2>2. sge + 1 \in 0 .. SgeNum
      BY <1>1, <1>2, <1>5, <2>1
    <2>3. /\ Start(sge) \in Nat /\ Start(sge + 1) = Start(sge) + SgeBytes
          /\ Start(sge + 1) <= Start(SgeNum)
      <3>1. sge \in Nat /\ sge + 1 \in Nat /\ SgeNum \in Nat /\ sge + 1 <= SgeNum
        BY <1>1, <1>2, <2>2
      <3> QED BY <3>1, StartProperties
    <2>4. Start(SgeNum) <= BufferBytes /\ Start(SgeNum) \in Nat
      BY <1>1, StartProperties DEF Start
    <2> QED BY <1>1, <2>2, <2>3, <2>4
  <1> HIDE DEF t, x
  <1>6. CASE CopyToSend
    <2>1. /\ sge < sge_num
          /\ send_buf' = [p \in BufferIndex |->
                            IF p \in Start(sge) .. Start(sge) + x - 1
                              THEN offset + transfer_record + (p - Start(sge)) ELSE send_buf[p]]
          /\ transfer_record' = transfer_record + x /\ sge' = sge + 1
          /\ UNCHANGED <<bytes, offset, phase, recv_buf, dst>>
      BY <1>6 DEF CopyToSend, x
    <2>2. ASSUME NEW p \in BufferIndex, p \in Start(sge) .. Start(sge) + x - 1
          PROVE  offset + transfer_record + (p - Start(sge)) \in Byte
      <3>1. p - Start(sge) \in 0 .. x - 1
        BY <1>4, <1>5, <2>1, <2>2 DEF BufferIndex
      <3> QED BY <1>1, <1>2, <1>3, <1>4, <3>1 DEF Byte
    <2>3. send_buf' \in [BufferIndex -> Byte]
      BY <2>1, <2>2 DEF InPiece, TypeOK
    <2>4. transfer_bytes' = t
      BY <2>1 DEF transfer_bytes, t
    <2>5. sge' \in 0 .. SgeNum /\ transfer_record' \in 0 .. BufferBytes /\ transfer_record' <= t
      BY <1>1, <1>2, <1>3, <1>4, <1>5, <2>1
    <2> QED BY <2>1, <2>3, <2>4, <2>5 DEF InPiece, TypeOK
  <1>7. CASE WriteElements
    <2>1. /\ recv_buf' \in [BufferIndex -> Byte]
          /\ phase' = "read" /\ sge' = 0 /\ transfer_record' = 0 /\ offset < bytes
          /\ UNCHANGED <<bytes, offset, send_buf, dst>>
      BY <1>7 DEF WriteElements, InPiece, TypeOK
    <2>2. transfer_bytes' = t
      BY <2>1 DEF transfer_bytes, t
    <2> QED BY <1>1, <1>3, <2>1, <2>2 DEF InPiece, TypeOK
  <1>8. CASE CopyToDst
    <2>1. /\ sge < sge_num /\ phase = "read"
          /\ dst' = [j \in DOMAIN dst |->
                       IF j \in offset + transfer_record .. offset + transfer_record + x - 1
                         THEN recv_buf[Start(sge) + (j - offset - transfer_record)] ELSE dst[j]]
          /\ transfer_record' = transfer_record + x /\ sge' = sge + 1
          /\ UNCHANGED <<bytes, offset, phase, send_buf, recv_buf>>
      BY <1>8 DEF CopyToDst, x
    <2>2. ASSUME NEW j \in Int, j \in offset + transfer_record .. offset + transfer_record + x - 1
          PROVE  recv_buf[Start(sge) + (j - offset - transfer_record)] \in Byte
      <3>1. j - offset - transfer_record \in 0 .. x - 1
        BY <1>2, <1>4, <2>2
      <3>2. Start(sge) + (j - offset - transfer_record) \in BufferIndex
        BY <1>1, <1>4, <1>5, <2>1, <3>1 DEF BufferIndex
      <3> QED BY <3>2 DEF InPiece, TypeOK
    <2>3. dst' \in [0 .. MaxBytes - 1 -> Byte]
      <3>1. dst \in [0 .. MaxBytes - 1 -> Byte] /\ \A j \in 0 .. MaxBytes - 1 : j \in Int
        BY <1>1 DEF InPiece, TypeOK
      <3> QED BY <2>1, <2>2, <3>1
    <2>4. transfer_bytes' = t
      BY <2>1 DEF transfer_bytes, t
    <2>5. sge' \in 0 .. SgeNum /\ transfer_record' \in 0 .. BufferBytes /\ transfer_record' <= t
      BY <1>1, <1>2, <1>3, <1>4, <1>5, <2>1
    <2> QED BY <2>1, <2>3, <2>4, <2>5 DEF InPiece, TypeOK
  <1>9. CASE NextPiece
    <2>1. /\ offset' = offset + t /\ phase' = "write" /\ sge' = 0 /\ transfer_record' = 0
          /\ UNCHANGED <<bytes, send_buf, recv_buf, dst>>
      BY <1>9 DEF NextPiece, t
    <2>2. offset' \in 0 .. MaxBytes /\ offset' <= bytes'
      BY <1>1, <1>2, <1>3, <2>1
    <2>3. transfer_bytes' \in Nat
      BY <1>1, <1>2, <2>1, <2>2 DEF transfer_bytes, Lesser
    <2> QED BY <1>1, <2>1, <2>2, <2>3 DEF InPiece, TypeOK
  <1>10. CASE UNCHANGED vars
    BY <1>10 DEF vars, InPiece, TypeOK, transfer_bytes
  <1> QED BY <1>6, <1>7, <1>8, <1>9, <1>10 DEF Next

\* The loops never leave the buffers, the read or the source's bytes, whether or
\* not the number of elements divides the buffer.
THEOREM TypeCorrect == Spec => []TypeOK
  <1>1. InPiece => TypeOK
    BY DEF InPiece
  <1> QED BY <1>1, InPieceInit, InPieceNext, PTL DEF Spec
--------------------------------------------------------------------------------
\* What the loops have done so far: transfer_record bytes of the piece are in
\* the send buffer, or all of it is in the receive buffer and transfer_record
\* bytes are at the reader.
LoopInv ==
  offset < bytes =>
    /\ sge <= sge_num
    /\ transfer_record = Lesser(transfer_bytes, Start(sge))
    /\ phase = "write" => \A p \in 0 .. transfer_record - 1 : send_buf[p] = offset + p
    /\ phase = "read" =>
         /\ \A p \in 0 .. transfer_bytes - 1 : recv_buf[p] = offset + p
         /\ \A p \in 0 .. transfer_record - 1 : dst[offset + p] = offset + p

SliceInv == /\ TypeOK
            /\ LoopInv
            /\ offset = bytes => phase = "write"
            /\ PrefixIntact

LEMMA SliceInit == Init => SliceInv
  <1> SUFFICES ASSUME Init PROVE SliceInv
    OBVIOUS
  <1> USE DEF Init
  <1>1. TypeOK
    BY SlicingAssumption DEF TypeOK, Byte, BufferIndex, Fresh
  <1>2. 0 <= sge_num /\ 0 < transfer_bytes
    <2>1. transfer_bytes \in Nat \ {0}
      BY SlicingAssumption DEF transfer_bytes, Lesser
    <2>2. (transfer_bytes - 1) \div SgeBytes \in Nat
      BY <2>1, SgeBytesPositive
    <2> QED BY <2>1, <2>2, SlicingAssumption DEF sge_num, Lesser
  <1>3. LoopInv
    <2>1. transfer_bytes \in Nat
      BY SlicingAssumption DEF transfer_bytes, Lesser
    <2>2. 0 = Lesser(transfer_bytes, Start(0))
      BY <2>1, StartProperties DEF Lesser
    <2> QED BY <1>2, <2>2 DEF LoopInv
  <1>4. PrefixIntact
    BY DEF PrefixIntact
  <1> QED BY <1>1, <1>3, <1>4 DEF SliceInv

LEMMA SliceNext == ASSUME Even PROVE SliceInv /\ [Next]_vars => SliceInv'
  <1> SUFFICES ASSUME SliceInv, [Next]_vars PROVE SliceInv'
    OBVIOUS
  <1> DEFINE t == transfer_bytes
             n == sge_num
  \* The facts about a piece that every step of it uses.
  <1>a. /\ BufferBytes \in Nat \ {0} /\ SgeNum \in Nat \ {0} /\ MaxBytes \in Nat
        /\ SgeBytes \in Nat \ {0}
        /\ bytes \in Nat /\ offset \in Nat /\ sge \in Nat /\ transfer_record \in Nat
        /\ offset <= bytes /\ bytes <= MaxBytes
    BY SlicingAssumption, SgeBytesPositive DEF SliceInv, TypeOK
  <1>b. ASSUME offset < bytes
        PROVE  /\ t \in 1 .. BufferBytes
               /\ n \in 1 .. SgeNum /\ t <= Start(n) /\ Start(n) <= BufferBytes
               /\ \A i \in 0 .. n - 1 : Start(i) < t
               /\ offset + t <= bytes
    <2>1. t \in 1 .. BufferBytes /\ offset + t <= bytes
      BY <1>a, <1>b DEF transfer_bytes, Lesser
    <2> QED BY <2>1, ElementsCover DEF sge_num
  <1>c. ASSUME offset < bytes, sge < n
        PROVE  /\ Start(sge) \in Nat /\ Start(sge + 1) = Start(sge) + SgeBytes
               /\ transfer_record = Start(sge)
               /\ temp_bytes \in Nat
               /\ transfer_record + temp_bytes = Lesser(t, Start(sge + 1))
               /\ transfer_record + temp_bytes <= t
               /\ sge + 1 <= n
    <2>1. Start(sge) \in Nat /\ Start(sge + 1) = Start(sge) + SgeBytes
      BY <1>a, StartProperties
    <2>2. Start(sge) < t
      BY <1>a, <1>b, <1>c
    <2>3. transfer_record = Start(sge)
      BY <1>b, <1>c, <2>1, <2>2 DEF SliceInv, LoopInv, Lesser
    <2> HIDE DEF t, n
    <2>4. temp_bytes = IF SgeBytes < t - transfer_record THEN SgeBytes ELSE t - transfer_record
      BY DEF temp_bytes, Lesser, t
    <2>5. n \in Nat /\ t \in Nat
      BY <1>b, <1>c, <1>a
    <2> QED BY <1>a, <1>c, <2>1, <2>2, <2>3, <2>4, <2>5 DEF Lesser
  <1>d. ASSUME offset < bytes, sge = n
        PROVE  transfer_record = t
    <2>1. transfer_record = Lesser(t, Start(n))
      BY <1>d DEF SliceInv, LoopInv
    <2>2. t <= Start(n) /\ t \in Nat /\ Start(n) \in Nat
      BY <1>b, <1>d, StartProperties
    <2> QED BY <2>1, <2>2 DEF Lesser
  \* Positions inside the element the loop has reached.
  <1>e. ASSUME offset < bytes, sge < n, NEW p \in Int,
               Start(sge) <= p, p <= Start(sge) + temp_bytes - 1
        PROVE  p \in 0 .. t - 1 /\ offset + p \in 0 .. bytes - 1 /\ p \in BufferIndex
    <2>1. /\ Start(sge) \in Nat /\ temp_bytes \in Nat /\ transfer_record = Start(sge)
          /\ transfer_record + temp_bytes <= t
      BY <1>c, <1>e
    <2>2. t \in 1 .. BufferBytes /\ offset + t <= bytes
      BY <1>b, <1>e
    <2> HIDE DEF t, n
    <2> QED BY <1>a, <1>e, <2>1, <2>2 DEF BufferIndex
  \* Positions up to the end of the element the loop has reached.
  <1>f. ASSUME offset < bytes, sge < n, NEW p \in Int,
               0 <= p, p <= transfer_record + temp_bytes - 1
        PROVE  p \in Nat /\ p \in BufferIndex /\ offset + p \in 0 .. MaxBytes - 1
    <2>1. transfer_record + temp_bytes <= t /\ temp_bytes \in Nat
      BY <1>c, <1>f
    <2>2. t \in 1 .. BufferBytes /\ offset + t <= bytes
      BY <1>b, <1>f
    <2> HIDE DEF t, n
    <2> QED BY <1>a, <1>f, <2>1, <2>2 DEF BufferIndex
  <1>1. CASE CopyToSend
    <2> USE <1>1 DEF CopyToSend
    <2>1. t' = t /\ n' = n
      BY DEF transfer_bytes, sge_num
    <2>2. /\ offset < bytes /\ sge < n
      OBVIOUS
    <2>3. TypeOK'
      <3>1. send_buf' \in [BufferIndex -> Byte]
        <4>1. ASSUME NEW p \in BufferIndex, p \in Start(sge) .. Start(sge) + temp_bytes - 1
              PROVE  offset + transfer_record + (p - Start(sge)) \in Byte
          <5>1. p \in Int /\ Start(sge) <= p /\ p <= Start(sge) + temp_bytes - 1
            BY <1>a, <1>c, <2>2, <4>1 DEF BufferIndex
          <5>2. transfer_record = Start(sge) /\ Start(sge) \in Nat
            BY <1>c, <2>2
          <5>3. offset + p \in 0 .. bytes - 1
            BY <1>e, <2>2, <5>1
          <5> QED BY <1>a, <5>1, <5>2, <5>3 DEF Byte
        <4> QED BY <4>1 DEF SliceInv, TypeOK
      <3>2. sge' \in 0 .. SgeNum /\ transfer_record' \in 0 .. BufferBytes
        BY <1>a, <1>b, <1>c, <2>2
      <3> QED BY <3>1, <3>2 DEF SliceInv, TypeOK
    <2>4. \A p \in 0 .. transfer_record' - 1 : send_buf'[p] = offset + p
      <3> SUFFICES ASSUME NEW p \in 0 .. transfer_record' - 1
                   PROVE  send_buf'[p] = offset + p
        OBVIOUS
      <3>0. p \in Int /\ 0 <= p /\ p <= transfer_record + temp_bytes - 1
        <4>1. transfer_record' = transfer_record + temp_bytes /\ temp_bytes \in Nat
          BY <1>c, <2>2
        <4> QED BY <1>a, <4>1
      <3>1. p \in BufferIndex /\ p \in Nat
        BY <1>f, <2>2, <3>0
      <3>2. CASE p < transfer_record
        BY <1>a, <1>c, <2>2, <3>1, <3>2 DEF SliceInv, LoopInv
      <3>3. CASE p >= transfer_record
        BY <1>a, <1>c, <2>2, <3>1, <3>3
      <3> QED BY <1>a, <3>1, <3>2, <3>3
    <2>5. LoopInv'
      BY <1>a, <1>c, <2>1, <2>2, <2>4 DEF LoopInv
    <2> QED BY <2>3, <2>5 DEF SliceInv, PrefixIntact
  <1>2. CASE WriteElements
    <2> USE <1>2 DEF WriteElements
    <2>1. t' = t /\ n' = n /\ offset < bytes
      BY DEF transfer_bytes, sge_num
    <2>2. transfer_record = t
      BY <1>d, <2>1
    <2>3. ASSUME NEW p \in 0 .. t - 1
          PROVE  \E i \in 0 .. n - 1 : p \in Block(i)
      <3> DEFINE i == p \div SgeBytes
      <3>1. i \in Nat /\ i * SgeBytes <= p /\ p < i * SgeBytes + SgeBytes
        BY <1>a, <1>b, <2>1
      <3> HIDE DEF i
      <3>2. Start(i) <= p /\ p < Start(i + 1) /\ Start(i) \in Nat
        BY <3>1, StartProperties DEF Start
      <3>3. p < BufferBytes /\ p \in Nat
        BY <1>a, <1>b, <2>1
      <3>4. p \in Block(i)
        <4>1. Start(i + 1) \in Nat
          BY <3>1, StartProperties
        <4> QED BY <1>a, <3>2, <3>3, <4>1 DEF Block, Lesser
      <3>5. i < n
        <4> SUFFICES ASSUME n <= i PROVE FALSE
          BY <1>b, <2>1, <3>1
        <4>1. n \in Nat /\ t <= Start(n) /\ Start(n) <= Start(i)
          BY <1>b, <2>1, <3>1, StartProperties
        <4> QED BY <1>a, <1>b, <2>1, <3>2, <3>3, <4>1, StartProperties
      <3> QED BY <1>b, <2>1, <3>1, <3>4, <3>5
    <2>4. ASSUME NEW p \in 0 .. t - 1
          PROVE  recv_buf'[p] = offset + p
      <3>1. p \in BufferIndex
        BY <1>a, <1>b, <2>1 DEF BufferIndex
      <3>2. recv_buf'[p] = send_buf[p]
        BY <2>3, <3>1
      <3> QED BY <2>1, <2>2, <3>2 DEF SliceInv, LoopInv
    <2>5. TypeOK'
      BY <1>a DEF SliceInv, TypeOK
    <2>6. LoopInv'
      <3>1. 0 <= n /\ 0 = Lesser(t, Start(0))
        BY <1>b, <2>1, StartProperties DEF Lesser
      <3>2. \A p \in 0 .. t - 1 : recv_buf'[p] = offset' + p
        BY <2>4
      <3>3. sge' = 0 /\ transfer_record' = 0 /\ phase' = "read"
        OBVIOUS
      <3> QED BY <2>1, <3>1, <3>2, <3>3 DEF LoopInv
    <2> QED BY <2>1, <2>5, <2>6, <1>a DEF SliceInv, PrefixIntact
  <1>3. CASE CopyToDst
    <2> USE <1>3 DEF CopyToDst
    <2>1. t' = t /\ n' = n
      BY DEF transfer_bytes, sge_num
    <2>2. offset < bytes /\ sge < n
      BY <1>a DEF SliceInv
    <2>3. DOMAIN dst = 0 .. MaxBytes - 1
      BY DEF SliceInv, TypeOK
    <2>4. ASSUME NEW j \in DOMAIN dst,
                 j \in offset + transfer_record .. offset + transfer_record + temp_bytes - 1
          PROVE  /\ Start(sge) + (j - offset - transfer_record) \in 0 .. t - 1
                 /\ offset + (Start(sge) + (j - offset - transfer_record)) = j
      <3>1. /\ Start(sge) \in Nat /\ transfer_record = Start(sge) /\ temp_bytes \in Nat
            /\ j \in Int
        BY <1>a, <1>c, <2>2, <2>3
      <3>2. Start(sge) + (j - offset - transfer_record) = j - offset
        BY <1>a, <3>1
      <3>3. j - offset \in Int /\ Start(sge) <= j - offset
            /\ j - offset <= Start(sge) + temp_bytes - 1
        BY <1>a, <2>4, <3>1
      <3>4. j - offset \in 0 .. t - 1
        BY <1>e, <2>2, <3>3
      <3> QED BY <1>a, <3>1, <3>2, <3>4
    <2>5. ASSUME NEW j \in DOMAIN dst,
                 j \in offset + transfer_record .. offset + transfer_record + temp_bytes - 1
          PROVE  dst'[j] = j
      <3>1. dst'[j] = recv_buf[Start(sge) + (j - offset - transfer_record)]
        BY <2>5
      <3>2. recv_buf[Start(sge) + (j - offset - transfer_record)]
              = offset + (Start(sge) + (j - offset - transfer_record))
        BY <2>2, <2>4, <2>5 DEF SliceInv, LoopInv
      <3> QED BY <2>4, <2>5, <3>1, <3>2
    <2>6. ASSUME NEW j \in DOMAIN dst,
                 j \notin offset + transfer_record .. offset + transfer_record + temp_bytes - 1
          PROVE  dst'[j] = dst[j]
      BY <2>6
    <2>7. DOMAIN dst' = DOMAIN dst
      OBVIOUS
    <2>8. TypeOK'
      <3>1. dst' \in [0 .. MaxBytes - 1 -> Byte]
        <4>1. dst' = [j \in DOMAIN dst |-> dst'[j]]
          OBVIOUS
        <4>2. \A j \in DOMAIN dst : dst'[j] \in Byte
          BY <2>3, <2>5, <2>6 DEF SliceInv, TypeOK, Byte
        <4> QED BY <2>3, <4>1, <4>2
      <3>2. sge' \in 0 .. SgeNum /\ transfer_record' \in 0 .. BufferBytes
        BY <1>a, <1>b, <1>c, <2>2
      <3> QED BY <3>1, <3>2 DEF SliceInv, TypeOK
    <2>9. ASSUME NEW p \in 0 .. transfer_record' - 1
          PROVE  dst'[offset + p] = offset + p
      <3>0. p \in Int /\ 0 <= p /\ p <= transfer_record + temp_bytes - 1
        <4>1. transfer_record' = transfer_record + temp_bytes /\ temp_bytes \in Nat
          BY <1>c, <2>2
        <4> QED BY <1>a, <4>1
      <3>1. offset + p \in DOMAIN dst /\ p \in Nat
        BY <1>f, <2>2, <2>3, <3>0
      <3>2. CASE p < transfer_record
        <4>1. dst'[offset + p] = dst[offset + p]
          BY <1>a, <2>6, <3>1, <3>2
        <4> QED BY <1>a, <2>2, <3>1, <3>2, <4>1 DEF SliceInv, LoopInv
      <3>3. CASE p >= transfer_record
        BY <1>a, <1>c, <2>2, <2>5, <3>1, <3>3
      <3> QED BY <1>a, <3>1, <3>2, <3>3
    <2>10. LoopInv'
      <3>1. /\ sge' <= n
            /\ transfer_record' = Lesser(t, Start(sge'))
        BY <1>c, <2>2
      <3>2. \A p \in 0 .. t - 1 : recv_buf'[p] = offset' + p
        BY <2>2 DEF SliceInv, LoopInv
      <3> QED BY <2>1, <2>9, <3>1, <3>2 DEF LoopInv
    <2>11. PrefixIntact'
      BY <1>a, <2>3, <2>6 DEF SliceInv, PrefixIntact
    <2> QED BY <2>8, <2>10, <2>11, <2>2 DEF SliceInv
  <1>4. CASE NextPiece
    <2> USE <1>4 DEF NextPiece
    <2>1. offset < bytes
      BY <1>a DEF SliceInv
    <2>2. transfer_record = t
      BY <1>d, <2>1
    <2>3. /\ offset' = offset + t /\ offset' \in Nat /\ offset' <= bytes
      BY <1>a, <1>b, <2>1
    <2>4. TypeOK'
      BY <1>a, <2>3 DEF SliceInv, TypeOK
    <2>5. LoopInv'
      <3> SUFFICES ASSUME offset' < bytes
                   PROVE  0 <= sge_num' /\ 0 = Lesser(transfer_bytes', Start(0))
        BY DEF LoopInv
      <3>1. transfer_bytes' \in 1 .. BufferBytes
        BY <1>a, <2>3 DEF transfer_bytes, Lesser
      <3>2. sge_num' \in 1 .. SgeNum
        BY <3>1, ElementsCover DEF sge_num
      <3> QED BY <3>1, <3>2, StartProperties DEF Lesser
    <2>6. PrefixIntact'
      <3> SUFFICES ASSUME NEW j \in 0 .. offset' - 1 PROVE dst[j] = j
        BY DEF PrefixIntact
      <3>1. CASE j < offset
        BY <1>a, <2>3, <3>1 DEF SliceInv, PrefixIntact
      <3>2. CASE j >= offset
        <4>1. j - offset \in 0 .. transfer_record - 1 /\ offset + (j - offset) = j
          BY <1>a, <1>b, <2>1, <2>2, <2>3, <3>2
        <4> QED BY <2>1, <4>1 DEF SliceInv, LoopInv
      <3> QED BY <1>a, <2>3, <3>1, <3>2
    <2> QED BY <2>4, <2>5, <2>6 DEF SliceInv
  <1>5. CASE UNCHANGED vars
    BY <1>5 DEF vars, SliceInv, TypeOK, LoopInv, PrefixIntact, transfer_bytes, sge_num
  <1> QED BY <1>1, <1>2, <1>3, <1>4, <1>5 DEF Next

\* With an even division no byte of any read is left behind: every byte both
\* sides have moved past is in its place at the reader.
THEOREM EvenSlicingIntact == ASSUME Even PROVE Spec => [](TypeOK /\ PrefixIntact)
  <1>1. SliceInv => TypeOK /\ PrefixIntact
    BY DEF SliceInv
  <1>2. SliceInv /\ [Next]_vars => SliceInv'
    BY SliceNext
  <1> QED BY SliceInit, <1>1, <1>2, PTL DEF Spec
--------------------------------------------------------------------------------
\* The other case: the last byte of the first full buffer is never copied. The
\* elements end before it, and the next piece begins after it.
TailNeverCopied ==
  bytes >= BufferBytes =>
    /\ offset = 0 \/ offset >= BufferBytes
    /\ dst[BufferBytes - 1] = -1

LoopBounds ==
  /\ bytes \in Nat /\ bytes <= MaxBytes
  /\ offset \in Nat /\ offset <= bytes
  /\ sge \in Nat
  /\ transfer_record \in Nat
  /\ transfer_record <= transfer_bytes
  /\ transfer_record <= Start(sge)
  /\ DOMAIN dst = 0 .. MaxBytes - 1

LossInv == LoopBounds /\ TailNeverCopied

LEMMA ElementsEndEarly == ASSUME ~Even PROVE Start(SgeNum) < BufferBytes
  <1>1. BufferBytes \in Nat /\ SgeNum \in Nat \ {0}
    BY SlicingAssumption
  <1>2. SgeNum * (BufferBytes \div SgeNum) <= BufferBytes
    BY <1>1
  <1>3. SgeBytes \in Nat /\ SgeNum * SgeBytes = Start(SgeNum)
    BY <1>1, SgeBytesPositive DEF Start
  <1>4. Start(SgeNum) # BufferBytes /\ Start(SgeNum) \in Nat
    BY <1>1, <1>3, StartProperties DEF Even
  <1>5. Start(SgeNum) <= BufferBytes
    BY <1>2, <1>3 DEF SgeBytes
  <1> QED BY <1>1, <1>4, <1>5

LEMMA LossInit == Init => LossInv
  <1> SUFFICES ASSUME Init PROVE LossInv
    OBVIOUS
  <1>1. /\ bytes \in Nat /\ bytes <= MaxBytes /\ offset = 0 /\ sge = 0 /\ transfer_record = 0
        /\ dst = [j \in 0 .. MaxBytes - 1 |-> -1] /\ BufferBytes \in Nat \ {0}
    BY SlicingAssumption DEF Init
  <1>2. transfer_bytes \in Nat
    BY <1>1 DEF transfer_bytes, Lesser
  <1>3. bytes >= BufferBytes => BufferBytes - 1 \in 0 .. MaxBytes - 1
    BY <1>1, SlicingAssumption
  <1> QED BY <1>1, <1>2, <1>3, StartProperties DEF LossInv, LoopBounds, TailNeverCopied

LEMMA LossNext == ASSUME ~Even PROVE LossInv /\ [Next]_vars => LossInv'
  <1> SUFFICES ASSUME LossInv, [Next]_vars PROVE LossInv'
    OBVIOUS
  <1> DEFINE t == transfer_bytes
             n == sge_num
  <1>a. /\ BufferBytes \in Nat \ {0} /\ SgeNum \in Nat \ {0} /\ MaxBytes \in Nat
        /\ SgeBytes \in Nat \ {0}
        /\ Start(SgeNum) < BufferBytes /\ Start(SgeNum) \in Nat
    <2>1. BufferBytes \in Nat \ {0} /\ SgeNum \in Nat \ {0} /\ MaxBytes \in Nat
      BY SlicingAssumption
    <2>2. Start(SgeNum) \in Nat
      BY <2>1, StartProperties
    <2> QED BY <2>1, <2>2, SgeBytesPositive, ElementsEndEarly
  <1>b. /\ t \in 0 .. BufferBytes /\ offset + t <= bytes
        /\ offset = 0 /\ bytes >= BufferBytes => t = BufferBytes
    BY <1>a DEF LossInv, LoopBounds, transfer_bytes, Lesser
  <1>c. /\ temp_bytes \in Nat
        /\ transfer_record + temp_bytes <= t
        /\ transfer_record + temp_bytes <= Start(sge + 1)
        /\ Start(sge) \in Nat
    <2>1. Start(sge) \in Nat /\ Start(sge + 1) = Start(sge) + SgeBytes
      BY StartProperties DEF LossInv, LoopBounds
    <2>2. temp_bytes = IF SgeBytes < t - transfer_record THEN SgeBytes ELSE t - transfer_record
      BY DEF temp_bytes, Lesser
    <2>3. t \in Nat /\ transfer_record \in Nat /\ transfer_record <= t
          /\ transfer_record <= Start(sge)
      BY <1>b DEF LossInv, LoopBounds
    <2> HIDE DEF t
    <2> QED BY <1>a, <2>1, <2>2, <2>3
  <1>1. CASE CopyToSend
    <2>1. /\ sge' = sge + 1 /\ transfer_record' = transfer_record + temp_bytes
          /\ UNCHANGED <<bytes, offset, dst>>
      BY <1>1 DEF CopyToSend
    <2>2. transfer_bytes' = t /\ Start(sge') = Start(sge + 1)
      BY <2>1 DEF transfer_bytes
    <2> QED BY <1>c, <2>1, <2>2 DEF LossInv, LoopBounds, TailNeverCopied
  <1>2. CASE WriteElements
    <2>1. sge' = 0 /\ transfer_record' = 0 /\ UNCHANGED <<bytes, offset, dst>>
      BY <1>2 DEF WriteElements
    <2>2. transfer_bytes' = t /\ Start(sge') = 0
      BY <2>1, StartProperties DEF transfer_bytes
    <2> QED BY <1>b, <2>1, <2>2 DEF LossInv, LoopBounds, TailNeverCopied
  <1>3. CASE CopyToDst
    <2>1. /\ sge' = sge + 1 /\ transfer_record' = transfer_record + temp_bytes
          /\ UNCHANGED <<bytes, offset>>
          /\ DOMAIN dst' = DOMAIN dst /\ sge < n
          /\ \A j \in DOMAIN dst :
               j \notin offset + transfer_record .. offset + transfer_record + temp_bytes - 1
                 => dst'[j] = dst[j]
      BY <1>3 DEF CopyToDst
    <2>2. transfer_bytes' = t /\ Start(sge') = Start(sge + 1)
      BY <2>1 DEF transfer_bytes
    <2>3. LoopBounds'
      BY <1>c, <2>1, <2>2 DEF LossInv, LoopBounds
    <2>4. ASSUME bytes >= BufferBytes
          PROVE  dst'[BufferBytes - 1] = -1
      <3>1. BufferBytes - 1 \in DOMAIN dst /\ dst[BufferBytes - 1] = -1
        BY <1>a, <2>4 DEF LossInv, LoopBounds, TailNeverCopied
      <3>2. transfer_record \in Nat /\ offset \in Nat /\ sge \in Nat
        BY DEF LossInv, LoopBounds
      <3>3. CASE offset >= BufferBytes
        BY <1>a, <1>c, <2>1, <3>1, <3>2, <3>3
      <3>4. CASE offset = 0
        <4>1. n <= SgeNum
          <5>1. t = BufferBytes
            BY <1>b, <2>4, <3>4
          <5>2. (t - 1) \div SgeBytes \in Nat
            BY <1>a, <5>1
          <5> HIDE DEF t
          <5> QED BY <1>a, <5>2 DEF sge_num, Lesser, t
        <4>2. n \in Int
          <5>1. (t - 1) \div SgeBytes \in Int
            BY <1>a, <1>b
          <5> HIDE DEF t
          <5> QED BY <1>a, <5>1 DEF sge_num, Lesser, t
        <4>3. sge + 1 <= SgeNum
          BY <1>a, <2>1, <3>2, <4>1, <4>2
        <4>4. Start(sge + 1) <= Start(SgeNum) /\ Start(sge + 1) \in Nat
          <5>1. sge + 1 \in Nat /\ SgeNum \in Nat
            BY <1>a, <3>2
          <5> HIDE DEF t, n
          <5> QED BY <4>3, <5>1, StartProperties
        <4>5. temp_bytes \in Nat /\ transfer_record + temp_bytes <= Start(sge + 1)
          BY <1>c
        <4>6. BufferBytes - 1 \notin offset + transfer_record .. offset + transfer_record + temp_bytes - 1
          <5>1. Start(sge + 1) < BufferBytes /\ BufferBytes \in Nat /\ Start(sge + 1) \in Nat
            BY <1>a, <4>4
          <5> HIDE DEF t, n
          <5> QED BY <3>2, <3>4, <4>5, <5>1
        <4> QED BY <2>1, <3>1, <4>6
      <3> QED BY <2>4, <3>3, <3>4 DEF LossInv, TailNeverCopied
    <2> QED BY <2>1, <2>3, <2>4 DEF LossInv, TailNeverCopied
  <1>4. CASE NextPiece
    <2>1. /\ offset' = offset + t /\ sge' = 0 /\ transfer_record' = 0
          /\ UNCHANGED <<bytes, dst>>
      BY <1>4 DEF NextPiece
    <2>2. transfer_bytes' \in Nat
      BY <1>a, <1>b, <2>1 DEF LossInv, LoopBounds, transfer_bytes, Lesser
    <2>3. LoopBounds'
      BY <1>a, <1>b, <2>1, <2>2, StartProperties DEF LossInv, LoopBounds
    <2>4. bytes >= BufferBytes => offset' >= BufferBytes
      <3> HIDE DEF t
      <3> QED BY <1>a, <1>b, <2>1 DEF LossInv, LoopBounds, TailNeverCopied
    <2> QED BY <2>1, <2>3, <2>4 DEF LossInv, TailNeverCopied
  <1>5. CASE UNCHANGED vars
    BY <1>5 DEF vars, LossInv, LoopBounds, TailNeverCopied, transfer_bytes
  <1> QED BY <1>1, <1>2, <1>3, <1>4, <1>5 DEF Next

\* If the number of elements does not divide the buffer, then in every read of
\* at least one buffer a byte is missing as soon as the first piece is passed:
\* SgeBytes() rounds down and offset moves by the whole piece nevertheless. The
\* hypothesis of the theorem above is therefore necessary, for every size.
THEOREM UnevenSlicingLoses ==
  ASSUME ~Even PROVE Spec => [](bytes >= BufferBytes /\ offset # 0 => ~PrefixIntact)
  <1>1. LossInv => (bytes >= BufferBytes /\ offset # 0 => ~PrefixIntact)
    <2> SUFFICES ASSUME LossInv, bytes >= BufferBytes, offset # 0, PrefixIntact PROVE FALSE
      OBVIOUS
    <2>1. BufferBytes \in Nat \ {0} /\ offset \in Nat /\ offset >= BufferBytes
      BY SlicingAssumption DEF LossInv, LoopBounds, TailNeverCopied
    <2>2. dst[BufferBytes - 1] = BufferBytes - 1
      BY <2>1 DEF PrefixIntact
    <2> QED BY <2>1, <2>2 DEF LossInv, TailNeverCopied
  <1>2. LossInv /\ [Next]_vars => LossInv'
    BY LossNext
  <1> QED BY LossInit, <1>1, <1>2, PTL DEF Spec
================================================================================
