----------------------------- MODULE SendPool_proofs -----------------------------
(***************************************************************************)
(* Proofs about the sending side of a queue pair, for any number of        *)
(* threads, messages and writes: every message buffer has one owner, a     *)
(* work request id lives exactly as long as something names it, and the    *)
(* queue pair implements the message service.                              *)
(***************************************************************************)
EXTENDS SendPool, FiniteSetTheorems, SequenceTheorems, WellFoundedInduction, TLAPS

--------------------------------------------------------------------------------
(* How often an element occurs in a queue, and what the operations on the  *)
(* queue do to that number.                                                *)

Positions(s, x) == {i \in DOMAIN s : s[i] = x}

Count(s, x) == Cardinality(Positions(s, x))

LEMMA CountNat ==
  ASSUME NEW S, NEW s \in Seq(S), NEW x
  PROVE  IsFiniteSet(Positions(s, x)) /\ Count(s, x) \in Nat
  <1>1. Len(s) \in Nat /\ DOMAIN s = 1 .. Len(s)
    OBVIOUS
  <1>2. IsFiniteSet(1 .. Len(s))
    BY <1>1, FS_Interval
  <1>3. Positions(s, x) \subseteq 1 .. Len(s)
    BY <1>1 DEF Positions
  <1>4. IsFiniteSet(Positions(s, x))
    BY <1>2, <1>3, FS_Subset
  <1> QED BY <1>4, FS_CardinalityType DEF Count

LEMMA CountEmpty == \A x : Count(<<>>, x) = 0
  <1>1. \A x : Positions(<<>>, x) = {}
    BY DEF Positions
  <1> QED BY <1>1, FS_EmptySet DEF Count

LEMMA CountAppend ==
  ASSUME NEW S, NEW s \in Seq(S), NEW y \in S, NEW x
  PROVE  Count(Append(s, y), x) = IF y = x THEN Count(s, x) + 1 ELSE Count(s, x)
  <1> DEFINE t == Append(s, y)
  <1>1. Len(s) \in Nat /\ DOMAIN s = 1 .. Len(s)
    OBVIOUS
  <1>2. DOMAIN t = 1 .. Len(s) + 1
    BY AppendProperties, <1>1
  <1>3. /\ \A i \in 1 .. Len(s) : t[i] = s[i]
        /\ t[Len(s) + 1] = y
    BY AppendProperties
  <1>4. IsFiniteSet(Positions(s, x))
    BY CountNat
  <1>5. Len(s) + 1 \notin Positions(s, x)
    BY <1>1 DEF Positions
  <1> HIDE DEF t
  <1>6. CASE y = x
    <2>1. Positions(t, x) = Positions(s, x) \cup {Len(s) + 1}
      BY <1>1, <1>2, <1>3, <1>6 DEF Positions
    <2> QED BY <2>1, <1>4, <1>5, <1>6, FS_AddElement DEF Count, t
  <1>7. CASE y # x
    <2>1. Positions(t, x) = Positions(s, x)
      BY <1>1, <1>2, <1>3, <1>7 DEF Positions
    <2> QED BY <2>1, <1>7 DEF Count, t
  <1> QED BY <1>6, <1>7

LEMMA CountTail ==
  ASSUME NEW S, NEW s \in Seq(S), s # <<>>, NEW x
  PROVE  Count(Tail(s), x) = IF Head(s) = x THEN Count(s, x) - 1 ELSE Count(s, x)
  <1> DEFINE t == Tail(s)
             f == [i \in Positions(t, x) |-> i + 1]
             R == Positions(s, x) \ {1}
  <1>1. /\ Len(s) \in Nat \ {0} /\ DOMAIN s = 1 .. Len(s)
        /\ t \in Seq(S) /\ DOMAIN t = 1 .. Len(s) - 1
        /\ \A i \in 1 .. Len(s) - 1 : t[i] = s[i + 1]
    BY HeadTailProperties
  <1>2. Head(s) = s[1] /\ 1 \in DOMAIN s
    BY <1>1
  <1>3. IsFiniteSet(Positions(s, x)) /\ Count(s, x) \in Nat /\ IsFiniteSet(Positions(t, x))
    BY CountNat, <1>1
  <1> HIDE DEF t
  <1>4. f \in Bijection(Positions(t, x), R)
    <2>1. \A i \in Positions(t, x) : i \in Nat /\ i + 1 \in R
      BY <1>1 DEF Positions
    <2>2. f \in [Positions(t, x) -> R]
      BY <2>1
    <2>3. \A i, j \in Positions(t, x) : f[i] = f[j] => i = j
      BY <2>1
    <2>4. \A j \in R : \E i \in Positions(t, x) : f[i] = j
      <3> TAKE j \in R
      <3>1. j \in 2 .. Len(s) /\ s[j] = x
        BY <1>1 DEF Positions
      <3>2. j - 1 \in DOMAIN t /\ t[j - 1] = x
        BY <1>1, <3>1
      <3>3. j - 1 \in Positions(t, x)
        BY <3>2 DEF Positions
      <3>4. f[j - 1] = j
        BY <3>3, <3>1
      <3> QED BY <3>3, <3>4
    <2> HIDE DEF f, R
    <2>5. f \in Injection(Positions(t, x), R)
      BY <2>2, <2>3 DEF Injection, IsInjective
    <2>6. f \in Surjection(Positions(t, x), R)
      BY <2>2, <2>4 DEF Surjection
    <2> QED BY <2>5, <2>6 DEF Bijection
  <1> HIDE DEF f
  <1>5. Cardinality(R) = Count(t, x)
    <2>1. ExistsBijection(Positions(t, x), R)
      BY <1>4 DEF ExistsBijection
    <2> HIDE DEF R
    <2> QED BY <2>1, <1>3, FS_Bijection DEF Count
  <1>6. Cardinality(R) = IF 1 \in Positions(s, x) THEN Count(s, x) - 1 ELSE Count(s, x)
    BY <1>3, FS_RemoveElement DEF Count
  <1>7. 1 \in Positions(s, x) <=> Head(s) = x
    BY <1>2 DEF Positions
  <1> QED BY <1>5, <1>6, <1>7 DEF t

\* What occurs is counted.
LEMMA CountPositive ==
  ASSUME NEW S, NEW s \in Seq(S), NEW i \in DOMAIN s
  PROVE  Count(s, s[i]) > 0
  <1>1. i \in Positions(s, s[i])
    BY DEF Positions
  <1>2. IsFiniteSet(Positions(s, s[i])) /\ Count(s, s[i]) \in Nat
    BY CountNat
  <1>3. Count(s, s[i]) # 0
    BY <1>1, <1>2, FS_EmptySet DEF Count
  <1> QED BY <1>2, <1>3

LEMMA CountHead ==
  ASSUME NEW S, NEW s \in Seq(S), s # <<>>
  PROVE  Count(s, Head(s)) > 0
  <1>1. 1 \in DOMAIN s /\ Head(s) = s[1]
    OBVIOUS
  <1> QED BY <1>1, CountPositive
--------------------------------------------------------------------------------
\* The requests and completions that name id.
InQueues(id) == Count(sq, id) + Count(cq, id)

Writing(p) == [at |-> "Writing", piece |-> p]

\* The elements of p still to be posted.
ToPost(p) == IF poller = Writing(p) THEN Elements[p] - posted[p] ELSE 0

\* The calls that have taken a buffer, now or before.
Past == {x \in Message : call[x] \in {"set", "post", "done"}}

--------------------------------------------------------------------------------
Types == /\ call \in [Message -> Calls]
         /\ registered \in Nat
         /\ msg_mr \in [Message -> Created \cup {NoBuffer}]
         /\ send_msg_buf \in Seq(Created)
         /\ content \in Seq(Message \cup {NoMessage}) /\ Len(content) = registered
         /\ outstanding_sge_cnt \in [Piece -> Nat]
         /\ posted \in [Piece -> Nat]
         /\ live \subseteq Message \cup Piece
         /\ poller \in Place
         /\ sq \in Seq(Message \cup Piece) /\ cq \in Seq(Message \cup Piece)
         /\ delivered \in Seq(Message) /\ called \subseteq HasCallback

\* What a call has done, by its place: its id lives and is named once from the
\* post to the release, its buffer holds it as long, and its callback is called
\* in between.
Sent(x) == /\ InQueues(x) = IF x \in live THEN 1 ELSE 0
           /\ x \in live => call[x] = "done"
           /\ call[x] \in {"set", "post"} \/ x \in live => msg_mr[x] \in Created
           /\ call[x] = "post" \/ x \in live => content[msg_mr[x]] = x
           /\ x \in called => call[x] = "done"
           /\ x \in called /\ x \in live => poller.at = "SendDone" /\ poller.msg = x

Messages == \A x \in Message : Sent(x)

\* What a callback sends waits for it.
Unasked == \A y \in HasCallback \ called : \A z \in Reply[y] : call[z] = "idle"

\* The poller handles the oldest completion, and keeps it until it is done.
Handling == poller.at = "SendDone" =>
              /\ poller.msg \in live
              /\ cq # <<>> /\ Head(cq) = poller.msg

\* The counter of a piece is what is still to be posted or reported.
Written(p) == /\ outstanding_sge_cnt[p] = InQueues(p) + ToPost(p)
              /\ p \in live <=> outstanding_sge_cnt[p] > 0
              /\ outstanding_sge_cnt[p] <= Elements[p] /\ posted[p] <= Elements[p]
              /\ poller = Writing(p) => posted[p] < Elements[p]
              /\ posted[p] = 0 /\ poller # Writing(p) => outstanding_sge_cnt[p] = 0

Pieces == \A p \in Piece : Written(p)

\* A buffer is in the pool once, or has one user.
Owned(r) == \/ Users(r) = {} /\ Count(send_msg_buf, r) = 1
            \/ (\E x \in Message : Users(r) = {x}) /\ Count(send_msg_buf, r) = 0

Buffers == \A r \in Created : Owned(r)

Fits == registered <= Cardinality(Past)

PoolInv == Types /\ Messages /\ Unasked /\ Handling /\ Pieces /\ Buffers /\ Fits

--------------------------------------------------------------------------------
(* Places of the poller, and the queues.                                   *)

LEMMA Places ==
  /\ Polling.at = "Poll"
  /\ \A p : Writing(p).at = "Writing" /\ Writing(p).piece = p /\ Writing(p) # Polling
  /\ \A p, q : Writing(p) = Writing(q) => p = q
  /\ \A pl \in Place : pl.at = "SendDone" => pl.msg \in Message /\ pl.waits \subseteq Message
  /\ \A pl \in Place : pl = Polling => pl.at # "SendDone"
  /\ \A p \in Piece : Writing(p) \in Place
  /\ Polling \in Place
  <1>1. Polling.at = "Poll"
    BY DEF Polling
  <1>2. \A p : Writing(p).at = "Writing" /\ Writing(p).piece = p
    BY DEF Writing
  <1>3. \A pl \in Place : pl.at = "SendDone" => pl.msg \in Message /\ pl.waits \subseteq Message
    BY DEF Place, Polling
  <1>4. \A p \in Piece : Writing(p) \in Place
    BY DEF Place, Writing
  <1>5. Polling \in Place
    BY DEF Place
  <1>6. \A p : Writing(p) # Polling
    BY <1>1, <1>2
  <1>7. \A p, q : Writing(p) = Writing(q) => p = q
    BY <1>2
  <1> QED BY <1>1, <1>2, <1>3, <1>4, <1>5, <1>6, <1>7

LEMMA QueuesNat == Types => \A id : InQueues(id) \in Nat /\ Count(sq, id) \in Nat /\ Count(cq, id) \in Nat
  <1> SUFFICES ASSUME Types, NEW id
               PROVE  InQueues(id) \in Nat /\ Count(sq, id) \in Nat /\ Count(cq, id) \in Nat
    OBVIOUS
  <1>1. Count(sq, id) \in Nat /\ Count(cq, id) \in Nat
    BY CountNat DEF Types
  <1> QED BY <1>1 DEF InQueues

\* A post names an id once more ...
LEMMA PostedNames ==
  ASSUME Types, NEW y \in Message \cup Piece, sq' = Append(sq, y), UNCHANGED cq
  PROVE  /\ InQueues(y)' = InQueues(y) + 1
         /\ \A id : id # y => InQueues(id)' = InQueues(id)
         /\ sq' \in Seq(Message \cup Piece)
  <1>1. sq \in Seq(Message \cup Piece)
    BY DEF Types
  <1>2. \A id : Count(Append(sq, y), id) = IF y = id THEN Count(sq, id) + 1 ELSE Count(sq, id)
    BY <1>1, CountAppend
  <1>3. \A id : Count(sq, id) \in Nat /\ Count(cq, id) \in Nat
    BY QueuesNat
  <1>4. InQueues(y)' = InQueues(y) + 1
    <2>1. Count(sq', y) = Count(sq, y) + 1
      BY <1>2
    <2> QED BY <2>1, <1>3 DEF InQueues
  <1>5. ASSUME NEW id, id # y PROVE InQueues(id)' = InQueues(id)
    <2>1. Count(sq', id) = Count(sq, id)
      BY <1>2, <1>5
    <2> QED BY <2>1 DEF InQueues
  <1>6. sq' \in Seq(Message \cup Piece)
    BY <1>1, AppendProperties
  <1> QED BY <1>4, <1>5, <1>6

\* ... the device keeps the names ...
LEMMA TransmittedNames ==
  ASSUME Types, sq # <<>>, sq' = Tail(sq), cq' = Append(cq, Head(sq))
  PROVE  /\ \A id : InQueues(id)' = InQueues(id)
         /\ sq' \in Seq(Message \cup Piece) /\ cq' \in Seq(Message \cup Piece)
  <1>1. sq \in Seq(Message \cup Piece) /\ cq \in Seq(Message \cup Piece)
    BY DEF Types
  <1>2. Head(sq) \in Message \cup Piece /\ Tail(sq) \in Seq(Message \cup Piece)
    BY <1>1, HeadTailProperties
  <1>3. cq' \in Seq(Message \cup Piece)
    BY <1>1, <1>2, AppendProperties
  <1>4. ASSUME NEW id PROVE InQueues(id)' = InQueues(id)
    <2>1. Count(sq', id) = IF Head(sq) = id THEN Count(sq, id) - 1 ELSE Count(sq, id)
      BY <1>1, CountTail
    <2>2. Count(cq', id) = IF Head(sq) = id THEN Count(cq, id) + 1 ELSE Count(cq, id)
      BY <1>1, <1>2, CountAppend
    <2>3. Count(sq, id) \in Nat /\ Count(cq, id) \in Nat
      BY QueuesNat
    <2> QED BY <2>1, <2>2, <2>3 DEF InQueues
  <1> QED BY <1>2, <1>3, <1>4

\* ... and the end of a handler takes one away.
LEMMA HandledNames ==
  ASSUME Types, NEW y, cq # <<>>, Head(cq) = y, cq' = Tail(cq), UNCHANGED sq
  PROVE  /\ InQueues(y)' = InQueues(y) - 1
         /\ \A id : id # y => InQueues(id)' = InQueues(id)
         /\ cq' \in Seq(Message \cup Piece)
  <1>1. cq \in Seq(Message \cup Piece)
    BY DEF Types
  <1>2. \A id : Count(Tail(cq), id) = IF y = id THEN Count(cq, id) - 1 ELSE Count(cq, id)
    BY <1>1, CountTail
  <1>3. \A id : Count(sq, id) \in Nat /\ Count(cq, id) \in Nat
    BY QueuesNat
  <1>4. InQueues(y)' = InQueues(y) - 1
    <2>1. Count(cq', y) = Count(cq, y) - 1
      BY <1>2
    <2> QED BY <2>1, <1>3 DEF InQueues
  <1>5. ASSUME NEW id, id # y PROVE InQueues(id)' = InQueues(id)
    <2>1. Count(cq', id) = Count(cq, id)
      BY <1>2, <1>5
    <2> QED BY <2>1 DEF InQueues
  <1>6. cq' \in Seq(Message \cup Piece)
    BY <1>1, HeadTailProperties
  <1> QED BY <1>4, <1>5, <1>6

\* What a completion names is named.
LEMMA HeadNamed ==
  ASSUME Types, cq # <<>>
  PROVE  InQueues(Head(cq)) > 0
  <1>1. Count(cq, Head(cq)) > 0
    BY CountHead DEF Types
  <1>2. Count(sq, Head(cq)) \in Nat /\ Count(cq, Head(cq)) \in Nat
    BY QueuesNat
  <1> QED BY <1>1, <1>2 DEF InQueues
--------------------------------------------------------------------------------
(* Steps that leave a part alone.                                          *)

LEMMA BuffersKept ==
  ASSUME Buffers, UNCHANGED <<registered, send_msg_buf>>,
         \A z \in Message :
           LET uses == call[z] \in {"set", "post"} \/ z \in live IN
             /\ uses' <=> uses
             /\ uses => msg_mr'[z] = msg_mr[z]
  PROVE  Buffers'
  <1>1. \A r : Users(r)' = Users(r)
    BY DEF Users
  <1> QED BY <1>1 DEF Buffers, Owned, Created

LEMMA PiecesKept ==
  ASSUME Pieces, UNCHANGED <<outstanding_sge_cnt, posted>>,
         \A p \in Piece : /\ InQueues(p)' = InQueues(p)
                          /\ p \in live' <=> p \in live
                          /\ poller' = Writing(p) <=> poller = Writing(p)
  PROVE  Pieces'
  <1> SUFFICES ASSUME NEW p \in Piece PROVE Written(p)'
    BY DEF Pieces
  <1>1. Written(p)
    BY DEF Pieces
  <1>2. ToPost(p)' = ToPost(p)
    BY DEF ToPost, Writing
  <1>3. (poller = Writing(p))' <=> poller = Writing(p)
    BY DEF Writing
  <1> QED BY <1>1, <1>2, <1>3 DEF Written

LEMMA FitsKept ==
  ASSUME Fits, UNCHANGED registered,
         \A z \in Message : call'[z] \in {"set", "post", "done"} <=> call[z] \in {"set", "post", "done"}
  PROVE  Fits'
  BY DEF Fits, Past

\* A message a step does not touch.
LEMMA SentKept ==
  ASSUME NEW z \in Message, Sent(z), InQueues(z)' = InQueues(z), call'[z] = call[z],
         z \in live' <=> z \in live, z \in called' <=> z \in called,
         call[z] \in {"set", "post"} \/ z \in live =>
           msg_mr'[z] = msg_mr[z] /\ (msg_mr[z] \in Created => msg_mr[z] \in Created'),
         call[z] = "post" \/ z \in live => content'[msg_mr'[z]] = content[msg_mr[z]],
         z \in called /\ z \in live /\ poller.at = "SendDone" /\ poller.msg = z =>
           poller'.at = "SendDone" /\ poller'.msg = z
  PROVE  Sent(z)'
  BY DEF Sent
--------------------------------------------------------------------------------
LEMMA PoolInit == Init => PoolInv
  <1> SUFFICES ASSUME Init PROVE PoolInv
    OBVIOUS
  <1>1. Types
    BY Places, SendPoolAssumption DEF Init, Types, Calls
  <1>2. \A id : InQueues(id) = 0
    BY CountEmpty DEF Init, InQueues
  <1>3. Messages
    BY <1>2 DEF Init, Messages, Sent
  <1>4. Unasked
    BY SendPoolAssumption DEF Init, Unasked
  <1>5. Handling
    BY Places DEF Init, Handling
  <1>6. Pieces
    BY <1>2, Places, SendPoolAssumption DEF Init, Pieces, Written, ToPost
  <1>7. Buffers
    BY DEF Init, Buffers, Created
  <1>8. Fits
    <2>1. Past = {}
      BY DEF Init, Past
    <2> QED BY <2>1, FS_EmptySet DEF Init, Fits
  <1> QED BY <1>1, <1>3, <1>4, <1>5, <1>6, <1>7, <1>8 DEF PoolInv

LEMMA EnterNext ==
  ASSUME PoolInv, NEW x \in Message, Enter(x)
  PROVE  PoolInv'
  <1> USE DEF PoolInv
  <1>1. /\ call[x] = "idle" /\ call' = [call EXCEPT ![x] = "take"]
        /\ UNCHANGED <<msg_mr, send_msg_buf, registered, content, outstanding_sge_cnt, posted, live,
                       sq, cq, poller, delivered, called>>
    BY DEF Enter, Step, pool_vars, write_vars
  <1>2. Types'
    BY <1>1 DEF Types, Calls, Created
  <1>3. \A id : InQueues(id)' = InQueues(id)
    BY <1>1 DEF InQueues
  <1>4. \A z \in Message : call'[z] = IF z = x THEN "take" ELSE call[z]
    BY <1>1 DEF Types
  <1>5. Sent(x) /\ x \notin live /\ x \notin called
    BY <1>1 DEF Messages, Sent
  <1>6. Messages'
    <2> SUFFICES ASSUME NEW z \in Message PROVE Sent(z)'
      BY DEF Messages
    <2>1. CASE z = x
      BY <2>1, <1>1, <1>3, <1>4, <1>5 DEF Sent
    <2>2. CASE z # x
      BY <2>2, <1>1, <1>3, <1>4, SentKept DEF Messages, Created
    <2> QED BY <2>1, <2>2
  <1>7. Unasked'
    BY <1>1, <1>4 DEF Unasked, Enter, Replies
  <1>8. Handling'
    BY <1>1 DEF Handling
  <1>9. Pieces'
    BY <1>1, <1>3, PiecesKept
  <1>10. Buffers'
    <2>1. \A z \in Message : call'[z] \in {"set", "post"} <=> call[z] \in {"set", "post"}
      BY <1>1, <1>4
    <2> QED BY <2>1, <1>1, BuffersKept
  <1>11. Fits'
    BY <1>1, <1>4, FitsKept
  <1> QED BY <1>2, <1>6, <1>7, <1>8, <1>9, <1>10, <1>11

LEMMA TakeNext ==
  ASSUME PoolInv, NEW x \in Message, Take(x)
  PROVE  PoolInv'
  <1> USE DEF PoolInv
  <1>1. /\ call[x] = "take" /\ call' = [call EXCEPT ![x] = "set"]
        /\ UNCHANGED <<outstanding_sge_cnt, posted, live, sq, cq, poller, delivered, called>>
        /\ GetOneSendMsgMRFromBuf(x)
    BY DEF Take, Step, write_vars
  <1>2. PICK r : /\ msg_mr' = [msg_mr EXCEPT ![x] = r]
                 /\ \/ /\ send_msg_buf = <<>> /\ UNCHANGED send_msg_buf
                       /\ r = registered + 1 /\ registered' = r /\ content' = Append(content, NoMessage)
                    \/ /\ send_msg_buf # <<>> /\ send_msg_buf' = Tail(send_msg_buf)
                       /\ r = Head(send_msg_buf) /\ UNCHANGED <<registered, content>>
    BY <1>1 DEF GetOneSendMsgMRFromBuf
  <1>3. /\ registered' \in Nat /\ r \in Created' /\ Created \subseteq Created'
        /\ send_msg_buf' \in Seq(Created')
        /\ content' \in Seq(Message \cup {NoMessage}) /\ Len(content') = registered'
        /\ \A q \in Created : content'[q] = content[q]
    <2>1. /\ registered \in Nat /\ send_msg_buf \in Seq(Created)
          /\ content \in Seq(Message \cup {NoMessage}) /\ Len(content) = registered
      BY DEF Types
    <2>2. CASE send_msg_buf = <<>>
      <3>1. /\ r = registered + 1 /\ registered' = r /\ content' = Append(content, NoMessage)
            /\ send_msg_buf' = <<>>
        BY <1>2, <2>2
      <3>2. r \in Created' /\ Created \subseteq Created'
        BY <2>1, <3>1 DEF Created
      <3>3. content' \in Seq(Message \cup {NoMessage}) /\ Len(content') = registered'
        BY <2>1, <3>1, AppendProperties
      <3>4. \A q \in Created : content'[q] = content[q]
        BY <2>1, <3>1, AppendProperties DEF Created
      <3>5. send_msg_buf' \in Seq(Created')
        BY <3>1
      <3>6. registered' \in Nat
        BY <2>1, <3>1
      <3> QED BY <3>2, <3>3, <3>4, <3>5, <3>6
    <2>3. CASE send_msg_buf # <<>>
      <3>1. /\ send_msg_buf' = Tail(send_msg_buf) /\ r = Head(send_msg_buf)
            /\ registered' = registered /\ content' = content
        BY <1>2, <2>3
      <3>2. Created' = Created
        BY <3>1 DEF Created
      <3>3. r \in Created /\ Tail(send_msg_buf) \in Seq(Created)
        BY <2>1, <2>3, <3>1, HeadTailProperties
      <3> QED BY <2>1, <3>1, <3>2, <3>3
    <2> QED BY <2>2, <2>3
  <1>4. Types'
    <2>1. call' \in [Message -> Calls]
      BY <1>1 DEF Types, Calls
    <2>2. msg_mr' \in [Message -> Created' \cup {NoBuffer}]
      BY <1>2, <1>3 DEF Types
    <2> QED BY <1>1, <1>3, <2>1, <2>2 DEF Types
  <1>5. \A id : InQueues(id)' = InQueues(id)
    BY <1>1 DEF InQueues
  <1>6. \A z \in Message : /\ call'[z] = IF z = x THEN "set" ELSE call[z]
                           /\ msg_mr'[z] = IF z = x THEN r ELSE msg_mr[z]
    BY <1>1, <1>2 DEF Types
  <1>7. Sent(x) /\ x \notin live /\ x \notin called
    BY <1>1 DEF Messages, Sent
  <1>8. Messages'
    <2> SUFFICES ASSUME NEW z \in Message PROVE Sent(z)'
      BY DEF Messages
    <2>1. CASE z = x
      BY <2>1, <1>1, <1>3, <1>5, <1>6, <1>7 DEF Sent
    <2>2. CASE z # x
      <3>1. Sent(z)
        BY DEF Messages
      <3>2. call[z] \in {"set", "post"} \/ z \in live =>
              msg_mr'[z] = msg_mr[z] /\ (msg_mr[z] \in Created => msg_mr[z] \in Created')
        BY <2>2, <1>3, <1>6
      <3>3. call[z] = "post" \/ z \in live => content'[msg_mr'[z]] = content[msg_mr[z]]
        BY <2>2, <3>1, <1>3, <1>6 DEF Sent
      <3> QED BY <2>2, <3>1, <3>2, <3>3, <1>1, <1>5, <1>6, SentKept
    <2> QED BY <2>1, <2>2
  <1>9. Unasked'
    <2>1. \A y \in HasCallback : Reply[y] \subseteq Message
      BY SendPoolAssumption
    <2> QED BY <2>1, <1>1, <1>6 DEF Unasked
  <1>10. Handling'
    BY <1>1 DEF Handling
  <1>11. Pieces'
    BY <1>1, <1>5, PiecesKept
  <1>12. ASSUME NEW z \in Message PROVE z \in Users(r) => FALSE
    <2> SUFFICES ASSUME z \in Users(r) PROVE FALSE
      OBVIOUS
    <2>1. msg_mr[z] = r /\ r \in Created
      BY DEF Users, Messages, Sent
    <2>2. send_msg_buf # <<>>
      BY <1>2, <2>1 DEF Types, Created
    <2>3. Count(send_msg_buf, r) > 0
      BY <1>2, <2>2, CountHead DEF Types
    <2> QED BY <2>1, <2>3 DEF Buffers, Owned
  <1>13. Users(r)' = {x}
    BY <1>1, <1>6, <1>7, <1>12 DEF Users
  <1>14. ASSUME NEW q, q # r PROVE Users(q)' = Users(q)
    BY <1>14, <1>1, <1>6, <1>7 DEF Users
  <1>15. \A q : Count(send_msg_buf, q)' = IF send_msg_buf # <<>> /\ q = r THEN Count(send_msg_buf, q) - 1
                                                                       ELSE Count(send_msg_buf, q)
    <2>1. CASE send_msg_buf = <<>>
      BY <2>1, <1>2
    <2>2. CASE send_msg_buf # <<>>
      <3>1. \A q : Count(Tail(send_msg_buf), q) = IF Head(send_msg_buf) = q THEN Count(send_msg_buf, q) - 1
                                                                           ELSE Count(send_msg_buf, q)
        BY <2>2, CountTail DEF Types
      <3> QED BY <2>2, <3>1, <1>2
    <2> QED BY <2>1, <2>2
  <1>16. Count(send_msg_buf, r)' = 0
    <2>1. CASE send_msg_buf = <<>>
      BY <2>1, <1>15, CountEmpty
    <2>2. CASE send_msg_buf # <<>>
      <3>1. r \in Created /\ Count(send_msg_buf, r) > 0
        BY <2>2, <1>2, CountHead, HeadTailProperties DEF Types
      <3>2. Count(send_msg_buf, r) = 1
        BY <3>1 DEF Buffers, Owned
      <3> QED BY <2>2, <3>2, <1>15
    <2> QED BY <2>1, <2>2
  <1>17. Buffers'
    <2> SUFFICES ASSUME NEW q \in Created' PROVE Owned(q)'
      BY DEF Buffers
    <2>1. CASE q = r
      BY <2>1, <1>13, <1>16 DEF Owned
    <2>2. CASE q # r
      <3>1. q \in Created
        BY <2>2, <1>2 DEF Created, Types
      <3>2. Count(send_msg_buf, q)' = Count(send_msg_buf, q) /\ Users(q)' = Users(q)
        BY <2>2, <1>14, <1>15
      <3> QED BY <3>1, <3>2 DEF Buffers, Owned
    <2> QED BY <2>1, <2>2
  <1>18. Fits'
    <2>1. Past' = Past \cup {x} /\ x \notin Past
      BY <1>1, <1>6 DEF Past
    <2>2. IsFiniteSet(Past)
      BY SendPoolAssumption, FS_Subset DEF Past
    <2>3. Cardinality(Past') = Cardinality(Past) + 1 /\ Cardinality(Past) \in Nat
      BY <2>1, <2>2, FS_AddElement, FS_CardinalityType
    <2>4. registered' <= registered + 1 /\ registered \in Nat /\ registered' \in Nat
      BY <1>2, <1>3 DEF Types
    <2> QED BY <2>3, <2>4 DEF Fits
  <1> QED BY <1>4, <1>8, <1>9, <1>10, <1>11, <1>17, <1>18

LEMMA SetMsgNext ==
  ASSUME PoolInv, NEW x \in Message, SetMsg(x)
  PROVE  PoolInv'
  <1> USE DEF PoolInv
  <1>1. /\ call[x] = "set" /\ call' = [call EXCEPT ![x] = "post"]
        /\ content' = [content EXCEPT ![msg_mr[x]] = x]
        /\ UNCHANGED <<msg_mr, send_msg_buf, registered, outstanding_sge_cnt, posted, live, sq, cq,
                       poller, delivered, called>>
    BY DEF SetMsg, Step, write_vars
  <1>2. Sent(x) /\ x \notin live /\ x \notin called /\ msg_mr[x] \in Created
    BY <1>1 DEF Messages, Sent
  <1>3. DOMAIN content = Created
    BY DEF Types, Created
  <1>4. \A q \in Created : content'[q] = IF q = msg_mr[x] THEN x ELSE content[q]
    BY <1>1, <1>3 DEF Types
  <1>5. content' \in Seq(Message \cup {NoMessage}) /\ Len(content') = registered
    <2>1. content \in Seq(Message \cup {NoMessage}) /\ Len(content) = registered
      BY DEF Types
    <2>2. msg_mr[x] \in 1 .. Len(content)
      BY <1>2, <2>1 DEF Created
    <2> QED BY <2>1, <2>2, <1>1, ExceptSeq
  <1>6. Types'
    <2>1. call' \in [Message -> Calls]
      BY <1>1 DEF Types, Calls
    <2> QED BY <1>1, <1>5, <2>1 DEF Types, Created
  <1>7. \A id : InQueues(id)' = InQueues(id)
    BY <1>1 DEF InQueues
  <1>8. \A z \in Message : call'[z] = IF z = x THEN "post" ELSE call[z]
    BY <1>1 DEF Types
  <1>9. ASSUME NEW z \in Message, call[z] \in {"set", "post"} \/ z \in live, msg_mr[z] = msg_mr[x]
        PROVE  z = x
    <2>1. z \in Users(msg_mr[x]) /\ x \in Users(msg_mr[x])
      BY <1>1, <1>9 DEF Users
    <2>2. Owned(msg_mr[x])
      BY <1>2 DEF Buffers
    <2> QED BY <2>1, <2>2 DEF Owned
  <1>10. Messages'
    <2> SUFFICES ASSUME NEW z \in Message PROVE Sent(z)'
      BY DEF Messages
    <2>1. CASE z = x
      BY <2>1, <1>1, <1>2, <1>4, <1>7, <1>8 DEF Sent, Created
    <2>2. CASE z # x
      <3>1. Sent(z)
        BY DEF Messages
      <3>2. call[z] = "post" \/ z \in live => content'[msg_mr'[z]] = content[msg_mr[z]]
        BY <2>2, <3>1, <1>1, <1>4, <1>9 DEF Sent
      <3> QED BY <2>2, <3>1, <3>2, <1>1, <1>7, <1>8, SentKept DEF Created
    <2> QED BY <2>1, <2>2
  <1>11. Unasked'
    <2>1. \A y \in HasCallback : Reply[y] \subseteq Message
      BY SendPoolAssumption
    <2> QED BY <2>1, <1>1, <1>8 DEF Unasked
  <1>12. Handling'
    BY <1>1 DEF Handling
  <1>13. Pieces'
    BY <1>1, <1>7, PiecesKept
  <1>14. Buffers'
    <2>1. \A z \in Message : call'[z] \in {"set", "post"} <=> call[z] \in {"set", "post"}
      BY <1>1, <1>8
    <2> QED BY <2>1, <1>1, BuffersKept
  <1>15. Fits'
    BY <1>1, <1>8, FitsKept
  <1> QED BY <1>6, <1>10, <1>11, <1>12, <1>13, <1>14, <1>15

LEMMA PostSendNext ==
  ASSUME PoolInv, NEW x \in Message, PostSend(x)
  PROVE  PoolInv'
  <1> USE DEF PoolInv
  <1>1. /\ call[x] = "post" /\ call' = [call EXCEPT ![x] = "done"]
        /\ live' = live \cup {x} /\ sq' = Append(sq, x)
        /\ UNCHANGED <<msg_mr, send_msg_buf, registered, content, outstanding_sge_cnt, posted, cq,
                       poller, delivered, called>>
    BY DEF PostSend, Step, pool_vars, write_vars
  <1>2. Sent(x) /\ x \notin live /\ x \notin called
    BY <1>1 DEF Messages, Sent
  <1>3. /\ InQueues(x)' = InQueues(x) + 1
        /\ \A id : id # x => InQueues(id)' = InQueues(id)
        /\ sq' \in Seq(Message \cup Piece)
    BY <1>1, PostedNames
  <1>4. Types'
    <2>1. call' \in [Message -> Calls]
      BY <1>1 DEF Types, Calls
    <2>2. live' \subseteq Message \cup Piece
      BY <1>1 DEF Types
    <2> QED BY <1>1, <1>3, <2>1, <2>2 DEF Types, Created
  <1>5. \A z \in Message : call'[z] = IF z = x THEN "done" ELSE call[z]
    BY <1>1 DEF Types
  <1>6. Messages'
    <2> SUFFICES ASSUME NEW z \in Message PROVE Sent(z)'
      BY DEF Messages
    <2>1. CASE z = x
      <3>1. InQueues(x)' = 1
        BY <1>2, <1>3 DEF Sent
      <3> QED BY <2>1, <3>1, <1>1, <1>2, <1>5 DEF Sent, Created
    <2>2. CASE z # x
      BY <2>2, <1>1, <1>3, <1>5, SentKept DEF Messages, Created
    <2> QED BY <2>1, <2>2
  <1>7. Unasked'
    <2>1. \A y \in HasCallback : Reply[y] \subseteq Message
      BY SendPoolAssumption
    <2> QED BY <2>1, <1>1, <1>5 DEF Unasked
  <1>8. Handling'
    BY <1>1 DEF Handling
  <1>9. Pieces'
    <2>1. \A p \in Piece : p # x
      BY SendPoolAssumption
    <2> QED BY <2>1, <1>1, <1>3, PiecesKept
  <1>10. Buffers'
    <2>1. \A z \in Message : call'[z] \in {"set", "post"} \/ z \in live'
                             <=> call[z] \in {"set", "post"} \/ z \in live
      BY <1>1, <1>2, <1>5
    <2> QED BY <2>1, <1>1, BuffersKept
  <1>11. Fits'
    BY <1>1, <1>5, FitsKept
  <1> QED BY <1>4, <1>6, <1>7, <1>8, <1>9, <1>10, <1>11

LEMMA TransmitNext == PoolInv /\ Transmit => PoolInv'
  <1> SUFFICES ASSUME PoolInv, Transmit PROVE PoolInv'
    OBVIOUS
  <1> USE DEF PoolInv
  <1>1. /\ sq # <<>> /\ sq' = Tail(sq) /\ cq' = Append(cq, Head(sq))
        /\ delivered' = IF Head(sq) \in Message THEN Append(delivered, content[msg_mr[Head(sq)]])
                                                ELSE delivered
        /\ UNCHANGED <<call, msg_mr, send_msg_buf, registered, content, outstanding_sge_cnt, posted,
                       live, poller, called>>
    BY DEF Transmit, pool_vars, write_vars
  <1>2. /\ \A id : InQueues(id)' = InQueues(id)
        /\ sq' \in Seq(Message \cup Piece) /\ cq' \in Seq(Message \cup Piece)
    BY <1>1, TransmittedNames
  <1>3. delivered' \in Seq(Message)
    <2>1. CASE Head(sq) \in Message
      <3>1. InQueues(Head(sq)) > 0
        <4>1. Count(sq, Head(sq)) > 0
          BY <1>1, CountHead DEF Types
        <4>2. Count(sq, Head(sq)) \in Nat /\ Count(cq, Head(sq)) \in Nat
          BY QueuesNat
        <4> QED BY <4>1, <4>2 DEF InQueues
      <3>2. content[msg_mr[Head(sq)]] = Head(sq)
        BY <2>1, <3>1 DEF Messages, Sent
      <3> QED BY <2>1, <3>2, <1>1, AppendProperties DEF Types
    <2>2. CASE Head(sq) \notin Message
      BY <2>2, <1>1 DEF Types
    <2> QED BY <2>1, <2>2
  <1>4. Types'
    BY <1>1, <1>2, <1>3 DEF Types, Created
  <1>5. Messages'
    BY <1>1, <1>2, SentKept DEF Messages, Created
  <1>6. Unasked'
    BY <1>1 DEF Unasked
  <1>7. Handling'
    <2>1. ASSUME cq # <<>> PROVE cq' # <<>> /\ Head(cq') = Head(cq)
      <3>1. cq \in Seq(Message \cup Piece) /\ Head(sq) \in Message \cup Piece
        BY <1>1, HeadTailProperties DEF Types
      <3> QED BY <2>1, <3>1, <1>1, AppendProperties
    <2> QED BY <2>1, <1>1 DEF Handling
  <1>8. Pieces'
    BY <1>1, <1>2, PiecesKept
  <1>9. Buffers'
    BY <1>1, BuffersKept
  <1>10. Fits'
    BY <1>1, FitsKept
  <1> QED BY <1>4, <1>5, <1>6, <1>7, <1>8, <1>9, <1>10

LEMMA BeginWriteNext ==
  ASSUME PoolInv, NEW p \in Piece, BeginWrite(p)
  PROVE  PoolInv'
  <1> USE DEF PoolInv
  <1>1. /\ poller = Polling /\ posted[p] = 0 /\ poller' = Writing(p) /\ live' = live \cup {p}
        /\ outstanding_sge_cnt' = [outstanding_sge_cnt EXCEPT ![p] = Elements[p]]
        /\ UNCHANGED <<call, msg_mr, send_msg_buf, registered, content, posted, sq, cq, delivered, called>>
    BY DEF BeginWrite, SgeCount, Writing, pool_vars
  <1>2. Elements[p] \in Nat /\ Elements[p] > 0
    BY SendPoolAssumption
  <1>3. Types'
    <2>1. poller' \in Place
      BY <1>1, Places
    <2>2. outstanding_sge_cnt' \in [Piece -> Nat]
      BY <1>1, <1>2 DEF Types
    <2>3. live' \subseteq Message \cup Piece
      BY <1>1 DEF Types
    <2> QED BY <1>1, <2>1, <2>2, <2>3 DEF Types, Created
  <1>4. \A id : InQueues(id)' = InQueues(id) /\ InQueues(id) \in Nat
    BY <1>1, QueuesNat DEF InQueues
  <1>5. poller.at # "SendDone" /\ poller'.at # "SendDone"
    BY <1>1, Places
  <1>6. \A z \in Message : z # p
    BY SendPoolAssumption
  <1>7. Messages'
    BY <1>1, <1>4, <1>5, <1>6, SentKept DEF Messages, Created
  <1>8. Unasked'
    BY <1>1 DEF Unasked
  <1>9. Handling'
    BY <1>5 DEF Handling
  <1>10. Pieces'
    <2> SUFFICES ASSUME NEW q \in Piece PROVE Written(q)'
      BY DEF Pieces
    <2>1. (Writing(q))' = Writing(q)
      BY DEF Writing
    <2>2. poller # Writing(q)
      BY <1>1, Places
    <2>3. Written(q)
      BY DEF Pieces
    <2>4. CASE q = p
      <3>1. outstanding_sge_cnt'[p] = Elements[p]
        BY <1>1 DEF Types
      <3>2. outstanding_sge_cnt[p] = InQueues(p) + 0
        BY <2>2, <2>3, <2>4 DEF Written, ToPost
      <3>3. outstanding_sge_cnt[p] = 0
        BY <1>1, <2>2, <2>3, <2>4 DEF Written
      <3>4. InQueues(p) = 0
        BY <3>2, <3>3, <1>4
      <3>5. ToPost(p)' = Elements[p]
        BY <1>1, <1>2, <2>1, <2>4 DEF ToPost
      <3>6. InQueues(p)' = 0
        BY <3>4, <1>4
      <3> QED BY <2>1, <2>4, <3>1, <3>5, <3>6, <1>1, <1>2 DEF Written
    <2>5. CASE q # p
      <3>1. poller' # Writing(q)
        BY <1>1, <2>5, Places
      <3>2. outstanding_sge_cnt'[q] = outstanding_sge_cnt[q]
        BY <1>1, <2>5 DEF Types
      <3>3. ToPost(q)' = ToPost(q)
        BY <2>1, <2>2, <3>1 DEF ToPost
      <3>4. q \in live' <=> q \in live
        BY <1>1, <2>5
      <3> QED BY <2>1, <2>2, <2>3, <3>1, <3>2, <3>3, <3>4, <1>1, <1>4 DEF Written
    <2> QED BY <2>4, <2>5
  <1>11. Buffers'
    BY <1>1, <1>6, BuffersKept
  <1>12. Fits'
    BY <1>1, FitsKept
  <1> QED BY <1>3, <1>7, <1>8, <1>9, <1>10, <1>11, <1>12

LEMMA PostWriteNext ==
  ASSUME PoolInv, NEW p \in Piece, PostWrite(p)
  PROVE  PoolInv'
  <1> USE DEF PoolInv
  <1>1. /\ poller = Writing(p) /\ sq' = Append(sq, p)
        /\ posted' = [posted EXCEPT ![p] = @ + 1]
        /\ poller' = IF posted'[p] = Elements[p] THEN Polling ELSE poller
        /\ UNCHANGED <<call, msg_mr, send_msg_buf, registered, content, outstanding_sge_cnt, live, cq,
                       delivered, called>>
    BY DEF PostWrite, Writing, pool_vars
  <1>2. Elements[p] \in Nat /\ posted[p] \in Nat /\ posted'[p] = posted[p] + 1 /\ posted[p] < Elements[p]
    <2>1. Elements[p] \in Nat /\ posted[p] \in Nat /\ posted'[p] = posted[p] + 1
      BY <1>1, SendPoolAssumption DEF Types
    <2>2. posted[p] < Elements[p]
      BY <1>1 DEF Pieces, Written
    <2> QED BY <2>1, <2>2
  <1>3. /\ InQueues(p)' = InQueues(p) + 1
        /\ \A id : id # p => InQueues(id)' = InQueues(id)
        /\ sq' \in Seq(Message \cup Piece)
    BY <1>1, PostedNames
  <1>4. Types'
    <2>1. poller' \in Place
      BY <1>1, Places
    <2>2. posted' \in [Piece -> Nat]
      BY <1>1, <1>2 DEF Types
    <2> QED BY <1>1, <1>3, <2>1, <2>2 DEF Types, Created
  <1>5. poller.at # "SendDone" /\ poller'.at # "SendDone"
    BY <1>1, Places
  <1>6. \A z \in Message : z # p
    BY SendPoolAssumption
  <1>7. Messages'
    BY <1>1, <1>3, <1>5, <1>6, SentKept DEF Messages, Created
  <1>8. Unasked'
    BY <1>1 DEF Unasked
  <1>9. Handling'
    BY <1>5 DEF Handling
  <1>10. Pieces'
    <2> SUFFICES ASSUME NEW q \in Piece PROVE Written(q)'
      BY DEF Pieces
    <2>1. (Writing(q))' = Writing(q)
      BY DEF Writing
    <2>2. Written(q)
      BY DEF Pieces
    <2>3. CASE q = p
      <3>1. InQueues(p) \in Nat /\ outstanding_sge_cnt[p] = InQueues(p) + (Elements[p] - posted[p])
        BY <1>1, <2>2, <2>3, QueuesNat DEF Written, ToPost
      <3>2. ToPost(p)' = Elements[p] - posted'[p]
        <4>1. CASE posted'[p] = Elements[p]
          <5>1. poller' # Writing(p)
            BY <4>1, <1>1, Places
          <5> QED BY <4>1, <5>1, <1>2, <2>1, <2>3 DEF ToPost
        <4>2. CASE posted'[p] # Elements[p]
          BY <4>2, <1>1, <2>1, <2>3 DEF ToPost
        <4> QED BY <4>1, <4>2
      <3>3. outstanding_sge_cnt'[p] = InQueues(p)' + ToPost(p)'
        BY <3>1, <3>2, <1>1, <1>2, <1>3
      <3>4. outstanding_sge_cnt'[p] = outstanding_sge_cnt[p] /\ (p \in live' <=> p \in live)
        BY <1>1
      <3>5. posted'[p] <= Elements[p] /\ posted'[p] # 0
        BY <1>2
      <3>6. poller' = Writing(p) => posted'[p] < Elements[p]
        BY <1>1, <1>2, Places
      <3> QED BY <2>1, <2>2, <2>3, <3>3, <3>4, <3>5, <3>6 DEF Written
    <2>4. CASE q # p
      <3>1. poller' # Writing(q) /\ poller # Writing(q)
        BY <1>1, <2>4, Places
      <3>2. posted'[q] = posted[q] /\ outstanding_sge_cnt'[q] = outstanding_sge_cnt[q]
        BY <1>1, <2>4 DEF Types
      <3>3. ToPost(q)' = ToPost(q)
        BY <2>1, <3>1 DEF ToPost
      <3>4. InQueues(q)' = InQueues(q)
        BY <1>3, <2>4
      <3> QED BY <2>1, <2>2, <3>1, <3>2, <3>3, <3>4, <1>1 DEF Written
    <2> QED BY <2>3, <2>4
  <1>11. Buffers'
    BY <1>1, BuffersKept
  <1>12. Fits'
    BY <1>1, FitsKept
  <1> QED BY <1>4, <1>7, <1>8, <1>9, <1>10, <1>11, <1>12

LEMMA SendDoneNext ==
  ASSUME PoolInv, NEW x \in Message, SendDone(x)
  PROVE  PoolInv'
  <1> USE DEF PoolInv
  <1>1. /\ poller = Polling /\ cq # <<>> /\ Head(cq) = x
        /\ UNCHANGED <<msg_mr, send_msg_buf, registered, content, outstanding_sge_cnt, posted, live,
                       sq, cq, delivered>>
    BY DEF SendDone, pool_vars, write_vars
  <1>2. poller.at # "SendDone"
    BY <1>1, Places
  <1>3. x \in live /\ call[x] = "done" /\ content[msg_mr[x]] = x /\ x \notin called
    <2>1. InQueues(x) > 0
      BY <1>1, HeadNamed
    <2>2. Sent(x)
      BY DEF Messages
    <2>3. x \in live
      BY <2>1, <2>2 DEF Sent
    <2> QED BY <2>2, <2>3, <1>2 DEF Sent
  <1> DEFINE w == IF x \in HasCallback THEN Reply[x] ELSE {}
  <1>4. /\ poller' = [at |-> "SendDone", msg |-> x, waits |-> w]
        /\ called' = IF x \in HasCallback THEN called \cup {x} ELSE called
        /\ call' = [z \in Message |-> IF z \in poller'.waits THEN "take" ELSE call[z]]
    BY <1>3 DEF SendDone
  <1>5. w \subseteq Message /\ \A z \in w : call[z] = "idle"
    BY <1>3, SendPoolAssumption DEF Unasked
  <1>6. \A y \in HasCallback : y # x => \A z \in Reply[y] : z \notin w
    BY SendPoolAssumption
  <1> HIDE DEF w
  <1>7. poller'.at = "SendDone" /\ poller'.msg = x /\ poller'.waits = w /\ poller' \in Place
    BY <1>4, <1>5 DEF Place
  <1>8. call' = [z \in Message |-> IF z \in w THEN "take" ELSE call[z]]
    BY <1>4, <1>7
  <1>9. \A z \in Message : call'[z] = IF z \in w THEN "take" ELSE call[z]
    BY <1>8
  <1>10. Types'
    <2>1. call' \in [Message -> Calls]
      BY <1>8 DEF Types, Calls
    <2>2. called' \subseteq HasCallback
      BY <1>4 DEF Types
    <2> QED BY <1>1, <1>7, <2>1, <2>2 DEF Types, Created
  <1>11. \A id : InQueues(id)' = InQueues(id)
    BY <1>1 DEF InQueues
  <1>12. Messages'
    <2> SUFFICES ASSUME NEW z \in Message PROVE Sent(z)'
      BY DEF Messages
    <2>1. Sent(z)
      BY DEF Messages
    <2>2. CASE z \in w
      <3>1. call[z] = "idle" /\ call'[z] = "take"
        BY <2>2, <1>5, <1>9
      <3>2. z \notin live /\ z \notin called /\ z # x
        BY <2>1, <3>1, <1>3 DEF Sent
      <3>3. z \notin called'
        BY <3>2, <1>4
      <3> QED BY <2>1, <3>1, <3>2, <3>3, <1>1, <1>11 DEF Sent
    <2>3. CASE z = x
      <3>1. call'[x] = "done"
        BY <1>3, <1>5, <1>9
      <3> QED BY <2>1, <2>3, <3>1, <1>1, <1>3, <1>7, <1>11 DEF Sent, Created
    <2>4. CASE z # x /\ z \notin w
      <3>1. call'[z] = call[z] /\ (z \in called' <=> z \in called)
        BY <2>4, <1>4, <1>9
      <3> QED BY <2>1, <3>1, <1>1, <1>2, <1>11, SentKept DEF Created
    <2> QED BY <2>2, <2>3, <2>4
  <1>13. Unasked'
    <2> SUFFICES ASSUME NEW y \in HasCallback \ called', NEW z \in Reply[y] PROVE call'[z] = "idle"
      BY DEF Unasked
    <2>1. y # x /\ y \notin called
      BY <1>4
    <2>2. z \in Message
      BY SendPoolAssumption
    <2>3. z \notin w /\ call[z] = "idle"
      BY <2>1, <1>6 DEF Unasked
    <2> QED BY <2>2, <2>3, <1>9
  <1>14. Handling'
    BY <1>1, <1>3, <1>7 DEF Handling
  <1>15. Pieces'
    <2>1. \A p \in Piece : poller' # Writing(p) /\ poller # Writing(p)
      BY <1>1, <1>7, Places
    <2> QED BY <2>1, <1>1, <1>11, PiecesKept
  <1>16. Buffers'
    <2>1. \A z \in Message : call'[z] \in {"set", "post"} <=> call[z] \in {"set", "post"}
      BY <1>5, <1>9
    <2> QED BY <2>1, <1>1, BuffersKept
  <1>17. Fits'
    <2>1. \A z \in Message : call'[z] \in {"set", "post", "done"} <=> call[z] \in {"set", "post", "done"}
      BY <1>5, <1>9
    <2> QED BY <2>1, <1>1, FitsKept
  <1> QED BY <1>10, <1>12, <1>13, <1>14, <1>15, <1>16, <1>17

LEMMA ReleaseNext ==
  ASSUME PoolInv, NEW x \in Message, Release(x)
  PROVE  PoolInv'
  <1> USE DEF PoolInv
  <1>1. /\ poller.at = "SendDone" /\ poller.msg = x
        /\ send_msg_buf' = Append(send_msg_buf, msg_mr[x]) /\ live' = live \ {x}
        /\ cq' = Tail(cq) /\ poller' = Polling
        /\ UNCHANGED <<call, msg_mr, registered, content, outstanding_sge_cnt, posted, sq, delivered,
                       called>>
    BY DEF Release, Released, write_vars
  <1>2. x \in live /\ cq # <<>> /\ Head(cq) = x
    BY <1>1 DEF Handling
  <1>3. Sent(x) /\ call[x] = "done" /\ msg_mr[x] \in Created
    BY <1>2 DEF Messages, Sent
  <1>4. /\ InQueues(x)' = InQueues(x) - 1
        /\ \A id : id # x => InQueues(id)' = InQueues(id)
        /\ cq' \in Seq(Message \cup Piece)
    BY <1>1, <1>2, HandledNames
  <1>5. poller'.at # "SendDone" /\ poller' \in Place
    BY <1>1, Places
  <1>6. Types'
    <2>1. send_msg_buf' \in Seq(Created)
      BY <1>1, <1>3, AppendProperties DEF Types
    <2>2. live' \subseteq Message \cup Piece
      BY <1>1 DEF Types
    <2> QED BY <1>1, <1>4, <1>5, <2>1, <2>2 DEF Types, Created
  <1>7. Messages'
    <2> SUFFICES ASSUME NEW z \in Message PROVE Sent(z)'
      BY DEF Messages
    <2>1. Sent(z)
      BY DEF Messages
    <2>2. CASE z = x
      <3>1. InQueues(x)' = 0
        BY <1>2, <1>3, <1>4 DEF Sent
      <3>2. x \notin live'
        BY <1>1
      <3> QED BY <2>2, <3>1, <3>2, <1>1, <1>3 DEF Sent
    <2>3. CASE z # x
      <3>1. z \in live' <=> z \in live
        BY <2>3, <1>1
      <3>2. ~(poller.at = "SendDone" /\ poller.msg = z)
        BY <2>3, <1>1
      <3> QED BY <2>1, <2>3, <3>1, <3>2, <1>1, <1>4, SentKept DEF Created
    <2> QED BY <2>2, <2>3
  <1>8. Unasked'
    BY <1>1 DEF Unasked
  <1>9. Handling'
    BY <1>5 DEF Handling
  <1>10. Pieces'
    <2>1. \A p \in Piece : p # x
      BY SendPoolAssumption
    <2>2. \A p \in Piece : poller' # Writing(p) /\ poller # Writing(p)
      BY <1>1, Places
    <2> QED BY <2>1, <2>2, <1>1, <1>4, PiecesKept
  <1>11. Users(msg_mr[x]) = {x} /\ Count(send_msg_buf, msg_mr[x]) = 0
    <2>1. x \in Users(msg_mr[x])
      BY <1>2 DEF Users
    <2> QED BY <2>1, <1>3 DEF Buffers, Owned
  <1>12. \A q : Count(send_msg_buf, q)' = IF msg_mr[x] = q THEN Count(send_msg_buf, q) + 1
                                                          ELSE Count(send_msg_buf, q)
    BY <1>1, <1>3, CountAppend DEF Types
  <1>13. Buffers'
    <2> SUFFICES ASSUME NEW q \in Created PROVE Owned(q)'
      BY <1>1 DEF Buffers, Created
    <2>1. CASE q = msg_mr[x]
      <3>1. Users(q)' = {}
        BY <2>1, <1>1, <1>3, <1>11 DEF Users
      <3>2. Count(send_msg_buf, q)' = 1
        BY <2>1, <1>11, <1>12
      <3> QED BY <3>1, <3>2 DEF Owned
    <2>2. CASE q # msg_mr[x]
      <3>1. Users(q)' = Users(q)
        BY <2>2, <1>1 DEF Users
      <3>2. Count(send_msg_buf, q)' = Count(send_msg_buf, q)
        BY <2>2, <1>12
      <3> QED BY <3>1, <3>2 DEF Buffers, Owned
    <2> QED BY <2>1, <2>2
  <1>14. Fits'
    BY <1>1, FitsKept
  <1> QED BY <1>6, <1>7, <1>8, <1>9, <1>10, <1>13, <1>14

LEMMA RDMAWriteDoneNext ==
  ASSUME PoolInv, NEW p \in Piece, RDMAWriteDone(p)
  PROVE  PoolInv'
  <1> USE DEF PoolInv
  <1>1. /\ poller = Polling /\ cq # <<>> /\ Head(cq) = p /\ cq' = Tail(cq)
        /\ outstanding_sge_cnt' = [outstanding_sge_cnt EXCEPT ![p] = @ - 1]
        /\ live' = IF outstanding_sge_cnt'[p] = 0 THEN live \ {p} ELSE live
        /\ UNCHANGED <<call, msg_mr, send_msg_buf, registered, content, posted, sq, poller, delivered,
                       called>>
    BY DEF RDMAWriteDone, pool_vars
  <1>2. /\ InQueues(p)' = InQueues(p) - 1
        /\ \A id : id # p => InQueues(id)' = InQueues(id)
        /\ cq' \in Seq(Message \cup Piece)
    BY <1>1, HandledNames
  <1>3. poller.at # "SendDone" /\ \A q : poller # Writing(q)
    BY <1>1, Places
  <1>4. /\ outstanding_sge_cnt[p] = InQueues(p) /\ InQueues(p) \in Nat /\ InQueues(p) > 0
        /\ outstanding_sge_cnt'[p] = outstanding_sge_cnt[p] - 1
    <2>1. InQueues(p) > 0 /\ InQueues(p) \in Nat
      BY <1>1, HeadNamed, QueuesNat
    <2>2. outstanding_sge_cnt[p] = InQueues(p) + 0
      BY <1>3 DEF Pieces, Written, ToPost
    <2>3. outstanding_sge_cnt'[p] = outstanding_sge_cnt[p] - 1
      BY <1>1 DEF Types
    <2> QED BY <2>1, <2>2, <2>3
  <1>5. Types'
    <2>1. outstanding_sge_cnt' \in [Piece -> Nat]
      BY <1>1, <1>4 DEF Types
    <2>2. live' \subseteq Message \cup Piece
      BY <1>1 DEF Types
    <2> QED BY <1>1, <1>2, <2>1, <2>2 DEF Types, Created
  <1>6. \A z \in Message : z # p /\ (z \in live' <=> z \in live)
    BY <1>1, SendPoolAssumption
  <1>7. Messages'
    BY <1>1, <1>2, <1>3, <1>6, SentKept DEF Messages, Created
  <1>8. Unasked'
    BY <1>1 DEF Unasked
  <1>9. Handling'
    BY <1>1, <1>3 DEF Handling
  <1>10. Pieces'
    <2> SUFFICES ASSUME NEW q \in Piece PROVE Written(q)'
      BY DEF Pieces
    <2>1. (poller # Writing(q))' /\ ToPost(q)' = 0 /\ ToPost(q) = 0
      BY <1>1, <1>3 DEF Writing, ToPost
    <2>2. Written(q)
      BY DEF Pieces
    <2>3. CASE q = p
      <3>1. outstanding_sge_cnt'[p] = InQueues(p)' + 0 /\ outstanding_sge_cnt'[p] \in Nat
        BY <1>2, <1>4
      <3>a. Elements[p] \in Nat
        BY SendPoolAssumption
      <3>b. outstanding_sge_cnt[p] > 0 /\ outstanding_sge_cnt[p] \in Nat
        BY <1>4
      <3>c. Written(p) /\ poller # Writing(p)
        BY <2>2, <2>3, <1>3
      <3>d. outstanding_sge_cnt[p] <= Elements[p] /\ p \in live
        BY <3>b, <3>c DEF Written
      <3>e. posted[p] # 0
        BY <3>b, <3>c DEF Written
      <3>2. p \in live /\ Elements[p] \in Nat /\ posted[p] # 0 /\ outstanding_sge_cnt[p] <= Elements[p]
        BY <3>a, <3>d, <3>e
      <3>3. p \in live' <=> outstanding_sge_cnt'[p] > 0
        <4>1. live' = IF outstanding_sge_cnt'[p] = 0 THEN live \ {p} ELSE live
          BY <1>1
        <4>2. p \in live' <=> outstanding_sge_cnt'[p] # 0
          BY <4>1, <3>2
        <4>3. outstanding_sge_cnt'[p] \in Nat
          BY <3>1
        <4> QED BY <4>2, <4>3
      <3>4. outstanding_sge_cnt'[p] <= Elements[p]
        BY <3>2, <1>4
      <3> QED BY <2>1, <2>2, <2>3, <3>1, <3>2, <3>3, <3>4, <1>1 DEF Written
    <2>4. CASE q # p
      <3>1. outstanding_sge_cnt'[q] = outstanding_sge_cnt[q] /\ InQueues(q)' = InQueues(q)
        BY <2>4, <1>1, <1>2 DEF Types
      <3>2. q \in live' <=> q \in live
        BY <2>4, <1>1
      <3> QED BY <2>1, <2>2, <3>1, <3>2, <1>1, <1>3 DEF Written
    <2> QED BY <2>3, <2>4
  <1>11. Buffers'
    BY <1>1, <1>6, BuffersKept
  <1>12. Fits'
    BY <1>1, FitsKept
  <1> QED BY <1>5, <1>7, <1>8, <1>9, <1>10, <1>11, <1>12
--------------------------------------------------------------------------------
LEMMA PoolNext == PoolInv /\ [Next]_vars => PoolInv'
  <1> SUFFICES ASSUME PoolInv, [Next]_vars PROVE PoolInv'
    OBVIOUS
  <1>1. CASE UNCHANGED vars
    <2>1. UNCHANGED <<call, msg_mr, send_msg_buf, registered, content, outstanding_sge_cnt, posted,
                      live, sq, cq, poller, delivered, called>>
      BY <1>1 DEF vars, pool_vars, write_vars
    <2>2. \A id : InQueues(id)' = InQueues(id)
      BY <2>1 DEF InQueues
    <2>3. Types' /\ Unasked' /\ Handling'
      BY <2>1 DEF PoolInv, Types, Created, Unasked, Handling
    <2>4. Messages'
      BY <2>1, <2>2, SentKept DEF PoolInv, Messages, Created
    <2>5. Pieces' /\ Buffers' /\ Fits'
      BY <2>1, <2>2, PiecesKept, BuffersKept, FitsKept DEF PoolInv
    <2> QED BY <2>3, <2>4, <2>5 DEF PoolInv
  <1>2. CASE Transmit
    BY <1>2, TransmitNext
  <1>3. CASE PollCQ
    BY <1>3, SendDoneNext, ReleaseNext, RDMAWriteDoneNext, PostWriteNext DEF PollCQ
  <1>4. ASSUME NEW x \in Message, Enter(x) \/ PostSendRequest(x) PROVE PoolInv'
    BY <1>4, EnterNext, TakeNext, SetMsgNext, PostSendNext DEF PostSendRequest
  <1>5. ASSUME NEW p \in Piece, BeginWrite(p) PROVE PoolInv'
    BY <1>5, BeginWriteNext
  <1> QED BY <1>1, <1>2, <1>3, <1>4, <1>5 DEF Next

LEMMA Invariance == Spec => []PoolInv
  <1> QED BY PoolInit, PoolNext, PTL DEF Spec

LEMMA InvType == PoolInv => TypeOK
  <1> SUFFICES ASSUME PoolInv PROVE TypeOK
    OBVIOUS
  <1>1. Types /\ Fits
    BY DEF PoolInv
  <1>2. registered \in 0 .. Cardinality(Message)
    <2>1. IsFiniteSet(Message) /\ Past \subseteq Message
      BY SendPoolAssumption DEF Past
    <2>2. Cardinality(Past) <= Cardinality(Message) /\ IsFiniteSet(Past)
      BY <2>1, FS_Subset
    <2>3. Cardinality(Past) \in Nat /\ Cardinality(Message) \in Nat
      BY <2>1, <2>2, FS_CardinalityType
    <2> QED BY <2>2, <2>3, <1>1 DEF Fits, Types
  <1>3. content \in [Created -> Message \cup {NoMessage}]
    BY <1>1 DEF Types, Created
  <1>4. ASSUME NEW p \in Piece
        PROVE  outstanding_sge_cnt[p] \in 0 .. Elements[p] /\ posted[p] \in 0 .. Elements[p]
    <2>1. outstanding_sge_cnt[p] <= Elements[p] /\ posted[p] <= Elements[p]
      BY DEF PoolInv, Pieces, Written
    <2>2. outstanding_sge_cnt[p] \in Nat /\ posted[p] \in Nat /\ Elements[p] \in Nat
      BY <1>1, SendPoolAssumption DEF Types
    <2> QED BY <2>1, <2>2
  <1> QED BY <1>1, <1>2, <1>3, <1>4 DEF TypeOK, Types

\* Every variable keeps its type; in particular no more buffers are registered
\* than messages have been sent, and the counter of a write never exceeds the
\* elements of its piece.
THEOREM TypeCorrect == Spec => []TypeOK
  <1> QED BY Invariance, InvType, PTL

\* However many threads send, a message buffer is in the pool once or used by one
\* message: GetOneSendMsgMRFromBuf hands out no buffer that the device or a
\* callback still needs, and SendDone loses none.
THEOREM BuffersOwned == Spec => []BufferOwnership
  <1>1. PoolInv => BufferOwnership
    <2> SUFFICES ASSUME PoolInv, NEW r \in Created
                 PROVE  Cardinality(Users(r)) + Count(send_msg_buf, r) = 1
      BY DEF BufferOwnership, Count, Positions
    <2>1. Owned(r)
      BY DEF PoolInv, Buffers
    <2>2. CASE Users(r) = {}
      <3>1. Count(send_msg_buf, r) = 1
        BY <2>1, <2>2 DEF Owned
      <3> QED BY <2>2, <3>1, FS_EmptySet
    <2>3. CASE Users(r) # {}
      <3>1. PICK x \in Message : Users(r) = {x} /\ Count(send_msg_buf, r) = 0
        BY <2>1, <2>3 DEF Owned
      <3> QED BY <3>1, FS_Singleton
    <2> QED BY <2>2, <2>3
  <1> QED BY <1>1, Invariance, PTL

\* A work request id is deleted with the last thing that names it and no sooner:
\* the id of a message by SendDone, that of a piece by the last RDMAWriteDone.
THEOREM IdsLive == Spec => []WorkRequestsLive
  <1>1. PoolInv => WorkRequestsLive
    <2> SUFFICES ASSUME PoolInv, NEW id \in Message \cup Piece
                 PROVE  id \in live <=> Naming(id) # {} \/ poller = Writing(id)
      BY DEF WorkRequestsLive, Writing
    <2>1. Count(sq, id) \in Nat /\ Count(cq, id) \in Nat
      BY QueuesNat DEF PoolInv
    <2>2. Naming(id) # {} <=> InQueues(id) > 0
      <3>1. IsFiniteSet(Positions(sq, id)) /\ IsFiniteSet(Positions(cq, id))
        BY CountNat DEF PoolInv, Types
      <3>2. /\ Positions(sq, id) = {} <=> Count(sq, id) = 0
            /\ Positions(cq, id) = {} <=> Count(cq, id) = 0
        BY <3>1, FS_EmptySet DEF Count
      <3>3. Naming(id) = {} <=> Positions(sq, id) = {} /\ Positions(cq, id) = {}
        BY DEF Naming, Positions
      <3>4. InQueues(id) > 0 <=> ~(Count(sq, id) = 0 /\ Count(cq, id) = 0)
        BY <2>1 DEF InQueues
      <3> QED BY <3>2, <3>3, <3>4
    <2>3. CASE id \in Message
      <3>1. poller # Writing(id)
        <4>1. id \notin Piece
          BY <2>3, SendPoolAssumption
        <4>2. \A pl \in Place : pl.at = "Writing" => pl.piece \in Piece
          BY DEF Place, Polling
        <4> QED BY <4>1, <4>2, Places DEF PoolInv, Types
      <3>2. InQueues(id) = IF id \in live THEN 1 ELSE 0
        BY <2>3 DEF PoolInv, Messages, Sent
      <3> QED BY <2>2, <3>1, <3>2
    <2>4. CASE id \in Piece
      <3>1. Written(id)
        BY <2>4 DEF PoolInv, Pieces
      <3>2. InQueues(id) \in Nat
        BY QueuesNat DEF PoolInv
      <3>3. CASE poller = Writing(id)
        <4>1. Elements[id] \in Nat /\ posted[id] \in Nat
          BY <2>4, SendPoolAssumption DEF PoolInv, Types
        <4>2. outstanding_sge_cnt[id] > 0
          BY <3>1, <3>2, <3>3, <4>1 DEF Written, ToPost
        <4> QED BY <3>1, <3>3, <4>2 DEF Written
      <3>4. CASE poller # Writing(id)
        <4>1. outstanding_sge_cnt[id] = InQueues(id) + 0
          BY <3>1, <3>4 DEF Written, ToPost
        <4>2. outstanding_sge_cnt[id] = InQueues(id)
          BY <3>2, <4>1
        <4> QED BY <2>2, <3>1, <3>4, <4>2 DEF Written
      <3> QED BY <3>3, <3>4
    <2> QED BY <2>3, <2>4
  <1> QED BY <1>1, Invariance, PTL
--------------------------------------------------------------------------------
(* The messages of a queue.  MessagesOf is a recursive function; what is   *)
(* said of it is proved at the least argument at which it could fail.      *)

\* Induction without a predicate: a set of numbers has a least one.
LEMMA LeastOf ==
  ASSUME NEW T, T \subseteq Nat, T # {}
  PROVE  \E n \in T : \A m \in T : n <= m
  <1>1. PICK n \in T : \A m \in T : <<m, n>> \notin OpToRel(<, Nat)
    BY WFMin, NatLessThanWellFounded, Zenon
  <1>2. n \in T /\ \A m \in T : ~(m < n)
    BY <1>1, Zenon DEF OpToRel
  <1> QED BY <1>2

\* The messages among the first i elements of s, from those among fewer.
Building(s, f, i) == IF i = 0 THEN <<>>
                     ELSE IF s[i] \in Message THEN Append(f[i - 1], s[i]) ELSE f[i - 1]

\* The function exists, up to any number of elements.
LEMMA Buildable == \A s : \A n \in Nat : \E f : f = [i \in 0 .. n |-> Building(s, f, i)]
  <1> SUFFICES ASSUME NEW s PROVE \A n \in Nat : \E f : f = [i \in 0 .. n |-> Building(s, f, i)]
    OBVIOUS
  <1> DEFINE Missing == {n \in Nat : ~\E f : f = [i \in 0 .. n |-> Building(s, f, i)]}
  <1>1. SUFFICES ASSUME Missing # {} PROVE FALSE
    OBVIOUS
  <1>2. PICK n \in Missing : \A m \in Missing : n <= m
    <2>1. Missing \subseteq Nat
      OBVIOUS
    <2> QED BY <1>1, <2>1, LeastOf
  <1>3. CASE n = 0
    <2> DEFINE g == [i \in 0 .. 0 |-> <<>>]
    <2>1. g = [i \in 0 .. 0 |-> Building(s, g, i)]
      BY DEF Building
    <2> QED BY <1>2, <1>3, <2>1
  <1>4. CASE n # 0
    <2>1. n - 1 \in Nat /\ ~(n <= n - 1)
      BY <1>2, <1>4
    <2>2. PICK f : f = [i \in 0 .. n - 1 |-> Building(s, f, i)]
      BY <1>2, <2>1
    <2> DEFINE g == [i \in 0 .. n |-> IF i = n THEN Building(s, f, n) ELSE f[i]]
    <2>3. \A i \in 0 .. n : g[i] = Building(s, g, i)
      <3> SUFFICES ASSUME NEW i \in 0 .. n PROVE g[i] = Building(s, g, i)
        OBVIOUS
      <3>1. i = 0 \/ (i - 1 \in 0 .. n /\ i - 1 # n /\ g[i - 1] = f[i - 1])
        BY <2>1
      <3>2. CASE i = n
        BY <1>4, <3>1, <3>2 DEF Building
      <3>3. CASE i # n
        <4>1. i \in 0 .. n - 1
          BY <1>2, <3>3
        <4>2. g[i] = f[i] /\ f[i] = Building(s, f, i)
          BY <2>2, <3>3, <4>1
        <4> QED BY <3>1, <4>2 DEF Building
      <3> QED BY <3>2, <3>3
    <2>4. g = [i \in 0 .. n |-> Building(s, g, i)]
      BY <2>3
    <2> QED BY <1>2, <2>4
  <1> QED BY <1>3, <1>4

\* The messages among the first i elements of s.
Among(s) == CHOOSE f : f = [i \in 0 .. Len(s) |-> Building(s, f, i)]

\* It is what MessagesOf computes.
LEMMA AmongBuilds ==
  ASSUME NEW S, NEW s \in Seq(S)
  PROVE  /\ MessagesOf(s) = Among(s)[Len(s)]
         /\ \A i \in 0 .. Len(s) : Among(s)[i] = Building(s, Among(s), i)
  <1>1. Len(s) \in Nat
    OBVIOUS
  <1>2. MessagesOf(s) = Among(s)[Len(s)]
    BY DEF MessagesOf, Among, Building
  <1>3. \E f : f = [i \in 0 .. Len(s) |-> Building(s, f, i)]
    BY <1>1, Buildable
  <1>4. Among(s) = [i \in 0 .. Len(s) |-> Building(s, Among(s), i)]
    BY <1>3 DEF Among
  <1> QED BY <1>2, <1>4

\* They are messages.
LEMMA AmongType ==
  ASSUME NEW S, NEW s \in Seq(S)
  PROVE  \A i \in 0 .. Len(s) : Among(s)[i] \in Seq(Message)
  <1> DEFINE Wrong == {i \in 0 .. Len(s) : Among(s)[i] \notin Seq(Message)}
  <1>1. SUFFICES ASSUME Wrong # {} PROVE FALSE
    OBVIOUS
  <1>2. Len(s) \in Nat /\ Wrong \subseteq Nat
    OBVIOUS
  <1>3. PICK n \in Wrong : \A m \in Wrong : n <= m
    BY <1>1, <1>2, LeastOf
  <1>4. Among(s)[n] = Building(s, Among(s), n)
    BY AmongBuilds
  <1>5. CASE n = 0
    <2>1. <<>> \in Seq(Message)
      OBVIOUS
    <2> QED BY <1>3, <1>4, <1>5, <2>1 DEF Building
  <1>6. CASE n # 0
    <2>1. n - 1 \in 0 .. Len(s) /\ ~(n <= n - 1)
      BY <1>2, <1>6
    <2>2. Among(s)[n - 1] \in Seq(Message)
      BY <1>3, <2>1
    <2>3. s[n] \in Message => Append(Among(s)[n - 1], s[n]) \in Seq(Message)
      BY <2>2
    <2> QED BY <1>3, <1>4, <1>6, <2>2, <2>3 DEF Building
  <1> QED BY <1>5, <1>6

\* An empty queue has none.
LEMMA MessagesOfEmpty == MessagesOf(<<>>) = <<>>
  <1> DEFINE e == <<>>
  <1>1. e \in Seq(Message) /\ Len(e) = 0 /\ 0 \in 0 .. Len(e)
    OBVIOUS
  <1> HIDE DEF e
  <1>2. MessagesOf(e) = Among(e)[0] /\ Among(e)[0] = Building(e, Among(e), 0)
    BY <1>1, AmongBuilds
  <1> QED BY <1>2 DEF Building, e

\* A posted request comes last.
LEMMA MessagesOfAppend ==
  ASSUME NEW S, NEW s \in Seq(S), NEW x \in S
  PROVE  MessagesOf(Append(s, x)) = IF x \in Message THEN Append(MessagesOf(s), x) ELSE MessagesOf(s)
  <1> DEFINE t == Append(s, x)
             n == Len(s)
  <1>1. n \in Nat /\ t \in Seq(S) /\ Len(t) = n + 1 /\ t[n + 1] = x /\ \A i \in 1 .. n : t[i] = s[i]
    OBVIOUS
  <1> HIDE DEF t
  <1>2. \A i \in 0 .. n : Among(t)[i] = Among(s)[i]
    <2> DEFINE Wrong == {i \in 0 .. n : Among(t)[i] # Among(s)[i]}
    <2>1. SUFFICES ASSUME Wrong # {} PROVE FALSE
      OBVIOUS
    <2>2. Wrong \subseteq Nat
      BY <1>1
    <2>3. PICK i \in Wrong : \A j \in Wrong : i <= j
      BY <2>1, <2>2, LeastOf
    <2>4. Among(t)[i] = Building(t, Among(t), i) /\ Among(s)[i] = Building(s, Among(s), i)
      BY <1>1, AmongBuilds
    <2>5. CASE i = 0
      BY <2>3, <2>4, <2>5 DEF Building
    <2>6. CASE i # 0
      <3>1. i - 1 \in 0 .. n /\ ~(i <= i - 1) /\ i \in 1 .. n
        BY <1>1, <2>6
      <3>2. Among(t)[i - 1] = Among(s)[i - 1] /\ t[i] = s[i]
        BY <1>1, <2>3, <3>1
      <3> QED BY <2>3, <2>4, <2>6, <3>2 DEF Building
    <2> QED BY <2>5, <2>6
  <1>3. Among(t)[n + 1] = Building(t, Among(t), n + 1)
    BY <1>1, AmongBuilds
  <1>4. n + 1 # 0 /\ (n + 1) - 1 = n
    BY <1>1
  <1>5. MessagesOf(t) = Among(t)[n + 1] /\ MessagesOf(s) = Among(s)[n]
    BY <1>1, AmongBuilds
  <1>6. MessagesOf(t) = IF x \in Message THEN Append(MessagesOf(s), x) ELSE MessagesOf(s)
    BY <1>1, <1>2, <1>3, <1>4, <1>5 DEF Building
  <1> QED BY <1>6 DEF t

\* The oldest request comes first.
LEMMA MessagesOfTail ==
  ASSUME NEW S, NEW s \in Seq(S), s # <<>>
  PROVE  /\ MessagesOf(Tail(s)) \in Seq(Message)
         /\ MessagesOf(s) = IF Head(s) \in Message THEN <<Head(s)>> \o MessagesOf(Tail(s))
                                                   ELSE MessagesOf(Tail(s))
  <1> DEFINE t == Tail(s)
             n == Len(s)
             first == IF Head(s) \in Message THEN <<Head(s)>> ELSE <<>>
  <1>1. n \in Nat \ {0} /\ t \in Seq(S) /\ Len(t) = n - 1 /\ s[1] = Head(s)
        /\ \A i \in 1 .. n - 1 : t[i] = s[i + 1]
    OBVIOUS
  <1>2. first \in Seq(Message)
    OBVIOUS
  <1> HIDE DEF t, first
  <1>3. \A i \in 0 .. n - 1 : Among(t)[i] \in Seq(Message) /\ Among(t)[i] = Building(t, Among(t), i)
    BY <1>1, AmongType, AmongBuilds
  <1>4. \A i \in 0 .. n : Among(s)[i] = Building(s, Among(s), i)
    BY AmongBuilds
  <1>5. \A i \in 0 .. n - 1 : Among(s)[i + 1] = first \o Among(t)[i]
    <2> DEFINE Wrong == {i \in 0 .. n - 1 : Among(s)[i + 1] # first \o Among(t)[i]}
    <2>1. SUFFICES ASSUME Wrong # {} PROVE FALSE
      OBVIOUS
    <2>2. Wrong \subseteq Nat
      BY <1>1
    <2>3. PICK i \in Wrong : \A j \in Wrong : i <= j
      BY <2>1, <2>2, LeastOf
    <2>4. i + 1 \in 0 .. n /\ i + 1 # 0 /\ (i + 1) - 1 = i
      BY <1>1, <2>3
    <2>5. Among(s)[i + 1] = IF s[i + 1] \in Message THEN Append(Among(s)[i], s[i + 1]) ELSE Among(s)[i]
      BY <1>4, <2>4 DEF Building
    <2>6. CASE i = 0
      <3>1. Among(s)[0] = <<>> /\ Among(t)[0] = <<>>
        BY <1>1, <1>3, <1>4 DEF Building
      <3>2. Among(s)[i + 1] = first
        BY <1>1, <2>5, <2>6, <3>1 DEF first
      <3>3. first \o <<>> = first
        BY <1>2
      <3> QED BY <2>3, <2>6, <3>1, <3>2, <3>3
    <2>7. CASE i # 0
      <3>1. i - 1 \in 0 .. n - 1 /\ ~(i <= i - 1) /\ (i - 1) + 1 = i /\ i \in 1 .. n - 1
        BY <1>1, <2>3, <2>7
      <3>2. Among(s)[i] = first \o Among(t)[i - 1] /\ t[i] = s[i + 1]
        BY <1>1, <2>3, <3>1
      <3>3. Among(t)[i] = IF t[i] \in Message THEN Append(Among(t)[i - 1], t[i]) ELSE Among(t)[i - 1]
        BY <1>3, <2>3, <2>7 DEF Building
      <3>4. ASSUME t[i] \in Message
            PROVE  Append(first \o Among(t)[i - 1], t[i]) = first \o Append(Among(t)[i - 1], t[i])
        <4>1. Among(t)[i - 1] \in Seq(Message)
          BY <1>3, <3>1
        <4> DEFINE u == Among(t)[i - 1]
                   x == t[i]
        <4>2. u \in Seq(Message) /\ x \in Message
          BY <3>4, <4>1
        <4> HIDE DEF u, x
        <4>3. /\ first \o u \in Seq(Message) /\ <<x>> \in Seq(Message)
              /\ Append(u, x) = u \o <<x>>
          BY <1>2, <4>2
        <4>4. Append(first \o u, x) = (first \o u) \o <<x>>
          BY <4>2, <4>3, AppendIsConcat
        <4>5. (first \o u) \o <<x>> = first \o (u \o <<x>>)
          BY <1>2, <4>2, <4>3, ConcatAssociative
        <4>6. Append(first \o u, x) = first \o Append(u, x)
          BY <4>3, <4>4, <4>5
        <4> QED BY <4>6 DEF u, x
      <3> QED BY <2>3, <2>5, <3>2, <3>3, <3>4
    <2> QED BY <2>6, <2>7
  <1>6. MessagesOf(t) = Among(t)[n - 1] /\ MessagesOf(s) = Among(s)[n]
    BY <1>1, AmongBuilds
  <1>7. MessagesOf(s) = first \o MessagesOf(t) /\ MessagesOf(t) \in Seq(Message)
    <2>1. n - 1 \in 0 .. n - 1 /\ (n - 1) + 1 = n
      BY <1>1
    <2> QED BY <1>3, <1>5, <1>6, <2>1
  <1>8. <<>> \o MessagesOf(t) = MessagesOf(t)
    BY <1>7
  <1> QED BY <1>7, <1>8 DEF first, t
--------------------------------------------------------------------------------
(* The queue pair implements the message service.                          *)

\* What the device has transmitted is delivered.
Left == \A x \in Message : x \in live /\ Count(sq, x) = 0 => \E i \in DOMAIN delivered : delivered[i] = x

\* A step that neither posts nor transmits a message keeps that.
LEMMA LeftKept ==
  ASSUME Left, UNCHANGED delivered,
         \A x \in Message : x \in live' => x \in live /\ Count(sq, x)' = Count(sq, x)
  PROVE  Left'
  BY DEF Left

\* The steps that leave the connection alone.
LEMMA LeftLocally ==
  ASSUME Left, UNCHANGED <<sq, delivered>>, \A x \in Message : x \in live' => x \in live
  PROVE  Left'
  <1>1. \A x \in Message : Count(sq, x)' = Count(sq, x)
    BY DEF Count, Positions
  <1> QED BY <1>1, LeftKept

\* What is posted is one message more on its way, or none.
LEMMA PostedOnWay ==
  ASSUME PoolInv, NEW y \in Message \cup Piece, sq' = Append(sq, y)
  PROVE  /\ MessagesOf(sq)' = IF y \in Message THEN Append(MessagesOf(sq), y) ELSE MessagesOf(sq)
         /\ \A x : Count(sq, x)' = IF y = x THEN Count(sq, x) + 1 ELSE Count(sq, x)
  <1>1. sq \in Seq(Message \cup Piece)
    BY DEF PoolInv, Types
  <1>2. MessagesOf(Append(sq, y)) = IF y \in Message THEN Append(MessagesOf(sq), y) ELSE MessagesOf(sq)
    BY <1>1, MessagesOfAppend
  <1>3. \A x : Count(Append(sq, y), x) = IF y = x THEN Count(sq, x) + 1 ELSE Count(sq, x)
    BY <1>1, CountAppend
  <1> QED BY <1>2, <1>3

\* PostSend is the service's Post.
LEMMA PostSendServes ==
  ASSUME PoolInv, Left, NEW x \in Message, PostSend(x)
  PROVE  Left' /\ Service!Post(x)
  <1>1. /\ live' = live \cup {x} /\ sq' = Append(sq, x) /\ UNCHANGED <<delivered, called>>
    BY DEF PostSend, Step
  <1>2. /\ MessagesOf(sq)' = Append(MessagesOf(sq), x)
        /\ \A z : Count(sq, z)' = IF x = z THEN Count(sq, z) + 1 ELSE Count(sq, z)
    BY <1>1, PostedOnWay
  <1>3. Left'
    <2> SUFFICES ASSUME NEW z \in Message, z \in live', Count(sq, z)' = 0
                 PROVE  \E i \in DOMAIN delivered' : delivered'[i] = z
      BY DEF Left
    <2>1. Count(sq, z) \in Nat
      BY QueuesNat DEF PoolInv
    <2>2. z # x /\ Count(sq, z) = 0
      BY <1>2, <2>1
    <2> QED BY <1>1, <2>2 DEF Left
  <1>4. Service!Post(x)
    BY <1>1, <1>2 DEF Service!Post
  <1> QED BY <1>3, <1>4

\* The oldest request leaves with the message that was posted, not what another
\* thread has made of its buffer.
LEMMA TransmitServes ==
  ASSUME PoolInv, Left, Transmit
  PROVE  Left' /\ (Service!Deliver \/ UNCHANGED Service!vars)
  <1> DEFINE y == Head(sq)
  <1>1. /\ sq # <<>> /\ sq' = Tail(sq) /\ UNCHANGED <<live, called>>
        /\ delivered' = IF y \in Message THEN Append(delivered, content[msg_mr[y]]) ELSE delivered
    BY DEF Transmit
  <1>2. sq \in Seq(Message \cup Piece) /\ delivered \in Seq(Message)
    BY DEF PoolInv, Types
  <1>3. \A x : Count(sq, x)' = IF y = x THEN Count(sq, x) - 1 ELSE Count(sq, x)
    <2>1. \A x : Count(Tail(sq), x) = IF Head(sq) = x THEN Count(sq, x) - 1 ELSE Count(sq, x)
      BY <1>1, <1>2, CountTail
    <2> QED BY <1>1, <2>1
  <1>4. /\ MessagesOf(sq)' = MessagesOf(Tail(sq)) /\ MessagesOf(Tail(sq)) \in Seq(Message)
        /\ MessagesOf(sq) = IF y \in Message THEN <<y>> \o MessagesOf(Tail(sq)) ELSE MessagesOf(Tail(sq))
    BY <1>1, <1>2, MessagesOfTail
  <1>5. CASE y \in Message
    <2>1. content[msg_mr[y]] = y
      <3>1. Count(sq, y) > 0 /\ Count(sq, y) \in Nat /\ Count(cq, y) \in Nat
        BY <1>1, <1>2, CountHead, QueuesNat DEF PoolInv
      <3>2. InQueues(y) # 0
        BY <3>1 DEF InQueues
      <3> QED BY <1>5, <3>2 DEF PoolInv, Messages, Sent
    <2>2. delivered' = Append(delivered, y)
      BY <1>1, <1>5, <2>1
    <2>3. /\ Len(delivered) \in Nat /\ DOMAIN delivered = 1 .. Len(delivered)
          /\ DOMAIN delivered' = 1 .. Len(delivered) + 1
          /\ \A i \in DOMAIN delivered : delivered'[i] = delivered[i]
          /\ delivered'[Len(delivered) + 1] = y
      BY <1>2, <1>5, <2>2
    <2>4. Left'
      <3> SUFFICES ASSUME NEW z \in Message, z \in live', Count(sq, z)' = 0
                   PROVE  \E i \in DOMAIN delivered' : delivered'[i] = z
        BY DEF Left
      <3>1. CASE z = y
        BY <2>3, <3>1
      <3>2. CASE z # y
        <4>1. \E i \in DOMAIN delivered : delivered[i] = z
          BY <1>1, <1>3, <3>2 DEF Left
        <4> QED BY <2>3, <4>1
      <3> QED BY <3>1, <3>2
    <2>5. /\ MessagesOf(sq) # <<>> /\ Head(MessagesOf(sq)) = y
          /\ Tail(MessagesOf(sq)) = MessagesOf(sq)'
      <3> DEFINE rest == MessagesOf(Tail(sq))
      <3>1. rest \in Seq(Message) /\ MessagesOf(sq) = <<y>> \o rest
        BY <1>4, <1>5
      <3> HIDE DEF rest
      <3>2. <<y>> \o rest # <<>> /\ Head(<<y>> \o rest) = y /\ Tail(<<y>> \o rest) = rest
        BY <1>5, <3>1
      <3>3. MessagesOf(sq)' = rest
        BY <1>4 DEF rest
      <3> QED BY <3>1, <3>2, <3>3
    <2>6. Service!Deliver
      BY <1>1, <2>2, <2>5 DEF Service!Deliver
    <2> QED BY <2>4, <2>6
  <1>6. CASE y \notin Message
    <2>1. \A x \in Message : Count(sq, x)' = Count(sq, x)
      BY <1>3, <1>6
    <2>2. Left'
      BY <1>1, <1>6, <2>1, LeftKept
    <2>3. UNCHANGED Service!vars
      BY <1>1, <1>4, <1>6 DEF Service!vars
    <2> QED BY <2>2, <2>3
  <1> QED BY <1>5, <1>6

\* The callback that runs is that of the message that was sent, for the first time.
LEMMA SendDoneServes ==
  ASSUME PoolInv, Left, NEW x \in Message, SendDone(x)
  PROVE  Left' /\ (Service!Callback(x) \/ UNCHANGED Service!vars)
  <1>1. /\ poller = Polling /\ cq # <<>> /\ Head(cq) = x /\ UNCHANGED <<live, sq, delivered>>
        /\ called' = IF content[msg_mr[x]] \in HasCallback THEN called \cup {content[msg_mr[x]]} ELSE called
    BY DEF SendDone
  <1>2. Left'
    BY <1>1, LeftLocally
  <1>3. InQueues(x) > 0 /\ Count(cq, x) > 0 /\ Count(cq, x) \in Nat /\ Count(sq, x) \in Nat
    BY <1>1, HeadNamed, CountHead, QueuesNat DEF PoolInv, Types
  <1>4. x \in live /\ InQueues(x) = 1
    BY <1>3 DEF PoolInv, Messages, Sent
  <1>5. Count(sq, x) = 0
    BY <1>3, <1>4 DEF InQueues
  <1>6. content[msg_mr[x]] = x /\ x \notin called
    <2>1. poller.at # "SendDone"
      BY <1>1, Places
    <2> QED BY <1>4, <2>1 DEF PoolInv, Messages, Sent
  <1>7. \E i \in DOMAIN delivered : delivered[i] = x
    BY <1>4, <1>5 DEF Left
  <1>8. MessagesOf(sq)' = MessagesOf(sq)
    BY <1>1
  <1>9. CASE x \in HasCallback
    BY <1>1, <1>2, <1>6, <1>7, <1>8, <1>9 DEF Service!Callback
  <1>10. CASE x \notin HasCallback
    BY <1>1, <1>2, <1>6, <1>8, <1>10 DEF Service!vars
  <1> QED BY <1>9, <1>10

\* Every other step changes nothing the service sees.
LEMMA OthersServe ==
  ASSUME PoolInv, Left, UNCHANGED <<sq, delivered, called>>,
         \A x \in Message : x \in live' => x \in live
  PROVE  Left' /\ UNCHANGED Service!vars
  <1>1. MessagesOf(sq)' = MessagesOf(sq)
    OBVIOUS
  <1> QED BY <1>1, LeftLocally DEF Service!vars

\* Every step of the queue pair is one of the service, or none.
LEMMA StepServes ==
  PoolInv /\ Left /\ [Next]_vars => Left' /\ [Service!Next]_Service!vars
  <1> SUFFICES ASSUME PoolInv, Left, [Next]_vars PROVE Left' /\ [Service!Next]_Service!vars
    OBVIOUS
  <1>1. CASE UNCHANGED vars
    BY <1>1, OthersServe DEF vars
  <1>2. CASE Transmit
    BY <1>2, TransmitServes DEF Service!Next
  <1>3. ASSUME NEW x \in Message, SendDone(x) PROVE Left' /\ [Service!Next]_Service!vars
    BY <1>3, SendDoneServes DEF Service!Next
  <1>4. ASSUME NEW x \in Message, PostSend(x) PROVE Left' /\ [Service!Next]_Service!vars
    BY <1>4, PostSendServes DEF Service!Next
  <1>5. ASSUME NEW x \in Message, Enter(x) \/ Take(x) \/ SetMsg(x) \/ Release(x)
        PROVE  Left' /\ [Service!Next]_Service!vars
    <2>1. UNCHANGED <<sq, delivered, called>> /\ \A z \in Message : z \in live' => z \in live
      BY <1>5 DEF Enter, Take, SetMsg, Release
    <2> QED BY <2>1, OthersServe
  <1>6. ASSUME NEW p \in Piece, PostWrite(p) PROVE Left' /\ [Service!Next]_Service!vars
    <2>1. sq' = Append(sq, p) /\ UNCHANGED <<live, delivered, called>> /\ p \notin Message
      BY <1>6, SendPoolAssumption DEF PostWrite
    <2>2. /\ MessagesOf(sq)' = MessagesOf(sq)
          /\ \A x \in Message : Count(sq, x)' = Count(sq, x)
      BY <2>1, PostedOnWay
    <2>3. Left'
      BY <2>1, <2>2, LeftKept
    <2> QED BY <2>1, <2>2, <2>3 DEF Service!vars
  <1>7. ASSUME NEW p \in Piece, BeginWrite(p) \/ RDMAWriteDone(p)
        PROVE  Left' /\ [Service!Next]_Service!vars
    <2>1. UNCHANGED <<sq, delivered, called>> /\ \A z \in Message : z \in live' => z \in live
      BY <1>7, SendPoolAssumption DEF BeginWrite, RDMAWriteDone
    <2> QED BY <2>1, OthersServe
  <1> QED BY <1>1, <1>2, <1>3, <1>4, <1>5, <1>6, <1>7 DEF Next, PollCQ, PostSendRequest

\* Step by step the queue pair implements MessageService, however the threads
\* interleave with each other and with the poller: messages leave once, unchanged
\* and in the order they were posted, each callback runs once and after that.
THEOREM ImplementsMessageService == Spec => ServiceRefinement
  <1>1. Init => Left /\ Service!Init
    <2> SUFFICES ASSUME Init PROVE Left /\ Service!Init
      OBVIOUS
    <2>1. sq = <<>> /\ delivered = <<>> /\ called = {} /\ live = {}
      BY DEF Init
    <2> QED BY <2>1, MessagesOfEmpty DEF Left, Service!Init
  <1> QED BY <1>1, StepServes, Invariance, PTL DEF Spec, ServiceRefinement, Service!Spec
================================================================================
