---------------------------- MODULE Channel_proofs ----------------------------
(***************************************************************************)
(* Proofs about the channel, for any number of senders and receivers and   *)
(* any number of items.  No wake-up is lost because every step that adds   *)
(* an item while somebody sleeps adds a notified receiver, and a notified  *)
(* receiver leaves its place only with an item or from an empty queue.     *)
(***************************************************************************)
EXTENDS Channel, FiniteSetTheorems, SequenceTheorems, TLAPS

\* The places of the receivers are kept apart by at.
LEMMA NotifiedFinite ==
  /\ IsFiniteSet(Notified)
  /\ Cardinality(Notified) \in Nat
  <1>1. Notified \subseteq Receiver
    BY DEF Notified
  <1> QED BY <1>1, ChannelAssumption, FS_Subset, FS_CardinalityType

LEMMA NotifiedFiniteNext ==
  /\ IsFiniteSet(Notified')
  /\ Cardinality(Notified') \in Nat
  <1>1. Notified' \subseteq Receiver
    BY DEF Notified
  <1> QED BY <1>1, ChannelAssumption, FS_Subset, FS_CardinalityType

--------------------------------------------------------------------------------
\* Types.
LEMMA TypeInit == Init => TypeOK
  <1> SUFFICES ASSUME Init PROVE TypeOK
    OBVIOUS
  <1>1. queue \in Seq(Item)
    BY EmptySeq DEF Init
  <1>2. sent \in [Sender -> 0 .. Sends]
    BY ChannelAssumption DEF Init
  <1>3. at \in [Receiver -> Places]
    BY DEF Init, Places
  <1>4. got \in [Receiver -> Seq(Item)]
    BY EmptySeq DEF Init
  <1> QED BY <1>1, <1>2, <1>3, <1>4 DEF Init, TypeOK

\* A notification changes only the place of receivers.
LEMMA NotifyTypes ==
  ASSUME at \in [Receiver -> Places], NotifyOne \/ NotifyAll
  PROVE  at' \in [Receiver -> Places]
  <1>1. CASE NotifyOne
    BY <1>1 DEF NotifyOne, Asleep, Places
  <1>2. CASE NotifyAll
    BY <1>2 DEF NotifyAll, Asleep, Places
  <1> QED BY <1>1, <1>2

LEMMA TypeNext == TypeOK /\ [Next]_vars => TypeOK'
  <1> SUFFICES ASSUME TypeOK, [Next]_vars PROVE TypeOK'
    OBVIOUS
  <1> USE DEF TypeOK
  <1>1. ASSUME NEW s \in Sender, Send(s) PROVE TypeOK'
    <2>1. sent' \in [Sender -> 0 .. Sends]
      BY <1>1, ChannelAssumption DEF Send
    <2>2. <<s, sent[s] + 1>> \in Item
      BY <1>1, ChannelAssumption DEF Send, Item
    <2>3. queue' \in Seq(Item)
      <3>1. queue' = queue \/ queue' = Append(queue, <<s, sent[s] + 1>>)
        BY <1>1 DEF Send
      <3>2. Append(queue, <<s, sent[s] + 1>>) \in Seq(Item)
        BY <2>2, AppendProperties
      <3> QED BY <3>1, <3>2
    <2>4. at' \in [Receiver -> Places]
      BY <1>1, NotifyTypes DEF Send
    <2> QED BY <1>1, <2>1, <2>3, <2>4 DEF Send
  <1>2. ASSUME NEW r \in Receiver, Receive(r) \/ ReceiveMany(r) PROVE TypeOK'
    <2>1. CASE Wait(r)
      BY <1>2, <2>1 DEF Receive, ReceiveMany, Wait, Places
    <2>2. CASE FindClosed(r)
      BY <1>2, <2>2 DEF Receive, ReceiveMany, FindClosed, Places
    <2>3. CASE TakeOne(r)
      <3>1. Head(queue) \in Item /\ Tail(queue) \in Seq(Item)
        BY <2>3, HeadTailProperties DEF TakeOne
      <3>2. Append(got[r], Head(queue)) \in Seq(Item)
        BY <3>1
      <3> QED BY <1>2, <2>3, <3>1, <3>2 DEF Receive, ReceiveMany, TakeOne, Places
    <2>4. CASE TakeAll(r)
      <3>1. got[r] \o queue \in Seq(Item) /\ <<>> \in Seq(Item)
        BY ConcatProperties
      <3> QED BY <1>2, <2>4, <3>1 DEF Receive, ReceiveMany, TakeAll, Places
    <2> QED BY <1>2, <2>1, <2>2, <2>3, <2>4 DEF Receive, ReceiveMany
  <1>3. ASSUME NEW r \in Receiver, SpuriousWakeup(r) PROVE TypeOK'
    BY <1>3 DEF SpuriousWakeup, Places
  <1>4. CASE Close
    BY <1>4, NotifyTypes DEF Close
  <1>5. CASE UNCHANGED vars
    BY <1>5 DEF vars
  <1> QED BY <1>1, <1>2, <1>3, <1>4, <1>5 DEF Next

\* The channel keeps its types, for any threads calling it.
THEOREM TypeCorrect == Spec => []TypeOK
  BY TypeInit, TypeNext, PTL DEF Spec
--------------------------------------------------------------------------------
\* One receiver more, or fewer, on its way to the mutex.
LEMMA OneMore ==
  ASSUME TypeOK, NEW r \in Asleep, at' = [at EXCEPT ![r] = "notified"]
  PROVE  Cardinality(Notified') = Cardinality(Notified) + 1
  <1>1. r \notin Notified /\ Notified' = Notified \cup {r}
    BY DEF TypeOK, Asleep, Notified
  <1> QED BY <1>1, NotifiedFinite, FS_AddElement

LEMMA OneFewer ==
  ASSUME TypeOK, NEW r \in Receiver, NEW p \in {"call", "asleep", "closed"},
         at' = [at EXCEPT ![r] = p]
  PROVE  /\ Cardinality(Notified') \in Nat
         /\ Cardinality(Notified') >= Cardinality(Notified) - 1
  <1>1. Notified' = Notified \ {r}
    BY DEF TypeOK, Notified
  <1> QED BY <1>1, NotifiedFinite, NotifiedFiniteNext, FS_RemoveElement

LEMMA WakeupNext == TypeOK /\ NoLostWakeup /\ [Next]_vars => NoLostWakeup'
  <1> SUFFICES ASSUME TypeOK, NoLostWakeup, [Next]_vars, Asleep' # {}
               PROVE  ~is_closed' /\ Len(queue') <= Cardinality(Notified')
    BY DEF NoLostWakeup
  <1>0. Len(queue) \in Nat /\ Cardinality(Notified) \in Nat /\ Cardinality(Notified') \in Nat
    BY NotifiedFinite, NotifiedFiniteNext, LenProperties DEF TypeOK
  <1>1. ASSUME NEW s \in Sender, Send(s)
        PROVE  ~is_closed' /\ Len(queue') <= Cardinality(Notified')
    <2>1. CASE is_closed
      <3>1. UNCHANGED <<queue, at, is_closed>>
        BY <1>1, <2>1 DEF Send
      <3> QED BY <3>1 DEF NoLostWakeup, Asleep, Notified
    <2>2. CASE ~is_closed
      <3>1. NotifyOne /\ is_closed' = is_closed /\ queue' = Append(queue, <<s, sent[s] + 1>>)
        BY <1>1, <2>2 DEF Send
      <3>2. Asleep # {}
        BY <3>1 DEF NotifyOne, Asleep
      <3>3. PICK r \in Asleep : at' = [at EXCEPT ![r] = "notified"]
        BY <3>1, <3>2 DEF NotifyOne
      <3>4. Cardinality(Notified') = Cardinality(Notified) + 1
        BY <3>3, OneMore
      <3>5. Len(queue') = Len(queue) + 1
        BY <3>1 DEF TypeOK
      <3>6. Len(queue) <= Cardinality(Notified)
        BY <3>2 DEF NoLostWakeup
      <3> QED BY <1>0, <2>2, <3>1, <3>4, <3>5, <3>6
    <2> QED BY <2>1, <2>2
  <1>2. ASSUME NEW r \in Receiver, Receive(r) \/ ReceiveMany(r)
        PROVE  ~is_closed' /\ Len(queue') <= Cardinality(Notified')
    <2>0. is_closed' = is_closed
      BY <1>2 DEF Receive, ReceiveMany
    <2>1. CASE Wait(r)
      <3>1. queue' = <<>> /\ ~is_closed
        BY <2>1 DEF Wait
      <3> QED BY <1>0, <2>0, <3>1
    <2>2. CASE FindClosed(r)
      <3>1. Asleep # {} /\ is_closed
        BY <2>2 DEF FindClosed, Asleep, TypeOK
      <3> QED BY <3>1 DEF NoLostWakeup
    <2>3. CASE TakeOne(r) \/ TakeAll(r)
      <3>1. at' = [at EXCEPT ![r] = "call"] /\ Asleep # {}
        BY <2>3 DEF TakeOne, TakeAll, Asleep, TypeOK
      <3>2. Cardinality(Notified') >= Cardinality(Notified) - 1
        BY <3>1, OneFewer
      <3>3. queue # <<>>
        BY <2>3 DEF TakeOne, TakeAll
      <3>4. CASE TakeOne(r)
        <4>1. Len(queue') = Len(queue) - 1
          BY <3>3, <3>4, HeadTailProperties DEF TakeOne, TypeOK
        <4> QED BY <1>0, <2>0, <3>1, <3>2, <4>1 DEF NoLostWakeup
      <3>5. CASE TakeAll(r)
        <4>1. Len(queue') = 0
          BY <3>5 DEF TakeAll
        <4> QED BY <1>0, <2>0, <3>1, <4>1 DEF NoLostWakeup
      <3> QED BY <2>3, <3>4, <3>5
    <2> QED BY <1>2, <2>1, <2>2, <2>3 DEF Receive, ReceiveMany
  <1>3. ASSUME NEW r \in Receiver, SpuriousWakeup(r)
        PROVE  ~is_closed' /\ Len(queue') <= Cardinality(Notified')
    <2>1. r \in Asleep /\ at' = [at EXCEPT ![r] = "notified"] /\ UNCHANGED <<queue, is_closed>>
      BY <1>3 DEF SpuriousWakeup
    <2>2. Cardinality(Notified') = Cardinality(Notified) + 1
      BY <2>1, OneMore
    <2> QED BY <1>0, <2>1, <2>2 DEF NoLostWakeup
  <1>4. CASE Close
    BY <1>4 DEF Close, NotifyAll, Asleep
  <1>5. CASE UNCHANGED vars
    BY <1>5 DEF vars, NoLostWakeup, Asleep, Notified
  <1> QED BY <1>1, <1>2, <1>3, <1>4, <1>5 DEF Next

\* While a receiver sleeps the channel is open and every queued item has a
\* notified receiver on its way (notify_one in Send, notify_all in Close).
THEOREM NoWakeupLost == Spec => []NoLostWakeup
  <1>1. Init => NoLostWakeup
    BY DEF Init, NoLostWakeup, Asleep
  <1> QED BY <1>1, TypeCorrect, WakeupNext, PTL DEF Spec
--------------------------------------------------------------------------------
\* The mapping: a receiver is told when it has got kChannelStatusErrorClosed.
Told == {r \in Receiver : at[r] = "closed"}

LEMMA NotifyTellsNobody ==
  ASSUME TypeOK, NotifyOne \/ NotifyAll
  PROVE  Told' = Told
  <1>1. CASE NotifyOne
    BY <1>1 DEF NotifyOne, Asleep, Told, TypeOK
  <1>2. CASE NotifyAll
    BY <1>2 DEF NotifyAll, Asleep, Told, TypeOK
  <1> QED BY <1>1, <1>2

LEMMA MailboxStep ==
  TypeOK /\ [Next]_vars => [AbstractMailbox!Next]_(AbstractMailbox!vars)
  <1> SUFFICES ASSUME TypeOK, [Next]_vars
               PROVE  AbstractMailbox!Next \/ UNCHANGED <<queue, is_closed, got, Told>>
    BY DEF AbstractMailbox!vars, Told
  <1>1. ASSUME NEW s \in Sender, Send(s)
        PROVE  AbstractMailbox!Next \/ UNCHANGED <<queue, is_closed, got, Told>>
    <2>1. CASE is_closed
      BY <1>1, <2>1 DEF Send, Told
    <2>2. CASE ~is_closed
      <3>1. <<s, sent[s] + 1>> \in Item
        BY <1>1, ChannelAssumption DEF Send, Item, TypeOK
      <3>2. Told' = Told
        BY <1>1, <2>2, NotifyTellsNobody DEF Send
      <3>3. AbstractMailbox!Put(<<s, sent[s] + 1>>)
        BY <1>1, <2>2, <3>2 DEF Send, AbstractMailbox!Put, Told
      <3> QED BY <3>1, <3>3 DEF AbstractMailbox!Next
    <2> QED BY <2>1, <2>2
  <1>2. ASSUME NEW r \in Receiver, Receive(r) \/ ReceiveMany(r)
        PROVE  AbstractMailbox!Next \/ UNCHANGED <<queue, is_closed, got, Told>>
    <2>0. is_closed' = is_closed /\ r \notin Told
      BY <1>2 DEF Receive, ReceiveMany, HasMutex, Told
    <2>1. CASE Wait(r)
      BY <2>0, <2>1 DEF Wait, Told, TypeOK
    <2>2. CASE FindClosed(r)
      <3>1. Told' = Told \cup {r}
        BY <2>2 DEF FindClosed, Told, TypeOK
      <3>2. AbstractMailbox!Tell(r)
        BY <2>0, <2>2, <3>1 DEF FindClosed, AbstractMailbox!Tell, Told
      <3> QED BY <3>2 DEF AbstractMailbox!Next
    <2>3. CASE TakeOne(r) \/ TakeAll(r)
      <3>1. Told' = Told
        BY <2>0, <2>3 DEF TakeOne, TakeAll, Told, TypeOK
      <3>2. AbstractMailbox!Take(r)
        BY <2>0, <2>3, <3>1 DEF TakeOne, TakeAll, AbstractMailbox!Take, Told
      <3> QED BY <3>2 DEF AbstractMailbox!Next
    <2> QED BY <1>2, <2>1, <2>2, <2>3 DEF Receive, ReceiveMany
  <1>3. ASSUME NEW r \in Receiver, SpuriousWakeup(r)
        PROVE  AbstractMailbox!Next \/ UNCHANGED <<queue, is_closed, got, Told>>
    BY <1>3 DEF SpuriousWakeup, Asleep, Told, TypeOK
  <1>4. CASE Close
    <2>1. Told' = Told
      BY <1>4, NotifyTellsNobody DEF Close
    <2>2. AbstractMailbox!Close
      BY <1>4, <2>1 DEF Close, AbstractMailbox!Close, Told
    <2> QED BY <2>2 DEF AbstractMailbox!Next
  <1>5. CASE UNCHANGED vars
    BY <1>5 DEF vars, Told
  <1> QED BY <1>1, <1>2, <1>3, <1>4, <1>5 DEF Next

\* Step by step the channel implements the mailbox: first in first out, every
\* item to one receiver, nothing accepted after the end and nothing lost by it.
THEOREM ImplementsMailbox == Spec => MailboxRefinement
  <1>1. Init => AbstractMailbox!Init
    <2> SUFFICES ASSUME Init PROVE AbstractMailbox!Init
      OBVIOUS
    <2>1. Told = {}
      BY DEF Init, Told
    <2> QED BY <2>1 DEF Init, AbstractMailbox!Init, Told
  <1> QED BY <1>1, TypeCorrect, MailboxStep,
             PTL DEF Spec, MailboxRefinement, AbstractMailbox!Spec
================================================================================
