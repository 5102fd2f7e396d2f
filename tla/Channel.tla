-------------------------------- MODULE Channel --------------------------------
(***************************************************************************)
(* Channel (common/channel.h): a queue under a mutex and a condition       *)
(* variable, any number of threads calling Send, Receive, ReceiveMany and  *)
(* Close.  A critical section is one step; cond_.wait is two, going to     *)
(* sleep and taking the mutex again after a notification.                  *)
(***************************************************************************)
EXTENDS Integers, Sequences, FiniteSets

CONSTANTS Sender,     \* threads that call Send
          Receiver,   \* threads that receive until the channel is closed
          Many,       \* the receivers that use ReceiveMany
          Sends       \* calls of Send one sender makes

ASSUME ChannelAssumption == /\ Sends \in Nat
                            /\ Many \subseteq Receiver
                            /\ IsFiniteSet(Receiver)

VARIABLES queue,       \* queue_
          is_closed,   \* is_closed_
          at,          \* where each receiver is
          sent,        \* sent[s]: calls of Send that have returned
          got          \* got[r]: the items r has received

vars == <<queue, is_closed, at, sent, got>>

Item == Sender \X (1 .. Sends)

\* Before the mutex of a call, asleep in cond_.wait, notified and on its way
\* back to the mutex, or told kChannelStatusErrorClosed.
Places == {"call", "asleep", "notified", "closed"}

Asleep == {r \in Receiver : at[r] = "asleep"}
Notified == {r \in Receiver : at[r] = "notified"}

Init == /\ queue = <<>>
        /\ is_closed = FALSE
        /\ at = [r \in Receiver |-> "call"]
        /\ sent = [s \in Sender |-> 0]
        /\ got = [r \in Receiver |-> <<>>]

\* notify_one: any sleeping receiver, and nobody if there is none.
NotifyOne == IF Asleep = {} THEN UNCHANGED at
                            ELSE \E r \in Asleep : at' = [at EXCEPT ![r] = "notified"]

\* Mutant: Close wakes one receiver only.
NotifyAllOne == NotifyOne

\* notify_all.
NotifyAll == at' = [r \in Receiver |-> IF r \in Asleep THEN "notified" ELSE at[r]]

\* Mutant: a notification only for the first item of an empty queue.
SendToEmpty(s) ==
  /\ sent[s] < Sends
  /\ sent' = [sent EXCEPT ![s] = @ + 1]
  /\ IF is_closed
       THEN UNCHANGED <<queue, at>>
       ELSE /\ queue' = Append(queue, <<s, sent[s] + 1>>)
            /\ IF queue = <<>> THEN NotifyOne ELSE UNCHANGED at
  /\ UNCHANGED <<is_closed, got>>

\* A closed channel refuses the item.
Send(s) ==
  /\ sent[s] < Sends
  /\ sent' = [sent EXCEPT ![s] = @ + 1]
  /\ IF is_closed
       THEN UNCHANGED <<queue, at>>
       ELSE /\ queue' = Append(queue, <<s, sent[s] + 1>>)
            /\ NotifyOne
  /\ UNCHANGED <<is_closed, got>>

\* Holding the mutex, a receiver finds nothing and sleeps ...
Wait(r) ==
  /\ queue = <<>> /\ ~is_closed
  /\ at' = [at EXCEPT ![r] = "asleep"]
  /\ UNCHANGED <<queue, got>>

\* Mutant: a closed channel is at its end, whatever is in the queue.
FindClosedAnyhow(r) ==
  /\ is_closed
  /\ at' = [at EXCEPT ![r] = "closed"]
  /\ UNCHANGED <<queue, got>>

\* ... or finds the end ...
FindClosed(r) ==
  /\ queue = <<>> /\ is_closed
  /\ at' = [at EXCEPT ![r] = "closed"]
  /\ UNCHANGED <<queue, got>>

\* ... or takes the oldest item, or every item.
TakeOne(r) ==
  /\ queue # <<>>
  /\ got' = [got EXCEPT ![r] = Append(@, Head(queue))]
  /\ queue' = Tail(queue)
  /\ at' = [at EXCEPT ![r] = "call"]

\* Mutant: the queue itself is pushed, not its items.
TakeAllAsOne(r) ==
  /\ queue # <<>>
  /\ got' = [got EXCEPT ![r] = Append(@, queue)]
  /\ queue' = <<>>
  /\ at' = [at EXCEPT ![r] = "call"]

TakeAll(r) ==
  /\ queue # <<>>
  /\ got' = [got EXCEPT ![r] = @ \o queue]
  /\ queue' = <<>>
  /\ at' = [at EXCEPT ![r] = "call"]

HasMutex(r) == at[r] \in {"call", "notified"}

Receive(r) == /\ r \notin Many /\ HasMutex(r)
              /\ Wait(r) \/ FindClosed(r) \/ TakeOne(r)
              /\ UNCHANGED <<is_closed, sent>>

ReceiveMany(r) == /\ r \in Many /\ HasMutex(r)
                  /\ Wait(r) \/ FindClosed(r) \/ TakeAll(r)
                  /\ UNCHANGED <<is_closed, sent>>

\* A condition variable may wake a thread nobody notified.
SpuriousWakeup(r) == /\ r \in Asleep
                     /\ at' = [at EXCEPT ![r] = "notified"]
                     /\ UNCHANGED <<queue, is_closed, sent, got>>

Close == /\ is_closed' = TRUE
         /\ NotifyAll
         /\ UNCHANGED <<queue, sent, got>>

Next == \/ \E s \in Sender : Send(s)
        \/ \E r \in Receiver : Receive(r) \/ ReceiveMany(r) \/ SpuriousWakeup(r)
        \/ Close

Spec == Init /\ [][Next]_vars

\* A thread that can take the mutex gets it; nothing else is assumed: nobody
\* need send or close, and no wake-up but by a notification is counted on.
FairSpec == Spec /\ \A r \in Receiver : WF_vars(Receive(r) \/ ReceiveMany(r))
--------------------------------------------------------------------------------
\* Types.
TypeOK == /\ queue \in Seq(Item)
          /\ is_closed \in BOOLEAN
          /\ at \in [Receiver -> Places]
          /\ sent \in [Sender -> 0 .. Sends]
          /\ got \in [Receiver -> Seq(Item)]

\* No wake-up is lost: while a receiver sleeps, the channel is open and every
\* item in the queue has a notified receiver of its own on the way (Send's
\* notify_one and Close's notify_all are enough, whoever takes the items).
NoLostWakeup ==
  Asleep # {} => ~is_closed /\ Len(queue) <= Cardinality(Notified)

AbstractMailbox == INSTANCE Mailbox WITH told <- {r \in Receiver : at[r] = "closed"}

\* The channel implements the mailbox: items in order, each to one receiver,
\* nothing accepted after Close and nobody told before the last item is taken.
MailboxRefinement == AbstractMailbox!Spec

\* Whoever slept or came late, items in the queue are taken, and after Close
\* every receiver is told.
MailboxProgress == AbstractMailbox!Fairness
================================================================================
