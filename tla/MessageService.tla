----------------------------- MODULE MessageService -----------------------------
(***************************************************************************)
(* What SendMsg promises on one connection, without buffers, work requests *)
(* and pollers: messages arrive once, unchanged and in the order they were *)
(* posted, and a message's callback runs once, after the message has left. *)
(***************************************************************************)
EXTENDS Sequences

CONSTANTS Message,    \* messages
          HasCallback \* those sent with a callback

VARIABLES posted,     \* messages on their way, oldest first
          delivered,  \* messages at the peer, in the order of arrival
          called      \* messages whose callback has run

vars == <<posted, delivered, called>>

Init == posted = <<>> /\ delivered = <<>> /\ called = {}

Post(x) == /\ posted' = Append(posted, x)
           /\ UNCHANGED <<delivered, called>>

Deliver == /\ posted # <<>>
           /\ delivered' = Append(delivered, Head(posted))
           /\ posted' = Tail(posted)
           /\ UNCHANGED called

\* The sender may use the memory of the message again.
Callback(x) == /\ x \in HasCallback \ called
               /\ \E i \in DOMAIN delivered : delivered[i] = x
               /\ called' = called \cup {x}
               /\ UNCHANGED <<posted, delivered>>

Next == Deliver \/ \E x \in Message : Post(x) \/ Callback(x)

Spec == Init /\ [][Next]_vars

\* What is posted arrives, and what has left is reported.
Fairness == WF_vars(Deliver) /\ \A x \in Message : WF_vars(Callback(x))

FairSpec == Spec /\ Fairness
================================================================================
