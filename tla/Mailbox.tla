-------------------------------- MODULE Mailbox --------------------------------
(***************************************************************************)
(* What a Channel promises, without its mutex, its condition variable and  *)
(* the threads asleep on it: items come out in the order they were put in, *)
(* each once; closing refuses new items but loses none; and whoever keeps  *)
(* receiving gets the items there are, and is told once there are none     *)
(* and there will be none.                                                 *)
(***************************************************************************)
EXTENDS Sequences

CONSTANTS Item, Receiver

VARIABLES queue,      \* items put in and not taken
          is_closed,
          got,        \* got[r]: what receiver r has taken
          told        \* receivers that know the end is reached

vars == <<queue, is_closed, got, told>>

Init == /\ queue = <<>>
        /\ is_closed = FALSE
        /\ got = [r \in Receiver |-> <<>>]
        /\ told = {}

Put(i) == /\ ~is_closed
          /\ queue' = Append(queue, i)
          /\ UNCHANGED <<is_closed, got, told>>

\* The oldest item, or all there are.
Take(r) == /\ queue # <<>> /\ r \notin told
           /\ \/ /\ got' = [got EXCEPT ![r] = Append(@, Head(queue))]
                 /\ queue' = Tail(queue)
              \/ /\ got' = [got EXCEPT ![r] = @ \o queue]
                 /\ queue' = <<>>
           /\ UNCHANGED <<is_closed, told>>

Close == is_closed' = TRUE /\ UNCHANGED <<queue, got, told>>

Tell(r) == /\ is_closed /\ queue = <<>> /\ r \notin told
           /\ told' = told \cup {r}
           /\ UNCHANGED <<queue, is_closed, got>>

Next == \/ \E i \in Item : Put(i)
        \/ \E r \in Receiver : Take(r) \/ Tell(r)
        \/ Close

Spec == Init /\ [][Next]_vars

\* Items are taken while somebody can, and the end is told to everybody.
Fairness == /\ WF_vars(\E r \in Receiver : Take(r))
            /\ \A r \in Receiver : WF_vars(Tell(r))

FairSpec == Spec /\ Fairness
================================================================================
