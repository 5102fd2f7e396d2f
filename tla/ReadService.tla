------------------------------ MODULE ReadService ------------------------------
(***************************************************************************)
(* What two connected machines are promised, without buffers, messages and *)
(* pollers: a read that is asked for completes with the bytes of its       *)
(* source, reads of one source complete in the order they were asked for,  *)
(* and the source is told, once per read and only after it has completed,  *)
(* that its memory may be released.                                        *)
(***************************************************************************)
EXTENDS Sequences

CONSTANTS Machine,   \* machines that own memory to be read
          Read,      \* the reads
          Source     \* Source[k]: the machine whose memory k reads

VARIABLES requested,  \* requested[s]: reads of s not yet complete, oldest first
          completed,  \* reads complete, their source not yet released
          released    \* reads whose source has been released

vars == <<requested, completed, released>>

Init == /\ requested = [s \in Machine |-> <<>>]
        /\ completed = {}
        /\ released = {}

Request(k) ==
  /\ requested' = [requested EXCEPT ![Source[k]] = Append(@, k)]
  /\ UNCHANGED <<completed, released>>

Complete(s) ==
  /\ requested[s] # <<>>
  /\ completed' = completed \cup {Head(requested[s])}
  /\ requested' = [requested EXCEPT ![s] = Tail(@)]
  /\ UNCHANGED released

Release(k) ==
  /\ k \in completed
  /\ completed' = completed \ {k}
  /\ released' = released \cup {k}
  /\ UNCHANGED requested

Next == \/ \E k \in Read : Request(k) \/ Release(k)
        \/ \E s \in Machine : Complete(s)

Spec == Init /\ [][Next]_vars

\* A requested read completes, and a completed one is released.
Fairness == /\ \A s \in Machine : WF_vars(Complete(s))
            /\ \A k \in Read : WF_vars(Release(k))

FairSpec == Spec /\ Fairness
================================================================================
