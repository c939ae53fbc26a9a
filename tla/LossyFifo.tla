------------------------------ MODULE LossyFifo ------------------------------
(***************************************************************************)
(* What ps_queue and the task that drains it promise an application whose  *)
(* requests were accepted, stated without tasks, sessions or commands:     *)
(* requests are written in the order of their acceptance, each at most     *)
(* once; the oldest may be lost (its command failed), and all that wait    *)
(* may be forgotten together (a new session began).  No request is lost    *)
(* from the middle, and none comes back.                                   *)
(***************************************************************************)
EXTENDS Integers, Sequences

CONSTANT Capacity   \* requests that can wait: the queue and the task's hands

VARIABLES
  accepted,   \* how many requests were accepted; a request is named by its rank
  pending,    \* the requests that wait, oldest first
  output      \* the requests that were written

vars == <<accepted, pending, output>>

Init == accepted = 0 /\ pending = <<>> /\ output = <<>>

Accept ==
  /\ Len(pending) < Capacity
  /\ accepted' = accepted + 1
  /\ pending' = Append(pending, accepted + 1)
  /\ UNCHANGED output

Write ==
  /\ pending # <<>>
  /\ output' = Append(output, Head(pending))
  /\ pending' = Tail(pending)
  /\ UNCHANGED accepted

Lose ==
  /\ pending # <<>>
  /\ pending' = Tail(pending)
  /\ UNCHANGED <<accepted, output>>

Forget ==
  /\ pending' = <<>>
  /\ UNCHANGED <<accepted, output>>

Next == Accept \/ Write \/ Lose \/ Forget

Spec == Init /\ [][Next]_vars

(* The requests that were written are in the order of their acceptance, and  *)
(* none is there twice.                                                      *)
InOrder == \A i, j \in 1..Len(output) : i < j => output[i] < output[j]
=============================================================================
