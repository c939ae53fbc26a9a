-------------------------- MODULE MCSubscriptions --------------------------
(* A small instance of Subscriptions for TLC.                               *)
EXTENDS Subscriptions

FdTwo == {0, 1}
FdOne == {0}
Changes == {"PSQ_SUBSCRIBE", "PSQ_UNSUBSCRIBE"}
Events == {"connected", "present"}
=============================================================================
