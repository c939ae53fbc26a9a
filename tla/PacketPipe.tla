----------------------------- MODULE PacketPipe -----------------------------
(***************************************************************************)
(* What MqttSession takes for granted of the reading side: whole packets,  *)
(* in the order in which the peer sent them.  The promise ends with the    *)
(* first read that gives up inside a packet: from then on anything may be  *)
(* taken for a packet.                                                     *)
(***************************************************************************)
EXTENDS Naturals, Sequences

VARIABLES
  sent,      \* the packets the peer sent
  received,  \* the packets that were read
  torn       \* has a read given up inside a packet?

vars == <<sent, received, torn>>

Init == sent = <<>> /\ received = <<>> /\ torn = FALSE

\* The peer sends a packet.
Send ==
  /\ Len(sent') = Len(sent) + 1 /\ SubSeq(sent', 1, Len(sent)) = sent
  /\ UNCHANGED <<received, torn>>

\* The next packet is read, as it was sent.
Receive ==
  /\ ~torn /\ Len(received) < Len(sent)
  /\ received' = Append(received, sent[Len(received) + 1])
  /\ UNCHANGED <<sent, torn>>

\* A read gives up inside a packet, or goes on after one that did.
Tear == torn' = TRUE /\ sent' = sent

Next == Send \/ Receive \/ Tear

Spec == Init /\ [][Next]_vars
=============================================================================
