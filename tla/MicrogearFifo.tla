---------------------------- MODULE MicrogearFifo ----------------------------
(* Microgear.tla seen as a LossyFifo: as long as disconnect was never called *)
(* (MaxDisconnect = 0) one task drains ps_queue, and what waits is the       *)
(* message in its hands, if any, before those in the queue.                  *)
EXTENDS Microgear

Hand == {t \in Task : pc[t] = "command"}
HandIds == IF Hand = {} THEN <<>> ELSE <<msg[CHOOSE t \in Hand : TRUE].id>>
QueueIds == [i \in 1..Len(ps_queue) |-> ps_queue[i].id]
WireIds == [i \in 1..Len(wire) |-> wire[i].id]

Fifo == INSTANCE LossyFifo
          WITH Capacity <- QueueLen + 1, pending <- HandIds \o QueueIds,
               output <- WireIds

(* Every step of the API and of microgear_task is a step of the lossy FIFO   *)
(* or leaves it alone.                                                       *)
FifoSpec == Fifo!Spec
=============================================================================
