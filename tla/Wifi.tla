-------------------------------- MODULE Wifi --------------------------------
(***************************************************************************)
(* src/lib/Microgear/WifiController.c, the task that keeps the station     *)
(* connected and signals it through the binary semaphore wifi_semaphore,   *)
(* startWifi, which creates both, and the wait for wifi at the head of     *)
(* each round of microgear_task (Microgear.c), by one task per Microgear.  *)
(* The station is the environment.  The task reads its status at one       *)
(* moment and acts on it at a later one.                                   *)
(***************************************************************************)
EXTENDS Integers

CONSTANTS
  Task,       \* tasks that run microgear_task
  Retries,    \* polls of the status before a new attempt (30 in the code)
  MaxLoss     \* bound: losses of the station's address

ASSUME RetriesAssumption == Retries \in Nat \ {0}
ASSUME LossAssumption == MaxLoss \in Nat

VARIABLES
  semaphore,  \* wifi_semaphore: "NULL", "empty" or "full"
  starter,    \* where the caller of startWifi is
  wifi,       \* where wifi_task is
  retries,    \* its local retries
  opmode,     \* the station mode of the chip, kept over restarts
  station,    \* the station: "idle", "connecting", "failed" or "gotip"
  pc,         \* where each microgear_task is: "wait", "take" or "work"
  unbacked,   \* history: waits that ended since the station last had an address
  losses      \* history: losses of the address

vars == <<semaphore, starter, wifi, retries, opmode, station, pc, unbacked, losses>>

Init ==
  /\ semaphore = "NULL" /\ starter = "create" /\ wifi = "none" /\ retries = 0
  /\ opmode \in {"station", "other"} /\ station = "idle"
  /\ pc = [t \in Task |-> "wait"] /\ unbacked = 0 /\ losses = 0

-----------------------------------------------------------------------------
(* startWifi.                                                              *)

\* vSemaphoreCreateBinary: the semaphore is there, and full.
CreateSemaphore ==
  /\ starter = "create" /\ starter' = "take"
  /\ semaphore' = "full"
  /\ UNCHANGED <<wifi, retries, opmode, station, pc, unbacked, losses>>

\* xSemaphoreTake with timeout 0: it fails when somebody else was faster.
TakeDefault ==
  /\ starter = "take" /\ starter' = "task"
  /\ semaphore' = "empty"
  /\ UNCHANGED <<wifi, retries, opmode, station, pc, unbacked, losses>>

CreateWifiTask ==
  /\ starter = "task" /\ starter' = "done"
  /\ wifi' = "mode"
  /\ UNCHANGED <<semaphore, retries, opmode, station, pc, unbacked, losses>>

-----------------------------------------------------------------------------
(* wifi_task.                                                              *)

\* A chip in another mode is set to station mode and restarted.
Mode ==
  /\ wifi = "mode"
  /\ IF opmode = "station"
     THEN wifi' = "connect" /\ UNCHANGED <<semaphore, starter, opmode, pc, unbacked, losses>>
     ELSE /\ opmode' = "station" /\ wifi' = "none"
          /\ semaphore' = "NULL" /\ starter' = "create"
          /\ pc' = [t \in Task |-> "wait"] /\ unbacked' = 0 /\ losses' = 0
  /\ UNCHANGED <<retries, station>>

\* wifi_station_connect and wifi_station_set_config.
Connect ==
  /\ wifi = "connect" /\ wifi' = "poll"
  /\ station' = IF station = "gotip" THEN station ELSE "connecting"
  /\ retries' = Retries
  /\ UNCHANGED <<semaphore, starter, opmode, pc, unbacked, losses>>

\* A mutation: the polling does not end with the last retry.
PollForever ==
  /\ wifi = "poll"
  /\ IF station \in {"gotip", "failed"}
     THEN wifi' = "alive" /\ retries' = 0
     ELSE wifi' = wifi /\ retries' = retries - 1
  /\ UNCHANGED <<semaphore, starter, opmode, station, pc, unbacked, losses>>

\* One poll: connected or failed, the polling ends; otherwise one retry less.
Poll ==
  /\ wifi = "poll"
  /\ IF station \in {"gotip", "failed"} \/ retries = 1
     THEN wifi' = "alive" /\ retries' = 0
     ELSE wifi' = wifi /\ retries' = retries - 1
  /\ UNCHANGED <<semaphore, starter, opmode, station, pc, unbacked, losses>>

\* The status is read; what is done with it comes later.
Alive ==
  /\ wifi = "alive"
  /\ wifi' = IF station = "gotip" THEN "give" ELSE "disconnect"
  /\ UNCHANGED <<semaphore, starter, retries, opmode, station, pc, unbacked, losses>>

\* A mutation: one xSemaphoreGive per connection.
GiveOnce ==
  /\ wifi = "give" /\ wifi' = "idle"
  /\ semaphore' = "full"
  /\ UNCHANGED <<starter, retries, opmode, station, pc, unbacked, losses>>

\* A mutation: the status is not read again before the next xSemaphoreGive.
GiveBlindly ==
  /\ wifi = "give" /\ wifi' = wifi
  /\ semaphore' = "full"
  /\ UNCHANGED <<starter, retries, opmode, station, pc, unbacked, losses>>

\* xSemaphoreGive, once a second as long as there is an address.
Give ==
  /\ wifi = "give" /\ wifi' = "alive"
  /\ semaphore' = "full"
  /\ UNCHANGED <<starter, retries, opmode, station, pc, unbacked, losses>>

\* wifi_station_disconnect.
Disconnect ==
  /\ wifi = "disconnect" /\ wifi' = "connect"
  /\ station' = "idle"
  /\ unbacked' = IF station = "gotip" THEN 0 ELSE unbacked
  /\ UNCHANGED <<semaphore, starter, retries, opmode, pc, losses>>

-----------------------------------------------------------------------------
(* microgear_task.                                                         *)

\* while (!wifi_semaphore): the poll sees that the semaphore exists.
SeeSemaphore(t) ==
  /\ pc[t] = "wait" /\ semaphore # "NULL"
  /\ pc' = [pc EXCEPT ![t] = "take"]
  /\ UNCHANGED <<semaphore, starter, wifi, retries, opmode, station, unbacked, losses>>

\* xSemaphoreTake without a timeout.
Take(t) ==
  /\ pc[t] = "take" /\ semaphore = "full"
  /\ pc' = [pc EXCEPT ![t] = "work"]
  /\ semaphore' = "empty"
  /\ unbacked' = IF station = "gotip" THEN 0 ELSE unbacked + 1
  /\ UNCHANGED <<starter, wifi, retries, opmode, station, losses>>

\* The round is over: the connection was not made, or is lost.
Again(t) ==
  /\ pc[t] = "work" /\ pc' = [pc EXCEPT ![t] = "wait"]
  /\ UNCHANGED <<semaphore, starter, wifi, retries, opmode, station, unbacked, losses>>

-----------------------------------------------------------------------------
(* The station.                                                            *)

StationConnects ==
  /\ station \in {"connecting", "failed"} /\ station' = "gotip"
  /\ unbacked' = 0
  /\ UNCHANGED <<semaphore, starter, wifi, retries, opmode, pc, losses>>

StationFails ==
  /\ station = "connecting" /\ station' = "failed"
  /\ UNCHANGED <<semaphore, starter, wifi, retries, opmode, pc, unbacked, losses>>

StationLoses ==
  /\ station = "gotip" /\ losses < MaxLoss
  /\ station' = "connecting" /\ losses' = losses + 1
  /\ UNCHANGED <<semaphore, starter, wifi, retries, opmode, pc, unbacked>>

-----------------------------------------------------------------------------
StartWifi == CreateSemaphore \/ TakeDefault \/ CreateWifiTask
WifiTask == Mode \/ Connect \/ Poll \/ Alive \/ Give \/ Disconnect
Station == StationConnects \/ StationFails \/ StationLoses

Next ==
  \/ StartWifi \/ WifiTask \/ Station
  \/ \E t \in Task : SeeSemaphore(t) \/ Take(t) \/ Again(t)

Spec == Init /\ [][Next]_vars

\* Every task is scheduled, and FreeRTOS wakes the task that waited longest.  The
\* station may do what it likes, and a round of work may last for ever.
FairSpec ==
  /\ Spec /\ WF_vars(StartWifi) /\ WF_vars(WifiTask)
  /\ \A t \in Task : WF_vars(SeeSemaphore(t)) /\ SF_vars(Take(t))

-----------------------------------------------------------------------------
TypeOK ==
  /\ semaphore \in {"NULL", "empty", "full"}
  /\ starter \in {"create", "take", "task", "done"}
  /\ wifi \in {"none", "mode", "connect", "poll", "alive", "give", "disconnect"}
  /\ retries \in 0..Retries /\ opmode \in {"station", "other"}
  /\ station \in {"idle", "connecting", "failed", "gotip"}
  /\ pc \in [Task -> {"wait", "take", "work"}]
  /\ unbacked \in Nat /\ losses \in 0..MaxLoss

(* However many rounds fail while there is no address, at most two waits end *)
(* for nothing: one on the permit that was given before the loss, and one on *)
(* the permit of a status that was read before it.  After that every round   *)
(* waits for the station.                                                    *)
FewUnbackedRounds == unbacked <= 2

(* As long as the station keeps its address, a task that waits gets on: the  *)
(* permit one task consumes is given again for the next.                     *)
WaitersProceed ==
  <>[](station = "gotip") =>
    \A t \in Task : (pc[t] = "take") ~> (pc[t] = "work")
=============================================================================
