----------------------------- MODULE WifiProofs -----------------------------
(***************************************************************************)
(* Theorems about Wifi, for any tasks, any number of polls and of losses.  *)
(***************************************************************************)
EXTENDS Wifi, TLAPS

USE RetriesAssumption, LossAssumption

(* wifi_task polls only while retries are left.                              *)
PollInv == wifi = "poll" => retries >= 1

(* Before startWifi has created its task there is nobody to give a permit,   *)
(* and before it has created the semaphore none was ever taken.              *)
StartInv ==
  /\ starter # "done" => wifi = "none"
  /\ starter = "create" => unbacked = 0 /\ semaphore = "NULL"

(* Without an address, what was taken and what can still be taken before     *)
(* wifi_task reads the status again makes two permits at most: the one in    *)
(* the semaphore, and the one wifi_task is about to give.                    *)
Full == IF semaphore = "full" THEN 1 ELSE 0
Giving == IF wifi = "give" THEN 1 ELSE 0
PermitInv ==
  IF station = "gotip" THEN unbacked = 0 ELSE unbacked + Full + Giving <= 2

Inv == TypeOK /\ PollInv /\ StartInv /\ PermitInv

LEMMA InitInv == Init => Inv
BY DEF Init, Inv, TypeOK, PollInv, StartInv, PermitInv, Full, Giving

LEMMA StartSteps ==
  ASSUME Inv, StartWifi
  PROVE  Inv'
<1> USE DEF Inv, TypeOK, PollInv, StartInv, PermitInv, Full, Giving
<1>1. CASE CreateSemaphore
  BY <1>1 DEF CreateSemaphore
<1>2. CASE TakeDefault
  BY <1>2 DEF TakeDefault
<1>3. CASE CreateWifiTask
  BY <1>3 DEF CreateWifiTask
<1> QED
  BY <1>1, <1>2, <1>3 DEF StartWifi

LEMMA WifiTaskSteps ==
  ASSUME Inv, WifiTask
  PROVE  Inv'
<1> USE DEF Inv, TypeOK, PollInv, StartInv, PermitInv, Full, Giving
<1>1. CASE Mode
  BY <1>1 DEF Mode
<1>2. CASE Connect
  BY <1>2 DEF Connect
<1>3. CASE Poll
  BY <1>3 DEF Poll
<1>4. CASE Alive
  BY <1>4 DEF Alive
<1>5. CASE Give
  BY <1>5 DEF Give
<1>6. CASE Disconnect
  BY <1>6 DEF Disconnect
<1> QED
  BY <1>1, <1>2, <1>3, <1>4, <1>5, <1>6 DEF WifiTask

LEMMA StationSteps ==
  ASSUME Inv, Station
  PROVE  Inv'
<1> USE DEF Inv, TypeOK, PollInv, StartInv, PermitInv, Full, Giving
<1>1. CASE StationConnects
  BY <1>1 DEF StationConnects
<1>2. CASE StationFails
  BY <1>2 DEF StationFails
<1>3. CASE StationLoses
  BY <1>3 DEF StationLoses
<1> QED
  BY <1>1, <1>2, <1>3 DEF Station

LEMMA TaskSteps ==
  ASSUME Inv, NEW t \in Task, SeeSemaphore(t) \/ Take(t) \/ Again(t)
  PROVE  Inv'
<1> USE DEF Inv, TypeOK, PollInv, StartInv, PermitInv, Full, Giving
<1>1. CASE SeeSemaphore(t)
  BY <1>1 DEF SeeSemaphore
<1>2. CASE Take(t)
  BY <1>2 DEF Take
<1>3. CASE Again(t)
  BY <1>3 DEF Again
<1> QED
  BY <1>1, <1>2, <1>3

LEMMA StutterStep == Inv /\ UNCHANGED vars => Inv'
BY DEF vars, Inv, TypeOK, PollInv, StartInv, PermitInv, Full, Giving

LEMMA StepInv == Inv /\ [Next]_vars => Inv'
BY StartSteps, WifiTaskSteps, StationSteps, TaskSteps, StutterStep DEF Next

LEMMA Invariance == Spec => []Inv
<1> QED
  BY InitInv, StepInv, PTL DEF Spec

(* The variables keep their types; in particular the polls of the status end *)
(* with their retries (WifiController.c:21).                                 *)
THEOREM TypeCorrect == Spec => []TypeOK
<1>1. Inv => TypeOK
  BY DEF Inv
<1> QED
  BY <1>1, Invariance, PTL

(* However many tasks wait for the one semaphore, at most two rounds start   *)
(* while there is no address (WifiController.c:44, Microgear.c:313).         *)
THEOREM FewUnbacked == Spec => []FewUnbackedRounds
<1>1. Inv => FewUnbackedRounds
  BY DEF Inv, TypeOK, PermitInv, Full, Giving, FewUnbackedRounds
<1> QED
  BY <1>1, Invariance, PTL
=============================================================================
