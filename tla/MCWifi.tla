------------------------------- MODULE MCWifi -------------------------------
(* A small instance of Wifi for TLC; no symmetry, as WaitersProceed is a     *)
(* liveness property.                                                        *)
EXTENDS Wifi
=============================================================================
