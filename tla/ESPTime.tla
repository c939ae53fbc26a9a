------------------------------- MODULE ESPTime -------------------------------
(***************************************************************************)
(* src/lib/Microgear/ESPTime.c: the time of day, kept as an offset to the  *)
(* microseconds since the start, which are a word that wraps (after 71     *)
(* minutes).                                                               *)
(***************************************************************************)
EXTENDS Integers

CONSTANTS
  MicroWord,  \* 2^32
  Second      \* 1000000

ASSUME MicroAssumption == Second \in Nat \ {0} /\ MicroWord \in Nat /\ MicroWord > Second

\* system_get_time, so many microseconds after the start.
system_get_time(micros) == micros % MicroWord
secs(micros) == system_get_time(micros) \div Second

\* A mutation: the seconds since the start are not taken off.
TimeFromStart(ts, set, now) == (secs(now) + ts) % MicroWord

\* setTime(ts) at the moment set and getTime at the moment now.
getTime(ts, set, now) == (secs(now) + ts - secs(set)) % MicroWord
=============================================================================
