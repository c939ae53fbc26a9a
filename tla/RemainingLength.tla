--------------------------- MODULE RemainingLength ---------------------------
(***************************************************************************)
(* The length field of an MQTT packet, src/lib/Microgear/MQTTClient/       *)
(* MQTTPacket.c: one to four digits, least significant first.  A byte is a *)
(* digit below Radix (128) or, when another one follows, Radix more.       *)
(***************************************************************************)
EXTENDS Integers, Sequences

CONSTANT Radix

ASSUME RadixAssumption == Radix \in Nat /\ Radix >= 2

Radix2 == Radix * Radix    \* 16384
Radix3 == Radix2 * Radix   \* 2097152
MaxDigits == 4  \* MAX_NO_OF_REMAINING_LENGTH_BYTES

MQTTPacket_encode[length \in Nat] ==
  IF length < Radix THEN <<length>>
  ELSE <<Radix + (length % Radix)>> \o MQTTPacket_encode[length \div Radix]

\* MQTTPacket_decode at the beginning of buf: the value and how many bytes the caller
\* is told were used.  A fifth byte is counted, but neither read nor an error.
MQTTPacket_decode(buf) ==
  LET last == {k \in 1..MaxDigits : buf[k] < Radix /\ \A j \in 1..(k - 1) : buf[j] >= Radix}
      n == IF last = {} THEN MaxDigits ELSE CHOOSE k \in last : TRUE
      digit(k) == buf[k] % Radix
      value == IF n = 1 THEN digit(1)
               ELSE IF n = 2 THEN digit(1) + digit(2) * Radix
               ELSE IF n = 3 THEN digit(1) + digit(2) * Radix + digit(3) * Radix2
               ELSE digit(1) + digit(2) * Radix + digit(3) * Radix2 + digit(4) * Radix3
  IN [value |-> value, len |-> IF last = {} THEN MaxDigits + 1 ELSE n]

\* A mutation: the longest length field is counted for every packet.
LenAtMost(rem_len) == rem_len + 1 + MaxDigits

\* The length of a packet, from rem_len with the header byte already added to it.
MQTTPacket_len(rem_len) ==
  LET n == rem_len + 1 IN
  IF n < Radix THEN n + 1
  ELSE IF n < Radix2 THEN n + 2
  ELSE IF n < Radix3 - 1 THEN n + 3
  ELSE n + 4
=============================================================================
