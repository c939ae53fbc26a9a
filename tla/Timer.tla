-------------------------------- MODULE Timer --------------------------------
(***************************************************************************)
(* The timers of src/lib/Microgear/MQTTClient/MQTTESP8266.c: deadlines on  *)
(* the tick counter of FreeRTOS, a word that wraps.                        *)
(***************************************************************************)
EXTENDS Integers

CONSTANT Half  \* 2^31: half the values of a word

ASSUME HalfAssumption == Half \in Nat /\ Half >= 1

Word == 2 * Half
portTICK_RATE_MS == 10
Ticks == 0..(Word - 1)

Plus(a, b) == IF a + b < Word THEN a + b ELSE a + b - Word
Minus(a, b) == IF a >= b THEN a - b ELSE a - b + Word
int32_t(a) == IF a < Half THEN a ELSE a - Word

\* A mutation: the counters are compared.
ExpiredByOrder(end_time, now) == end_time < now

expired(end_time, now) == int32_t(Minus(end_time, now)) < 0

countdown_ms(now, timeout) == Plus(now, timeout \div portTICK_RATE_MS)

left_ms(end_time, now) ==
  LET left == int32_t(Minus(end_time, now)) IN
  IF left < 0 THEN 0 ELSE left \div portTICK_RATE_MS

\* A mutation: milliseconds are passed to select as they are.
WaitUnscaled(timeout_ms) == timeout_ms

\* The tv_sec of mqtt_esp_read and mqtt_esp_write.
tv_sec(timeout_ms) == timeout_ms \div portTICK_RATE_MS

\* How many ticks select then waits.  The code's comment holds tv_sec for ticks; by
\* its definition it is seconds.
TicksPerSecond == 1000 \div portTICK_RATE_MS
Waits(timeout_ms) == {tv_sec(timeout_ms), tv_sec(timeout_ms) * TicksPerSecond}
=============================================================================
