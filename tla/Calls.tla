-------------------------------- MODULE Calls --------------------------------
(***************************************************************************)
(* One call of one of the library's pure functions, on any of the inputs   *)
(* in Input, and what its result must be: packets, topics, messages,       *)
(* timers, the clock and the answers of the authentication server.         *)
(***************************************************************************)
EXTENDS MqttPacket, TopicMatch, MessageHandler, Timer, ESPTime, HttpResponse

CONSTANTS
  Input,  \* the calls: records with the name of the function and its arguments
  Stale   \* what the read buffer holds behind a packet

Serialisers == {"connect", "publish", "subscribe", "unsubscribe", "ack", "zero"}
Parsers == {"PUBLISH", "SUBACK", "UNSUBACK", "PUBACK", "CONNACK"}

IsMQTTString(str) ==
  /\ str \in [cstring : Seq(Seq(Nat)), data : Seq(Seq(Nat))]
  /\ Len(str.cstring) + Len(str.data) <= 1
InTicks(timeout) == timeout \div portTICK_RATE_MS

\* A packet has at most four digits of length; two is one digit.
Longest == Radix3 * Radix - 1
ASSUME StaleAssumption == Radix > 2 /\ Stale \in Seq(Nat)

\* Buffers are shorter than the longest packet (the library's are of 100 bytes), a
\* string has one form or none, and the length of a topic fits its two bytes.
ASSUME SerialiserAssumption ==
  \A c \in Input :
    /\ c.fn \in Serialisers => c.buflen \in 0..Longest
    /\ c.fn = "connect" =>
         /\ c.options.MQTTVersion \in {3, 4} /\ c.options.keepAliveInterval \in Nat
         /\ \A str \in {c.options.clientID, c.options.topicName, c.options.message,
                        c.options.username, c.options.password} : IsMQTTString(str)
    /\ c.fn = "publish" =>
         /\ IsMQTTString(c.p.topic) /\ c.p.topic # NoString
         /\ MQTTstrlen(c.p.topic) < Byte * Byte /\ c.p.payload \in Seq(Nat)
         /\ c.p.qos \in Nat /\ c.p.packetid \in 0..(Byte * Byte - 1)
    /\ c.fn \in {"subscribe", "unsubscribe"} =>
         /\ c.topics \in Seq([cstring : Seq(Seq(Nat)), data : Seq(Seq(Nat))])
         /\ \A i \in DOMAIN c.topics : IsMQTTString(c.topics[i])
         /\ c.packetid \in Nat /\ c.qos \in Nat
    /\ c.fn = "ack" => c.packetid \in Nat

\* A timeout is an unsigned int of milliseconds: in ticks, of ten of them, it is below
\* half a turn of the counter.  The clock is set before it is read.
ASSUME InputAssumption ==
  \A c \in Input :
    /\ c.fn \in Parsers => c.fields \in Seq(Nat) /\ Len(c.fields) <= Longest
    /\ c.fn = "match" => c.filter \in Seq(STRING) /\ c.name \in Seq(STRING)
    /\ c.fn = "dispatch" => c.topic \in Seq(STRING)
    /\ c.fn = "http" => c.chunks \in Seq(Seq(Nat))
    /\ c.fn = "timer" => /\ c.start \in Ticks /\ c.elapsed \in Ticks
                         /\ c.timeout \in Nat /\ InTicks(c.timeout) < Half
    /\ c.fn = "clock" => c.ts \in Nat /\ c.set \in Nat /\ c.now \in Nat /\ c.set <= c.now

VARIABLES call, result

vars == <<call, result>>

Pending == <<>>
Init == call \in Input /\ result = Pending

Returns(fn, value) ==
  /\ call.fn = fn /\ result = Pending
  /\ result' = <<value>> /\ UNCHANGED call

\* The client serialises a packet.
Connect == Returns("connect", MQTTSerialize_connect(call.options, call.buflen))
Publish == Returns("publish", MQTTSerialize_publish(call.p, call.buflen))
Subscribe ==
  Returns("subscribe",
          MQTTSerialize_subscribe(0, call.packetid, call.topics, call.qos, call.buflen))
Unsubscribe ==
  Returns("unsubscribe",
          MQTTSerialize_unsubscribe(0, call.packetid, call.topics, call.buflen))
Ack == Returns("ack", MQTTSerialize_ack(call.type, 0, call.packetid, call.buflen))
Zero == Returns("zero", MQTTSerialize_zero(call.type, call.buflen))

\* The client parses a packet of the broker: a header, the length, and fields that may
\* be fewer than the packet needs.
FromBroker(type, qos, fields) ==
  <<Header(type, 0, qos, 0)>> \o MQTTPacket_encode[Len(fields)] \o fields \o Stale
ParsePublish == Returns("PUBLISH", MQTTDeserialize_publish(FromBroker("PUBLISH", call.qos, call.fields)))
ParseSuback == Returns("SUBACK", MQTTDeserialize_suback(FromBroker("SUBACK", 0, call.fields), 1))
ParseUnsuback == Returns("UNSUBACK", MQTTDeserialize_unsuback(FromBroker("UNSUBACK", 0, call.fields)))
ParseAck == Returns("PUBACK", MQTTDeserialize_ack(FromBroker("PUBACK", 0, call.fields)))
ParseConnack == Returns("CONNACK", MQTTDeserialize_connack(FromBroker("CONNACK", 0, call.fields)))

\* A handler is looked for, and the library's handler chooses a callback.
Match == Returns("match", ForHandler(call.filter, call.name))
Dispatch == Returns("dispatch", defaultMsgHandler(call.topic, call.callbacks))

\* A timer is started and read again after so many ticks.
TimerRead ==
  LET end_time == countdown_ms(call.start, call.timeout)
      now == Plus(call.start, call.elapsed)
  IN Returns("timer", [expired |-> expired(end_time, now),
                       waits |-> Waits(left_ms(end_time, now))])
Clock == Returns("clock", getTime(call.ts, call.set, call.now))
Http == Returns("http", getHTTPResponse(call.chunks))

Next ==
  \/ Connect \/ Publish \/ Subscribe \/ Unsubscribe \/ Ack \/ Zero
  \/ ParsePublish \/ ParseSuback \/ ParseUnsuback \/ ParseAck \/ ParseConnack
  \/ Match \/ Dispatch \/ TimerRead \/ Clock \/ Http

Spec == Init /\ [][Next]_vars

-----------------------------------------------------------------------------
Returned(fns) == call.fn \in fns /\ result # Pending
Value == result[1]

(* A packet that is serialised fits the buffer it was given, and what        *)
(* follows its length field is as long as the field says: the lengths are    *)
(* computed by other functions than the ones that write (for example         *)
(* MQTTSerializePublish.c:31 and 55).                                        *)
SerialisedWhole ==
  Returned(Serialisers) /\ Value.rc # TooShort =>
    LET field == MQTTPacket_decode(Tail(Value.buf) \o Stale) IN
    Value.rc <= call.buflen /\ Value.rc = 1 + field.len + field.value

(* A packet is refused only when it does not fit, or fills the buffer to the *)
(* last byte: MQTTPacket_len (MQTTPacket.c:84) counts a byte too many for    *)
(* packets whose rem_len is at the edge of a digit.                          *)
Needs(rem_len) == 1 + Len(MQTTPacket_encode[rem_len]) + rem_len
RefusedWhenLong ==
  Returned({"publish"}) /\ Value.rc = TooShort =>
    Needs(MQTTSerialize_publishLength(call.p.qos, call.p.topic, call.p.payload)) + 1
      > call.buflen

(* Parsing what was serialised gives the message back, whatever is behind    *)
(* the packet in the buffer (MQTTDeserializePublish.c:36).                   *)
PublishComesBack ==
  Returned({"publish"}) /\ Value.rc # TooShort =>
    LET got == MQTTDeserialize_publish(Value.buf \o Stale)
        str == IF call.p.topic.cstring # NULL THEN call.p.topic.cstring[1]
               ELSE call.p.topic.data[1]
    IN /\ got.rc = 1 /\ got.topic = str /\ got.payload = call.p.payload
       /\ got.dup = call.p.dup /\ got.qos = call.p.qos /\ got.retained = call.p.retained
       /\ call.p.qos > 0 => got.packetid = call.p.packetid

(* A packet of the broker is parsed exactly when its fields are in it, and   *)
(* gives these fields: the bytes behind a packet that is too short are not   *)
(* taken for them (MQTTDeserializePublish.c:36 and 82, MQTTSubscribeClient.c *)
(* :100, MQTTConnectClient.c:132).  Of codes one more than asked for passes. *)
(* The packet id of a PUBLISH is read without such a test (line 60): nothing *)
(* is said of it, the broker has no reason to send one for QoS 0.            *)
HasFields ==
  LET n == Len(call.fields) IN
  /\ n >= 2
  /\ call.fn = "SUBACK" => n <= 4
  /\ call.fn = "PUBLISH" => 2 + readInt(call.fields, 1) <= n
FieldsParsed ==
  Returned(Parsers) =>
    /\ Value.parsed <=> HasFields
    /\ Value.parsed => Value.rc = 1
    /\ Value.parsed /\ call.fn \in {"SUBACK", "UNSUBACK", "PUBACK"} =>
         Value.packetid = readInt(call.fields, 1)
    /\ Value.parsed /\ call.fn = "SUBACK" => Value.codes = SubSeq(call.fields, 3, Len(call.fields))
    /\ Value.parsed /\ call.fn = "CONNACK" => Value.connack_rc = call.fields[2]

(* src/lib/Microgear/MQTTClient/MQTTDeserializePublish.c:80 says: "error     *)
(* code.  1 is success, 0 is failure" (and MQTTDeserializePublish.c:34,      *)
(* MQTTSubscribeClient.c:98): the result 1 means that the fields were read.  *)
SuccessMeansParsed == Returned(Parsers) => (Value.rc = 1 <=> Value.parsed)

(* A handler gets exactly the messages its filter means, except that a       *)
(* wildcard does not stand for an empty or a missing level                   *)
(* (MQTTClient.c:113).                                                       *)
HandlerByLevels ==
  Returned({"match"}) /\ WellFormed(call.filter) =>
    (Value <=> /\ FilterMatches(call.filter, call.name)
               /\ ~WildcardOnNothing(call.filter, call.name))

(* A message of the application reaches cb_message and no other callback, a  *)
(* control message the callback of its name and never cb_message, by what    *)
(* the broker puts behind the appid (Microgear.c:149).                       *)
BehindAppid(topic) == Len(Levels(topic)) >= 3 /\ topic[1] = "/"
Name(topic) == Levels(topic)[3]
DispatchedByName ==
  /\ Returned({"dispatch"}) /\ Value \in {"error", "info"} => call.topic[1] = "@"
  /\ Returned({"dispatch"}) /\ BehindAppid(call.topic) =>
    LET control == Name(call.topic) # <<>> /\ Name(call.topic)[1] = "&"
        exactly(name) == Name(call.topic) = name /\ Len(Levels(call.topic)) = 3
    IN /\ Value = "message" <=> ~control /\ "message" \in call.callbacks
       /\ Value = "present" <=> exactly(<<"&", "P">>) /\ "present" \in call.callbacks
       /\ Value = "absent" <=> exactly(<<"&", "A">>) /\ "absent" \in call.callbacks

(* A timer is expired exactly when more ticks than its timeout have gone by, *)
(* whatever the counter wrapped in between, until half a turn of the counter *)
(* after its end (MQTTESP8266.c:32).                                         *)
ExpiryRight ==
  Returned({"timer"}) /\ call.elapsed <= InTicks(call.timeout) + Half =>
    (Value.expired <=> call.elapsed > InTicks(call.timeout))

(* select waits no longer than the timer has left, in either reading of its  *)
(* tv_sec, although left_ms divides where it should multiply                 *)
(* (MQTTESP8266.c:57 and 73).                                                *)
WaitEndsInTime ==
  Returned({"timer"}) /\ call.elapsed <= InTicks(call.timeout) =>
    \A ticks \in Value.waits : ticks <= InTicks(call.timeout) - call.elapsed

(* The clock is right to a second until the microseconds wrap; after that it *)
(* has fallen behind by all the seconds of a turn (ESPTime.c:18).            *)
Turns == call.now \div MicroWord - call.set \div MicroWord
ClockRight ==
  Returned({"clock"}) =>
    LET elapsed == (call.now - call.set) \div Second
        lost == Turns * (MicroWord \div Second)
    IN \E error \in (0 - Turns)..1 : Value = (call.ts + elapsed + error - lost) % MicroWord

(* The status and the body do not depend on how the answer was cut into      *)
(* chunks, as long as the body holds no CRLF; a CRLF that comes in the chunk *)
(* of the header's end costs the body what is before it (AuthClient.c:147).  *)
EmptyLines(text) == {i \in Ends(text) : i = 1 \/ i - 2 \in Ends(text)}
BodyBegins(text) == Min(EmptyLines(text)) + 2
Body(text) == SubSeq(text, BodyBegins(text), Len(text))
Given(text, key) ==
  {i \in 1..(BodyBegins(text) - 2) : text[i] = key /\ (i = 1 \/ i - 2 \in Ends(text))}
Number(text, i) == IF i + 1 \in Ends(text) THEN 0 ELSE text[i + 1]
Announced(text) ==
  IF Given(text, LENGTH) = {} THEN Len(Body(text)) ELSE Number(text, Min(Given(text, LENGTH)))
ChunksInvisible ==
  LET text == FlattenSeq(call.chunks)
      body == Body(text)
  IN Returned({"http"}) /\ EmptyLines(text) # {} /\ Ends(body) = {} =>
       /\ Value.httpstatus = IF 1 \in Given(text, STATUS) THEN Number(text, 1) ELSE INT_NULL
       /\ Value.body = IF Announced(text) < Len(body) THEN SubSeq(body, 1, Announced(text))
                       ELSE body
=============================================================================
