----------------------------- MODULE MqttPacket -----------------------------
(***************************************************************************)
(* Serialisation and parsing of MQTT packets, src/lib/Microgear/MQTTClient *)
(* /MQTTPacket.c and MQTT{Connect,Subscribe,Unsubscribe}Client.c,          *)
(* MQTTSerializePublish.c, MQTTDeserializePublish.c: pure functions.       *)
(*                                                                         *)
(* A buffer is a sequence; its first element stands for the header byte,   *)
(* a record of the bit fields, the others are bytes below Byte.  Bit       *)
(* fields of CONNECT are one element too.  What a parser reads behind the  *)
(* packet is what the read buffer still holds.                             *)
(***************************************************************************)
EXTENDS RemainingLength, SequencesExt

Byte == 2 * Radix  \* 256

\* An MQTTString: cstring is NULL or a string, lenstring.data likewise, with its len.
NULL == <<>>
Some(s) == <<s>>
CString(s) == [cstring |-> Some(s), data |-> NULL]
LenString(s) == [cstring |-> NULL, data |-> Some(s)]
NoString == [cstring |-> NULL, data |-> NULL]
LenOf(str) == IF str.data = NULL THEN 0 ELSE Len(str.data[1])
IsSet(str) == str.cstring # NULL \/ str.data # NULL

TooShort == -2  \* MQTTPACKET_BUFFER_TOO_SHORT

-----------------------------------------------------------------------------
(* MQTTPacket.c                                                            *)

writeInt(n) == <<(n \div Byte) % Byte, n % Byte>>
readInt(buf, i) == Byte * buf[i] + buf[i + 1]
writeCString(s) == writeInt(Len(s)) \o s

writeMQTTString(str) ==
  IF LenOf(str) > 0 THEN writeInt(LenOf(str)) \o str.data[1]
  ELSE IF str.cstring # NULL THEN writeCString(str.cstring[1])
  ELSE writeInt(0)

MQTTstrlen(str) == IF str.cstring # NULL THEN Len(str.cstring[1]) ELSE LenOf(str)

\* A mutation: the two bytes of the string's own length are taken for part of it.
ReadStringFromLength(buf, cur, end) ==
  IF end - cur <= 1 \/ cur + readInt(buf, cur) > end
  THEN [ok |-> FALSE, string |-> <<>>, cur |-> cur]
  ELSE [ok |-> TRUE, string |-> SubSeq(buf, cur, cur + readInt(buf, cur) - 1),
        cur |-> cur + readInt(buf, cur)]

\* cur is the index of the next byte, end the one behind the packet.
readMQTTLenString(buf, cur, end) ==
  IF end - cur <= 1 THEN [ok |-> FALSE, string |-> <<>>, cur |-> cur]
  ELSE LET n == readInt(buf, cur) IN
       IF cur + 2 + n > end THEN [ok |-> FALSE, string |-> <<>>, cur |-> cur + 2]
       ELSE [ok |-> TRUE, string |-> SubSeq(buf, cur + 2, cur + 1 + n), cur |-> cur + 2 + n]

\* MQTTPacket_decodeBuf behind the header byte: where the packet's contents begin and
\* end.
Begin(buf) == 2 + MQTTPacket_decode(Tail(buf)).len
EndData(buf) == Begin(buf) + MQTTPacket_decode(Tail(buf)).value

-----------------------------------------------------------------------------
(* Serialising: the check of the buffer, the announced length, the fields. *)

Header(type, dup, qos, retain) == [type |-> type, dup |-> dup, qos |-> qos, retain |-> retain]

\* What every serialiser does with the length it computed and the fields it writes.
Packet(header, rem_len, fields, buflen) ==
  IF MQTTPacket_len(rem_len) > buflen THEN [rc |-> TooShort, buf |-> <<>>]
  ELSE LET b == <<header>> \o MQTTPacket_encode[rem_len] \o fields
       IN [rc |-> Len(b), buf |-> b]

\* The two serialisers that compare the buffer with a fixed size.
Fixed(header, rem_len, fields, size, buflen) ==
  IF buflen < size THEN [rc |-> TooShort, buf |-> <<>>]
  ELSE LET b == <<header>> \o MQTTPacket_encode[rem_len] \o fields
       IN [rc |-> Len(b), buf |-> b]

MQTTSerialize_zero(type, buflen) == Fixed(Header(type, 0, 0, 0), 0, <<>>, 2, buflen)

MQTTSerialize_ack(type, dup, packetid, buflen) ==
  Fixed(Header(type, dup, IF type = "PUBREL" THEN 1 ELSE 0, 0), 2, writeInt(packetid),
        4, buflen)

MQTTSerialize_publishLength(qos, topic, payload) ==
  2 + MQTTstrlen(topic) + Len(payload) + (IF qos > 0 THEN 2 ELSE 0)

\* A mutation: the packet id is written whatever the QoS.
PublishWithId(p, buflen) ==
  Packet(Header("PUBLISH", p.dup, p.qos, p.retained),
         MQTTSerialize_publishLength(p.qos, p.topic, p.payload),
         writeMQTTString(p.topic) \o writeInt(p.packetid) \o p.payload, buflen)

MQTTSerialize_publish(p, buflen) ==
  Packet(Header("PUBLISH", p.dup, p.qos, p.retained),
         MQTTSerialize_publishLength(p.qos, p.topic, p.payload),
         writeMQTTString(p.topic)
           \o (IF p.qos > 0 THEN writeInt(p.packetid) ELSE <<>>) \o p.payload, buflen)

\* The bytes of a list of topics, each with what follows it.
Topics(topics, suffix) ==
  FlattenSeq([i \in DOMAIN topics |-> writeMQTTString(topics[i]) \o suffix])

MQTTSerialize_subscribeLength(topics) ==
  LET len[i \in 0..Len(topics)] ==
        IF i = 0 THEN 2 ELSE len[i - 1] + (2 + MQTTstrlen(topics[i]) + 1)
  IN len[Len(topics)]

MQTTSerialize_subscribe(dup, packetid, topics, qos, buflen) ==
  Packet(Header("SUBSCRIBE", dup, 1, 0), MQTTSerialize_subscribeLength(topics),
         writeInt(packetid) \o Topics(topics, <<qos>>), buflen)

MQTTSerialize_unsubscribeLength(topics) ==
  LET len[i \in 0..Len(topics)] ==
        IF i = 0 THEN 2 ELSE len[i - 1] + (2 + MQTTstrlen(topics[i]))
  IN len[Len(topics)]

MQTTSerialize_unsubscribe(dup, packetid, topics, buflen) ==
  Packet(Header("UNSUBSCRIBE", dup, 1, 0), MQTTSerialize_unsubscribeLength(topics),
         writeInt(packetid) \o Topics(topics, <<>>), buflen)

-----------------------------------------------------------------------------
(* CONNECT                                                                 *)

MQTTSerialize_connectLength(o) ==
  (IF o.MQTTVersion = 3 THEN 12 ELSE IF o.MQTTVersion = 4 THEN 10 ELSE 0)
  + MQTTstrlen(o.clientID) + 2
  + (IF o.willFlag THEN MQTTstrlen(o.topicName) + 2 + MQTTstrlen(o.message) + 2 ELSE 0)
  + (IF IsSet(o.username) THEN MQTTstrlen(o.username) + 2 ELSE 0)
  + (IF IsSet(o.password) THEN MQTTstrlen(o.password) + 2 ELSE 0)

MQTTConnectFlags(o) ==
  [cleansession |-> o.cleansession, will |-> o.willFlag,
   willQoS |-> IF o.willFlag THEN o.willQoS ELSE 0,
   willRetain |-> IF o.willFlag THEN o.willRetained ELSE 0,
   username |-> IsSet(o.username), password |-> IsSet(o.password)]

Protocol(version) ==
  IF version = 4 THEN writeCString(<<77, 81, 84, 84>>) \o <<4>>
  ELSE writeCString(<<77, 81, 73, 115, 100, 112>>) \o <<3>>

MQTTSerialize_connect(o, buflen) ==
  Packet(Header("CONNECT", 0, 0, 0), MQTTSerialize_connectLength(o),
         Protocol(o.MQTTVersion) \o <<MQTTConnectFlags(o)>> \o writeInt(o.keepAliveInterval)
           \o writeMQTTString(o.clientID)
           \o (IF o.willFlag THEN writeMQTTString(o.topicName) \o writeMQTTString(o.message)
               ELSE <<>>)
           \o (IF IsSet(o.username) THEN writeMQTTString(o.username) ELSE <<>>)
           \o (IF IsSet(o.password) THEN writeMQTTString(o.password) ELSE <<>>), buflen)

-----------------------------------------------------------------------------
(* Parsing.  rc is 0 for another packet; a packet that is too short leaves *)
(* in rc the number of bytes of its length field.                          *)

Short(buf) == MQTTPacket_decode(Tail(buf)).len

\* Fields of a failed parse are not assigned.
Unparsed(rc) == [rc |-> rc, parsed |-> FALSE]

MQTTDeserialize_publish(buf) ==
  LET h == buf[1]
      topic == readMQTTLenString(buf, Begin(buf), EndData(buf))
      payload == IF h.qos > 0 THEN topic.cur + 2 ELSE topic.cur
  IN IF h.type # "PUBLISH" THEN Unparsed(0)
     ELSE IF ~topic.ok THEN Unparsed(Short(buf))
     ELSE [rc |-> 1, parsed |-> TRUE, dup |-> h.dup, qos |-> h.qos, retained |-> h.retain,
           packetid |-> IF h.qos > 0 THEN readInt(buf, topic.cur) ELSE 0,
           topic |-> topic.string, payloadlen |-> EndData(buf) - payload,
           payload |-> SubSeq(buf, payload, EndData(buf) - 1)]

MQTTDeserialize_ack(buf) ==
  IF EndData(buf) - Begin(buf) < 2 THEN Unparsed(Short(buf))
  ELSE [rc |-> 1, parsed |-> TRUE, packettype |-> buf[1].type, dup |-> buf[1].dup,
        packetid |-> readInt(buf, Begin(buf))]

MQTTDeserialize_unsuback(buf) ==
  LET ack == MQTTDeserialize_ack(buf) IN
  IF buf[1].type = "UNSUBACK" THEN [ack EXCEPT !.rc = 1] ELSE ack

\* A mutation: the length of the packet is not looked at.
SubackUnchecked(buf, maxcount) ==
  LET codes == SubSeq(buf, Begin(buf) + 2, EndData(buf) - 1) IN
  IF buf[1].type # "SUBACK" THEN Unparsed(0)
  ELSE IF Len(codes) > maxcount + 1 THEN Unparsed(-1)
  ELSE [rc |-> 1, parsed |-> TRUE, packetid |-> readInt(buf, Begin(buf)), codes |-> codes]

\* Codes are stored until there are more than maxcount of them.
MQTTDeserialize_suback(buf, maxcount) ==
  LET codes == SubSeq(buf, Begin(buf) + 2, EndData(buf) - 1) IN
  IF buf[1].type # "SUBACK" THEN Unparsed(0)
  ELSE IF EndData(buf) - Begin(buf) < 2 THEN Unparsed(Short(buf))
  ELSE IF Len(codes) > maxcount + 1 THEN Unparsed(-1)
  ELSE [rc |-> 1, parsed |-> TRUE, packetid |-> readInt(buf, Begin(buf)), codes |-> codes]

MQTTDeserialize_connack(buf) ==
  IF buf[1].type # "CONNACK" THEN Unparsed(0)
  ELSE IF EndData(buf) - Begin(buf) < 2 THEN Unparsed(Short(buf))
  ELSE [rc |-> 1, parsed |-> TRUE, connack_rc |-> buf[Begin(buf) + 1]]
=============================================================================
