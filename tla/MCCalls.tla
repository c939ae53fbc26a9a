------------------------------- MODULE MCCalls -------------------------------
(* Inputs around the edges of every length, wrap and separator.              *)
EXTENDS Calls

Run(n) == [i \in 1..n |-> i % 3]
Buflens(rem_len) == {Needs(rem_len) + d : d \in -1..2}

Publications ==
  [topic : {CString(Run(n)) : n \in 0..2} \cup {LenString(Run(n)) : n \in {0, 3}},
   payload : {Run(n) : n \in 0..27}, qos : 0..2, dup : {0}, retained : {0, 1},
   packetid : {1, 35}]
PublishInput ==
  UNION {[fn : {"publish"}, p : {p},
          buflen : Buflens(MQTTSerialize_publishLength(p.qos, p.topic, p.payload))]
         : p \in Publications}

TopicLists == {<<CString(Run(m))>> : m \in 0..24}
              \cup {<<CString(Run(m)), CString(Run(n))>> : m, n \in {0, 1, 9}}
SubscribeInput ==
  [fn : {"subscribe", "unsubscribe"}, packetid : {1, 35}, topics : TopicLists,
   qos : {0, 1}, buflen : 5..40]

Strings == {NoString, CString(<<>>), CString(Run(2)), LenString(Run(3))}
Options ==
  [MQTTVersion : {3, 4}, clientID : {CString(Run(n)) : n \in {0, 8, 9, 10, 11}},
   willFlag : BOOLEAN, topicName : {CString(Run(1))}, message : {CString(Run(2))},
   willQoS : {1}, willRetained : {1}, username : Strings, password : Strings,
   keepAliveInterval : {15}, cleansession : {1}]
ConnectInput == [fn : {"connect"}, options : Options, buflen : {25, 28, 29, 30, 31, 60}]

AckInput == [fn : {"ack"}, type : {"PUBACK", "PUBREL", "PUBCOMP"}, packetid : {0, 7, 35},
             buflen : 3..5]
ZeroInput == [fn : {"zero"}, type : {"PINGREQ", "DISCONNECT"}, buflen : 1..3]

SomeStale == <<1, 1, 0, 2, 1, 0>>
FieldInput == [fn : Parsers, qos : {0, 1}, fields : UNION {[1..n -> 0..1] : n \in 0..6}]

Chars == {"/", "a", "b"}
MatchInput ==
  [fn : {"match"}, filter : UNION {[1..n -> Chars \cup {"+", "#"}] : n \in 1..4},
   name : UNION {[1..n -> Chars \ {"b"}] : n \in 1..4}]
Callbacks == {"error", "info", "present", "absent", "message"}
DispatchInput ==
  [fn : {"dispatch"}, callbacks : {Callbacks, Callbacks \ {"present"}, {"absent"}},
   topic : {<<"@", "E">>, <<"@", "I">>, <<"@">>, <<"&">>, <<"/", "a">>}
           \cup {<<"/", "a", "/">> \o s : s \in UNION {[1..n -> {"&", "P", "A", "/"}] : n \in 0..3}}]

TimerInput ==
  [fn : {"timer"}, start : {0, 1, 127, 128, 200, 255}, timeout : {0, 9, 10, 1000, 1270},
   elapsed : 0..255]
ClockInput == {c \in [fn : {"clock"}, ts : {0, 7, 19}, set : 0..25, now : 0..60] : c.set <= c.now}

\* Answers, cut at two places or fewer.
Answers ==
  {status \o length \o <<CR, LF>> \o body :
    status \in {<<STATUS, 200, CR, LF>>, <<STATUS, CR, LF>>, <<7, CR, CR, LF>>},
    length \in {<<>>, <<LENGTH, 1, CR, LF>>, <<LENGTH, 3, CR, LF>>,
                <<LENGTH, CR, LF, LENGTH, 1, CR, LF, LENGTH, 0, CR, LF>>},
    body \in {<<>>, <<7>>, <<7, CR, LENGTH, 8>>, <<LENGTH, 7, CR, LF, 8>>}}
CutInto(text) ==
  {<<SubSeq(text, 1, i), SubSeq(text, i + 1, j), SubSeq(text, j + 1, Len(text))>>
    : i, j \in 0..Len(text)}
HttpInput ==
  [fn : {"http"}, chunks : UNION {{c \in CutInto(text) : FlattenSeq(c) = text} : text \in Answers}]

EveryInput ==
  PublishInput \cup SubscribeInput \cup ConnectInput \cup AckInput \cup ZeroInput
  \cup FieldInput \cup MatchInput \cup DispatchInput \cup TimerInput \cup ClockInput
  \cup HttpInput
=============================================================================
