-------------------------- MODULE MqttSessionProofs --------------------------
(***************************************************************************)
(* Theorems about MqttSession.tla, for every length of the timeouts, of    *)
(* the tables and of the channels, every number of topics and every bound: *)
(* the types; keepalive gives a connection up only after a ping has stayed *)
(* unanswered for MAX_FAIL_ALLOWED intervals; each message reaches one     *)
(* handler, in order; application and broker agree on the subscriptions.   *)
(***************************************************************************)
EXTENDS MqttSession, SequenceTheorems, FiniteSetTheorems, TLAPS

USE TimeAssumption, TableAssumption, SessionBoundAssumption
    DEF opVars, pingVars, clientVars, idVars, brokerVars, ackVars, netVars

-----------------------------------------------------------------------------
(* Sequences.                                                                *)

LEMMA AppendSeq ==
  ASSUME NEW S, NEW s \in Seq(S), NEW e \in S
  PROVE  /\ Append(s, e) \in Seq(S) /\ Len(Append(s, e)) = Len(s) + 1
         /\ Len(s) \in Nat
         /\ \A i \in 1..Len(s) : Append(s, e)[i] = s[i]
         /\ Append(s, e)[Len(s) + 1] = e
OBVIOUS

LEMMA TailSeq ==
  ASSUME NEW S, NEW s \in Seq(S), s # <<>>
  PROVE  /\ Head(s) \in S /\ Tail(s) \in Seq(S)
         /\ Len(s) \in Nat \ {0} /\ Len(Tail(s)) = Len(s) - 1
         /\ Head(s) = s[1] /\ 1 \in 1..Len(s)
         /\ \A i \in 1..Len(Tail(s)) : i + 1 \in 1..Len(s) /\ Tail(s)[i] = s[i + 1]
<1>1. Len(s) \in Nat \ {0}
  BY EmptySeq
<1>2. QED
  BY <1>1, HeadTailProperties

-----------------------------------------------------------------------------
(* Packets.  A command on its way to the broker names a topic.               *)

Commands == {"SUBSCRIBE", "UNSUBSCRIBE"}
ToBroker == {p \in Packets : p.type \in Commands => p.topic \in Topic}

LEMMA SignalTypes ==
  /\ NoRequest \in Packets
  /\ \A type \in {"CONNECT", "PINGREQ"} : Signal(type) \in ToBroker
  /\ \A type \in {"CONNACK", "REFUSED", "PINGRESP", "NONE"} :
       Signal(type) \in Packets /\ Signal(type).type = type
BY DEF Packets, NoRequest, Signal, Packet, ToBroker, Commands

LEMMA PacketTypes ==
  ASSUME NEW type \in {"PUBLISH", "SUBSCRIBE", "UNSUBSCRIBE"}, NEW id \in 0..MaxPacketId,
         NEW topic \in Topic, NEW n \in 0..(MaxCommand + MaxPublish)
  PROVE  /\ Packet(type, id, topic, n) \in ToBroker
         /\ Packet(type, id, topic, n) \in Packets
         /\ Packet(type, id, topic, n).topic = topic
         /\ Packet(type, id, topic, n).id = id
BY DEF Packets, Packet, ToBroker, Commands

LEMMA AnswerTypes ==
  ASSUME NEW p \in Packets, NEW type \in {"SUBACK", "SUBFAIL", "UNSUBACK"}
  PROVE  [p EXCEPT !.type = type] \in Packets
BY DEF Packets

(* What the types leave out and the steps rely on.                           *)
Counts ==
  /\ published \in 0..MaxPublish /\ commands \in 0..MaxCommand /\ silence \in Nat
  /\ toBroker \in Seq(ToBroker)
  /\ op \in {"suback", "unsuback"} => request.topic \in Topic

Typed == TypeOK /\ Counts

LEMMA SendTypes ==
  ASSUME toBroker \in Seq(ToBroker), NEW p \in ToBroker, Send(p)
  PROVE  toBroker' \in Seq(ToBroker)
BY AppendSeq DEF Send

LEMMA ToBrokerTypes ==
  ASSUME NEW s \in Seq(ToBroker)
  PROVE  s \in Seq(Packets)
<1>1. ToBroker \subseteq Packets
  BY DEF ToBroker
<1>2. QED
  BY <1>1

LEMMA InitTyped == Init => Typed
<1> SUFFICES ASSUME Init PROVE Typed
  OBVIOUS
<1>1. <<>> \in Seq(Packets) /\ <<>> \in Seq(ToBroker) /\ <<>> \in Seq(Topic) /\ Len(<<>>) = 0
  BY EmptySeq
<1>2. NoRequest \in Packets
  BY SignalTypes
<1>3. TypeOK
  <2>1. answered \in Packets \X Packets /\ request \in Packets
    BY <1>2, Zenon DEF Init
  <2>2. ping_outstanding \in BOOLEAN /\ isconnected \in BOOLEAN /\ timedout \in BOOLEAN
    BY Zenon DEF Init
  <2>3. /\ handlers \in Seq(Topic) /\ Len(handlers) <= MaxHandlers
        /\ toBroker \in Seq(Packets) /\ toClient \in Seq(Packets)
    BY <1>1 DEF Init
  <2>4. QED
    BY <2>1, <2>2, <2>3 DEF Init, TypeOK, Op
<1>4. Counts
  BY <1>1 DEF Init, Counts
<1>5. QED
  BY <1>3, <1>4 DEF Typed

-----------------------------------------------------------------------------
(* Type correctness, by action.                                              *)

LEMMA EnvironmentTyped ==
  ASSUME Typed, Environment
  PROVE  Typed'
<1>1. CASE LinkFallsSilent \/ LinkBreaks
  <2>1. <<>> \in Seq(Packets) /\ <<>> \in Seq(ToBroker)
    BY EmptySeq
  <2>2. /\ link' \in {"silent", "broken"} /\ toBroker' = <<>> /\ toClient' \in {toClient, <<>>}
        /\ UNCHANGED <<opVars, pingVars, clientVars, idVars, brokerVars, ackVars>>
    BY <1>1 DEF LinkFallsSilent, LinkBreaks
  <2>3. QED
    BY <2>1, <2>2 DEF Typed, TypeOK, Counts
<1>2. CASE BrokerHandles
  <2> DEFINE p == Head(toBroker)
  <2>1. p \in ToBroker /\ p \in Packets /\ Tail(toBroker) \in Seq(ToBroker)
    BY <1>2, TailSeq DEF BrokerHandles, Typed, Counts, ToBroker
  <2>2. toBroker' \in Seq(ToBroker) /\ toBroker' \in Seq(Packets)
    BY <1>2, <2>1, ToBrokerTypes DEF BrokerHandles
  <2>3. toClient' \in Seq(Packets)
    <3>1. ASSUME NEW a \in Packets, Reply(a) PROVE toClient' \in Seq(Packets)
      BY <3>1, AppendSeq DEF Reply, Typed, TypeOK
    <3>2. QED
      BY <1>2, <2>1, <3>1, SignalTypes, AnswerTypes DEF BrokerHandles, Typed, TypeOK
  <2>4. subs' \subseteq Topic
    BY <1>2, <2>1 DEF BrokerHandles, ToBroker, Commands, Typed, TypeOK
  <2>5. UNCHANGED <<link, published, opVars, pingVars, clientVars, idVars, ackVars>>
    BY <1>2 DEF BrokerHandles
  <2>6. QED
    BY <2>2, <2>3, <2>4, <2>5 DEF Typed, TypeOK, Counts
<1>3. CASE BrokerPublishes
  <2>1. PICK topic \in subs : Reply(Packet("PUBLISH", 0, topic, published + 1))
    BY <1>3 DEF BrokerPublishes
  <2>2. topic \in Topic /\ published + 1 \in 0..MaxPublish
    BY <1>3 DEF BrokerPublishes, Typed, TypeOK, Counts
  <2>3. Packet("PUBLISH", 0, topic, published + 1) \in Packets
    BY <2>2, PacketTypes
  <2>4. toClient' \in Seq(Packets)
    BY <2>1, <2>3, AppendSeq DEF Reply, Typed, TypeOK
  <2>5. /\ published' = published + 1
        /\ UNCHANGED <<link, toBroker, subs, opVars, pingVars, clientVars, idVars, ackVars>>
    BY <1>3 DEF BrokerPublishes
  <2>6. QED
    BY <2>2, <2>4, <2>5 DEF Typed, TypeOK, Counts
<1>4. QED
  BY <1>1, <1>2, <1>3 DEF Environment

LEMMA TickTyped ==
  ASSUME Typed, Tick
  PROVE  Typed'
BY DEF Typed, TypeOK, Counts, Tick, Down

LEMMA ConnectTyped ==
  ASSUME Typed, Connect
  PROVE  Typed'
<1>1. NoRequest \in Packets /\ Signal("CONNECT") \in ToBroker
  BY SignalTypes
<1>2. <<>> \in Seq(Packets) /\ <<>> \in Seq(Topic) /\ Len(<<>>) = 0
  BY EmptySeq
<1>3. <<Signal("CONNECT")>> \in Seq(ToBroker)
  BY <1>1
<1>4. <<Signal("CONNECT")>> \in Seq(Packets)
  BY <1>3, ToBrokerTypes
<1>5. answered' \in Packets \X Packets /\ request' \in Packets
  BY <1>1, Zenon DEF Connect
<1>6. ping_outstanding' \in BOOLEAN /\ isconnected' \in BOOLEAN /\ timedout' \in BOOLEAN
  BY Zenon DEF Connect
<1>7. /\ handlers' \in Seq(Topic) /\ Len(handlers') <= MaxHandlers /\ toClient' \in Seq(Packets)
      /\ toBroker' \in Seq(Packets) /\ toBroker' \in Seq(ToBroker)
  <2>1. <<>> \in Seq(ToBroker)
    BY EmptySeq
  <2>2. toBroker' = <<Signal("CONNECT")>> \/ toBroker' = <<>>
    BY DEF Connect
  <2>3. toBroker' \in Seq(Packets) /\ toBroker' \in Seq(ToBroker)
    BY <1>2, <1>3, <1>4, <2>1, <2>2
  <2>4. QED
    BY <1>2, <2>3 DEF Connect
<1>8. op' \in {"connack", "offline"}
  BY DEF Connect
<1>9. QED
  BY <1>5, <1>6, <1>7, <1>8 DEF Connect, Typed, TypeOK, Counts, Op

LEMMA WaitTyped ==
  ASSUME Typed, ConnectFails \/ Yield \/ YieldEnds \/ CommandTimesOut
  PROVE  Typed'
<1>1. /\ op' \in {"offline", "yield", "read"} /\ timer' \in Int /\ request' \in Packets
  BY SignalTypes DEF ConnectFails, Yield, YieldEnds, CommandTimesOut, StartYield, Typed, TypeOK
<1>2. timedout' \in BOOLEAN
  <2>1. timedout' = timedout \/ timedout' = TRUE
    BY Zenon DEF ConnectFails, Yield, YieldEnds, CommandTimesOut
  <2>2. QED
    BY <2>1, Zenon DEF Typed, TypeOK
<1>3. UNCHANGED <<pingVars, clientVars, idVars, brokerVars, netVars, believed, answered>>
  BY DEF ConnectFails, Yield, YieldEnds, CommandTimesOut
<1>4. QED
  BY <1>1, <1>2, <1>3 DEF Typed, TypeOK, Counts, Op

LEMMA PublishTyped ==
  ASSUME Typed, NEW topic \in Topic, Publish(topic)
  PROVE  Typed'
<1> DEFINE p == Packet("PUBLISH", 0, topic, 0)
<1>1. p \in ToBroker
  BY PacketTypes
<1>2. toBroker' \in Seq(ToBroker)
  BY <1>1, SendTypes DEF Publish, Typed, Counts
<1>3. toBroker' \in Seq(Packets)
  BY <1>2, ToBrokerTypes
<1>4. ping_timer' \in -1..KeepAlive
  BY DEF Publish, Typed, TypeOK
<1>5. /\ op' \in Op /\ timer' \in Int /\ request' \in Packets
      /\ op' \in {"suback", "unsuback"} =>
           request'.topic \in Topic /\ request'.id \in 1..MaxPacketId
  BY SignalTypes DEF Publish, StartYield, Op, Typed, TypeOK, Counts
<1>6. /\ topicbuf' = topic
      /\ UNCHANGED <<link, toClient, ping_outstanding, fail_count, silence, clientVars,
                     next_packetid, commands, brokerVars, ackVars>>
  BY DEF Publish
<1>7. QED
  BY <1>2, <1>3, <1>4, <1>5, <1>6 DEF Typed, TypeOK, Counts

LEMMA CommandTyped ==
  ASSUME Typed, NEW topic \in Topic, NEW type \in Commands, NEW wait \in {"suback", "unsuback"},
         Command(type, wait, topic)
  PROVE  Typed'
<1> DEFINE p == Packet(type, getNextPacketId, topic, commands + 1)
<1>1. /\ getNextPacketId \in 0..MaxPacketId /\ getNextPacketId \in 1..MaxPacketId
      /\ commands + 1 \in 0..MaxCommand /\ commands + 1 \in 0..(MaxCommand + MaxPublish)
  BY DEF getNextPacketId, Command, Typed, TypeOK, Counts
<1>2. /\ p \in ToBroker /\ p \in Packets
      /\ p.topic = topic /\ p.id = getNextPacketId
  BY <1>1, PacketTypes DEF Commands
<1>3. toBroker' \in Seq(ToBroker)
  BY <1>2, SendTypes DEF Command, Typed, Counts
<1>4. toBroker' \in Seq(Packets)
  BY <1>3, ToBrokerTypes
<1>5. ping_timer' \in -1..KeepAlive
  BY DEF Command, Typed, TypeOK
<1>6. /\ op' \in Op /\ timer' \in Int /\ request' \in Packets
      /\ op' \in {"suback", "unsuback"} =>
           request'.topic \in Topic /\ request'.id \in 1..MaxPacketId
  <2>1. CASE op' = wait /\ timer' = CommandTimeout /\ request' = p
    BY <1>1, <1>2, <2>1 DEF Op
  <2>2. CASE StartYield
    BY <2>2, SignalTypes DEF StartYield, Op
  <2>3. QED
    BY <2>1, <2>2 DEF Command
<1>7. /\ topicbuf' = topic /\ next_packetid' = getNextPacketId /\ commands' = commands + 1
      /\ UNCHANGED <<link, toClient, ping_outstanding, fail_count, silence, clientVars,
                     brokerVars, believed, answered>>
  BY DEF Command
<1>8. timedout' \in BOOLEAN
  <2>1. timedout' = timedout \/ timedout' = TRUE
    BY Zenon DEF Command
  <2>2. QED
    BY <2>1, Zenon DEF Typed, TypeOK
<1>9. QED
  BY <1>1, <1>3, <1>4, <1>5, <1>6, <1>7, <1>8 DEF Typed, TypeOK, Counts

(* What keepalive does to the timer, the ping and the count of failures.     *)
LEMMA KeepAliveTypes ==
  ASSUME Typed, NEW p \in Packets,
         (GivesUp(p) /\ GiveUpStep(p)) \/ (~GivesUp(p) /\ KeepAliveStep(p))
  PROVE  /\ ping_timer' \in -1..KeepAlive /\ ping_outstanding' \in BOOLEAN
         /\ fail_count' \in 0..MaxFailAllowed /\ silence' \in Nat
         /\ toBroker' \in Seq(ToBroker) /\ toBroker' \in Seq(Packets)
<1> USE DEF Typed, TypeOK, Counts
<1>1. Fails(p) \in 0..MaxFailAllowed /\ PingOutstanding(p) \in BOOLEAN
  <2>1. Fails(p) \in 0..MaxFailAllowed
    BY DEF Fails
  <2>2. PingOutstanding(p) \in BOOLEAN
    BY Zenon DEF PingOutstanding
  <2>3. QED
    BY <2>1, <2>2
<1>2. /\ ping_timer' \in -1..KeepAlive
      /\ fail_count' \in 0..MaxFailAllowed /\ silence' \in Nat
  BY <1>1 DEF GiveUpStep, KeepAliveStep, GivesUp
<1>3. ping_outstanding' \in BOOLEAN
  BY <1>1, Zenon DEF GiveUpStep, KeepAliveStep
<1>4. toBroker' \in Seq(ToBroker)
  BY SignalTypes, SendTypes DEF GiveUpStep, KeepAliveStep
<1>5. QED
  BY <1>2, <1>3, <1>4, ToBrokerTypes

LEMMA UseTypes ==
  ASSUME Typed, NEW p \in Packets, NEW r, Use(r, p)
  PROVE  /\ op' \in Op /\ timer' \in Int /\ request' \in Packets
         /\ op' \in {"suback", "unsuback"} =>
              request'.topic \in Topic /\ request'.id \in 1..MaxPacketId
         /\ isconnected' \in BOOLEAN /\ timedout' \in BOOLEAN
         /\ handlers' \in Seq(Topic) /\ Len(handlers') <= MaxHandlers
         /\ believed' \subseteq Topic /\ answered' \in Packets \X Packets
<1> USE SignalTypes DEF Typed, TypeOK, Counts
<1>1. CASE op = "suback" /\ Granted(p)
  <2>1. handlers' \in Seq(Topic) /\ Len(handlers') <= MaxHandlers
    BY <1>1, AppendSeq DEF Granted
  <2>2. QED
    BY <1>1, <2>1 DEF Granted, Op
<1>2. CASE Denied(p)
  BY <1>2 DEF Denied, StartYield, Op
<1>3. CASE ~(op = "suback" /\ Granted(p)) /\ ~Denied(p)
  <2>1. /\ op' = op \/ op' \in {"read", "offline"}
        /\ UNCHANGED <<timer, request, handlers, timedout>>
    BY <1>3 DEF Use
  <2>2. isconnected' = TRUE \/ isconnected' = isconnected
    BY <1>3, Zenon DEF Use
  <2>3. isconnected' \in BOOLEAN
    BY <2>2, Zenon
  <2>4. answered' = <<request, p>> \/ answered' = answered
    BY <1>3, Zenon DEF Use
  <2>5. answered' \in Packets \X Packets
    BY <2>4
  <2>6. believed' \subseteq Topic
    BY <1>3 DEF Use
  <2>7. QED
    BY <2>1, <2>3, <2>5, <2>6 DEF Op
<1>4. QED
  BY <1>1, <1>2, <1>3

LEMMA HandleTyped ==
  ASSUME Typed, NEW p \in Packets, Handle(p), toClient' \in Seq(Packets)
  PROVE  Typed'
<1>1. PICK r : /\ Use(r, p)
               /\ (GivesUp(p) /\ GiveUpStep(p)) \/ (~GivesUp(p) /\ KeepAliveStep(p))
  BY DEF Handle
<1>2. UNCHANGED <<link, idVars, brokerVars>>
  BY DEF Handle
<1>3. QED
  BY <1>1, <1>2, UseTypes, KeepAliveTypes DEF Typed, TypeOK, Counts

(* A cycle handles one packet, or none.                                      *)
LEMMA CycleHandles ==
  ASSUME Typed, Cycle
  PROVE  \E p \in Packets : Handle(p) /\ toClient' \in Seq(Packets)
<1>1. CASE CyclePacket
  BY <1>1, TailSeq DEF CyclePacket, Typed, TypeOK
<1>2. CASE CycleNothing
  BY <1>2, SignalTypes DEF CycleNothing, Typed, TypeOK
<1>3. QED
  BY <1>1, <1>2 DEF Cycle

LEMMA StepTyped == Typed /\ [Next]_vars => Typed'
<1> SUFFICES ASSUME Typed, [Next]_vars PROVE Typed'
  OBVIOUS
<1>1. CASE Cycle
  BY <1>1, CycleHandles, HandleTyped
<1>2. CASE Requests
  BY <1>2, PublishTyped, CommandTyped DEF Requests, Subscribe, Unsubscribe, Commands
<1>3. CASE UNCHANGED vars
  BY <1>3 DEF vars, Typed, TypeOK, Counts
<1>4. QED
  BY <1>1, <1>2, <1>3, TickTyped, ConnectTyped, WaitTyped, EnvironmentTyped DEF Next, ClientStep

(* Every variable keeps its type: the table of handlers never holds more     *)
(* than MAX_MESSAGE_HANDLERS topics, packet ids stay below MAX_PACKET_ID and *)
(* fail_count below MAX_FAIL_ALLOWED (MQTTClient.c).                         *)
THEOREM TypeCorrect == Spec => []TypeOK
<1>1. Typed => TypeOK
  BY DEF Typed
<1>2. QED
  BY <1>1, InitTyped, StepTyped, PTL DEF Spec

-----------------------------------------------------------------------------
(* The keepalive.  Each tick that passes takes one from ping_timer and adds  *)
(* one to silence, and a failure is counted only when ping_timer has gone    *)
(* through a whole interval.                                                 *)

Enough == silence > MaxFailAllowed * KeepAlive

PingInv ==
  /\ ~ping_outstanding => fail_count = 0
  /\ ping_outstanding =>
       Enough \/ silence + ping_timer >= KeepAlive + fail_count * (KeepAlive + 1)

IInv == Typed /\ PingInv

LEMMA Multiples ==
  ASSUME NEW f \in Nat, NEW m \in Nat, NEW k \in Nat
  PROVE  /\ f * k \in Nat /\ (f + 1) * k = f * k + k /\ 0 * k = 0
         /\ f >= m => f * k >= m * k
         /\ m * (k + 1) = m * k + m
<1>1. /\ f * k \in Nat /\ (f + 1) * k = f * k + k /\ 0 * k = 0 /\ m * (k + 1) = m * k + m
  OBVIOUS
<1>2. f >= m => f * k >= m * k
  <2> SUFFICES ASSUME f >= m PROVE f * k >= m * k
    OBVIOUS
  <2>1. f * k = m * k + (f - m) * k
    OBVIOUS
  <2>2. f - m \in Nat
    OBVIOUS
  <2>3. (f - m) * k >= 0 /\ m * k \in Int /\ (f - m) * k \in Int
    BY <2>2
  <2>4. QED
    BY <2>1, <2>3
<1>3. QED
  BY <1>1, <1>2

LEMMA InitPing == Init => PingInv
BY DEF Init, PingInv

LEMMA TickPing ==
  ASSUME IInv, Tick
  PROVE  PingInv'
<1>1. /\ ping_timer \in -1..KeepAlive /\ silence \in Nat /\ fail_count \in Nat
      /\ MaxFailAllowed * KeepAlive \in Nat /\ fail_count * (KeepAlive + 1) \in Nat
  BY Multiples DEF IInv, Typed, TypeOK, Counts
<1>2. /\ ping_timer' = (IF ping_timer < 0 THEN ping_timer ELSE ping_timer - 1)
      /\ ping_outstanding' = ping_outstanding /\ fail_count' = fail_count
  BY DEF Tick, Down
<1>3. CASE ~ping_outstanding
  BY <1>2, <1>3 DEF IInv, PingInv
<1>4. CASE ping_outstanding /\ Enough
  <2>1. silence' >= silence
    BY <1>1 DEF Tick
  <2>2. Enough'
    BY <1>1, <1>4, <2>1 DEF Enough, Tick
  <2>3. QED
    BY <1>2, <1>4, <2>2 DEF PingInv
<1>5. CASE ping_outstanding /\ ~Enough
  <2>1. silence' = silence + 1
    BY <1>1, <1>5 DEF Tick, Enough
  <2>2. silence + ping_timer >= KeepAlive + fail_count * (KeepAlive + 1)
    BY <1>5 DEF IInv, PingInv
  <2>3. silence' + ping_timer' >= KeepAlive + fail_count' * (KeepAlive + 1)
    BY <1>1, <1>2, <2>1, <2>2
  <2>4. QED
    BY <1>2, <1>5, <2>3 DEF PingInv
<1>6. QED
  BY <1>3, <1>4, <1>5

LEMMA Later ==
  ASSUME NEW a \in Int, NEW b \in Int, NEW c \in Int, NEW d \in Int, a + b >= d, c >= b
  PROVE  a + c >= d
OBVIOUS

(* A send that TCP takes re-arms ping_timer, which only puts the end off.    *)
LEMMA SendPing ==
  ASSUME IInv, ping_timer' \in {ping_timer, KeepAlive},
         UNCHANGED <<ping_outstanding, fail_count, silence>>
  PROVE  PingInv'
<1>1. /\ ping_timer \in -1..KeepAlive /\ silence \in Nat /\ fail_count \in Nat
      /\ fail_count * (KeepAlive + 1) \in Nat
  BY Multiples DEF IInv, Typed, TypeOK, Counts
<1>2. ping_timer' >= ping_timer /\ ping_timer' \in Int
  <2>1. CASE ping_timer' = ping_timer
    BY <1>1, <2>1
  <2>2. CASE ping_timer' = KeepAlive
    BY <1>1, <2>2
  <2>3. QED
    BY <2>1, <2>2
<1>3. Enough => Enough'
  BY DEF Enough
<1>4. CASE ~ping_outstanding \/ Enough
  BY <1>3, <1>4, Zenon DEF IInv, PingInv
<1>5. CASE ping_outstanding /\ ~Enough
  <2>1. silence + ping_timer >= KeepAlive + fail_count * (KeepAlive + 1)
    BY <1>5 DEF IInv, PingInv
  <2>2. silence' + ping_timer' >= KeepAlive + fail_count' * (KeepAlive + 1)
    <3>1. silence' = silence /\ fail_count' = fail_count
      OBVIOUS
    <3>2. silence + ping_timer' >= KeepAlive + fail_count * (KeepAlive + 1)
      <4>1. silence \in Int /\ ping_timer \in Int /\ KeepAlive + fail_count * (KeepAlive + 1) \in Int
        BY <1>1
      <4>2. QED
        BY <1>2, <2>1, <4>1, Later
    <3>3. QED
      BY <3>1, <3>2, Zenon
  <2>3. ping_outstanding'
    BY <1>5
  <2>4. QED
    BY <2>2, <2>3 DEF PingInv
<1>6. QED
  BY <1>4, <1>5

(* Where keepalive gives up, the ping stayed unanswered for long enough.     *)
LEMMA GiveUpLate ==
  ASSUME IInv, NEW p \in Packets, GivesUp(p)
  PROVE  Enough /\ ping_outstanding
<1>1. ping_outstanding /\ Fails(p) = fail_count
  BY DEF GivesUp, PingOutstanding, Fails
<1>2. /\ ping_timer = -1 /\ silence \in Nat /\ fail_count \in Nat
      /\ fail_count + 1 >= MaxFailAllowed
  BY <1>1 DEF GivesUp, Due, Expired, IInv, Typed, TypeOK, Counts
<1>3. CASE silence + ping_timer >= KeepAlive + fail_count * (KeepAlive + 1)
  <2>1. (fail_count + 1) * (KeepAlive + 1) = fail_count * (KeepAlive + 1) + (KeepAlive + 1)
    BY <1>2, Multiples
  <2>2. (fail_count + 1) * (KeepAlive + 1) >= MaxFailAllowed * (KeepAlive + 1)
    BY <1>2, Multiples
  <2>3. MaxFailAllowed * (KeepAlive + 1) = MaxFailAllowed * KeepAlive + MaxFailAllowed
    BY Multiples
  <2>4. fail_count * (KeepAlive + 1) \in Nat /\ MaxFailAllowed * KeepAlive \in Nat
    BY <1>2, Multiples
  <2>5. silence >= MaxFailAllowed * KeepAlive + MaxFailAllowed
    BY <1>2, <1>3, <2>1, <2>2, <2>3, <2>4
  <2>6. QED
    BY <1>1, <1>2, <2>4, <2>5 DEF Enough
<1>4. QED
  BY <1>1, <1>3 DEF IInv, PingInv

LEMMA KeepAlivePing ==
  ASSUME IInv, NEW p \in Packets, ~GivesUp(p), KeepAliveStep(p)
  PROVE  PingInv'
<1>1. /\ ping_timer \in -1..KeepAlive /\ silence \in Nat /\ fail_count \in Nat
      /\ fail_count * (KeepAlive + 1) \in Nat
      /\ (fail_count + 1) * (KeepAlive + 1) = fail_count * (KeepAlive + 1) + (KeepAlive + 1)
      /\ 0 * (KeepAlive + 1) = 0
  BY Multiples DEF IInv, Typed, TypeOK, Counts
<1>2. CASE ~PingOutstanding(p)
  <2>1. Fails(p) = 0
    BY <1>2 DEF PingOutstanding, Fails, IInv, PingInv
  <2>2. fail_count' = 0 /\ silence' = 0
    BY <1>2, <2>1 DEF KeepAliveStep
  <2>3. ping_outstanding' => ping_timer' = KeepAlive
    BY <1>2, Zenon DEF KeepAliveStep
  <2>4. QED
    BY <1>1, <2>2, <2>3 DEF PingInv
<1>3. CASE PingOutstanding(p)
  <2>1. ping_outstanding /\ Fails(p) = fail_count
    BY <1>3 DEF PingOutstanding, Fails
  <2>2. silence' = silence /\ ping_outstanding' /\ Enough' = Enough
    <3>1. silence' = silence
      BY <1>3, Zenon DEF KeepAliveStep
    <3>2. ping_outstanding'
      BY <1>3, Zenon DEF KeepAliveStep
    <3>3. QED
      BY <3>1, <3>2 DEF Enough
  <2>3. CASE Due
    <3>1. ping_timer' = KeepAlive /\ ping_timer = -1
      BY <1>1, <2>3 DEF KeepAliveStep, Due, Expired
    <3>2. fail_count' = fail_count + 1
      BY <1>3, <2>1, <2>3 DEF KeepAliveStep
    <3>3. QED
      BY <1>1, <2>1, <2>2, <3>1, <3>2 DEF IInv, PingInv
  <2>4. CASE ~Due
    <3>1. ping_timer' = ping_timer /\ fail_count' = fail_count
      BY <2>1, <2>4 DEF KeepAliveStep
    <3>2. QED
      BY <2>1, <2>2, <3>1 DEF IInv, PingInv
  <2>5. QED
    BY <2>3, <2>4
<1>4. QED
  BY <1>2, <1>3

LEMMA HandlePing ==
  ASSUME IInv, NEW p \in Packets, Handle(p)
  PROVE  PingInv'
<1>1. CASE GivesUp(p)
  <2>1. Enough /\ silence' = silence /\ ping_outstanding'
    BY <1>1, GiveUpLate DEF Handle, GiveUpStep
  <2>2. Enough'
    BY <2>1 DEF Enough
  <2>3. QED
    BY <2>1, <2>2 DEF PingInv
<1>2. CASE ~GivesUp(p)
  BY <1>2, KeepAlivePing DEF Handle
<1>3. QED
  BY <1>1, <1>2

LEMMA StepPing ==
  ASSUME IInv, [Next]_vars
  PROVE  PingInv'
<1>1. CASE Cycle
  BY <1>1, CycleHandles, HandlePing DEF IInv
<1>2. CASE Requests \/ ConnectFails \/ Yield \/ YieldEnds \/ CommandTimesOut \/ Environment
           \/ UNCHANGED vars
  <2>1. /\ ping_timer' \in {ping_timer, KeepAlive}
        /\ UNCHANGED <<ping_outstanding, fail_count, silence>>
    <3>1. CASE Requests
      BY <3>1 DEF Requests, Publish, Subscribe, Unsubscribe, Command
    <3>2. CASE Environment
      BY <3>2 DEF Environment, LinkFallsSilent, LinkBreaks, BrokerHandles, BrokerPublishes
    <3>3. CASE ConnectFails \/ Yield \/ YieldEnds \/ CommandTimesOut \/ UNCHANGED vars
      BY <3>3 DEF ConnectFails, Yield, YieldEnds, CommandTimesOut, vars
    <3>4. QED
      BY <1>2, <3>1, <3>2, <3>3
  <2>2. QED
    BY <2>1, SendPing
<1>3. CASE Connect
  BY <1>3 DEF Connect, PingInv
<1>4. QED
  BY <1>1, <1>2, <1>3, TickPing DEF Next, ClientStep

(* MQTTYield ends a session only where keepalive gives up.                   *)
LEMMA OfflineByGiveUp ==
  ASSUME Typed, [Next]_vars, op = "yield", op' = "offline"
  PROVE  \E p \in Packets : GivesUp(p)
<1>1. Cycle
  <2>1. CASE Requests
    BY <2>1 DEF Requests, Publish, Subscribe, Unsubscribe, Command
  <2>2. CASE Environment
    BY <2>2 DEF Environment, LinkFallsSilent, LinkBreaks, BrokerHandles, BrokerPublishes
  <2>3. CASE ConnectFails \/ Yield \/ YieldEnds \/ CommandTimesOut \/ Tick \/ Connect
             \/ UNCHANGED vars
    BY <2>3 DEF ConnectFails, Yield, YieldEnds, CommandTimesOut, Tick, Connect, vars
  <2>4. QED
    BY <2>1, <2>2, <2>3 DEF Next, ClientStep
<1>2. PICK p \in Packets : Handle(p)
  BY <1>1, CycleHandles
<1>3. CASE GivesUp(p)
  BY <1>3
<1>4. CASE ~GivesUp(p)
  <2>1. Use(p.type, p) /\ p.type # "DISCONNECTED"
    BY <1>2, <1>4 DEF Handle, Packets
  <2>2. QED
    BY <2>1 DEF Use, Granted, Denied, StartYield
<1>5. QED
  BY <1>3, <1>4

(* The types, and what the ping timer, the failed pings and the silence of   *)
(* the broker have to do with each other (MQTTClient.c:186-217).             *)
THEOREM Invariance == Spec => []IInv
<1>1. Init => IInv
  BY InitTyped, InitPing DEF IInv
<1>2. IInv /\ [Next]_vars => IInv'
  BY StepTyped, StepPing DEF IInv
<1>3. QED
  BY <1>1, <1>2, PTL DEF Spec

(* keepalive (MQTTClient.c:186-217) gives a connection up only after a ping  *)
(* has stayed unanswered for MAX_FAIL_ALLOWED whole intervals, whatever      *)
(* commands, late answers and failed sends came between.                     *)
THEOREM GivesUpLate == Spec => NoFalseDisconnect
<1>1. IInv /\ [Next]_vars =>
        [op = "yield" /\ op' = "offline" => silence > MaxFailAllowed * KeepAlive]_vars
  BY OfflineByGiveUp, GiveUpLate DEF IInv, Enough
<1>2. QED
  BY <1>1, Invariance, PTL DEF Spec, NoFalseDisconnect

-----------------------------------------------------------------------------
(* Delivery.  Where the messages stand in a sequence of packets, and what    *)
(* their numbers say.                                                        *)

Pubs(s) == {i \in 1..Len(s) : s[i].type = "PUBLISH"}
Rank(s, i) == Cardinality({j \in Pubs(s) : j <= i})
\* The messages of s are numbered from d + 1 on.
Numbered(s, d) == \A i \in Pubs(s) : s[i].n = d + Rank(s, i)

LEMMA PubsFinite ==
  ASSUME NEW S, NEW s \in Seq(S)
  PROVE  /\ Len(s) \in Nat /\ IsFiniteSet(Pubs(s)) /\ Cardinality(Pubs(s)) \in Nat
         /\ \A i : IsFiniteSet({j \in Pubs(s) : j <= i}) /\ Rank(s, i) \in Nat
<1>1. Len(s) \in Nat
  BY LenProperties
<1>2. IsFiniteSet(1..Len(s))
  BY <1>1, FS_Interval
<1>3. IsFiniteSet(Pubs(s))
  BY <1>2, FS_Subset DEF Pubs
<1>4. \A i : IsFiniteSet({j \in Pubs(s) : j <= i})
  <2> TAKE i
  <2>1. {j \in Pubs(s) : j <= i} \in SUBSET Pubs(s)
    OBVIOUS
  <2>2. QED
    BY <1>3, <2>1, FS_Subset
<1>5. QED
  BY <1>1, <1>3, <1>4, FS_CardinalityType DEF Rank

LEMMA AppendNoMessage ==
  ASSUME NEW s \in Seq(Packets), NEW e \in Packets, e.type # "PUBLISH", NEW d,
         Numbered(s, d)
  PROVE  Pubs(Append(s, e)) = Pubs(s) /\ Numbered(Append(s, e), d)
<1>1. /\ Len(Append(s, e)) = Len(s) + 1 /\ Len(s) \in Nat
      /\ \A i \in 1..Len(s) : Append(s, e)[i] = s[i]
      /\ Append(s, e)[Len(s) + 1] = e
  BY AppendSeq
<1>2. Pubs(Append(s, e)) = Pubs(s)
  BY <1>1 DEF Pubs
<1>3. QED
  BY <1>1, <1>2 DEF Numbered, Rank, Pubs

LEMMA AppendMessage ==
  ASSUME NEW s \in Seq(Packets), NEW e \in Packets, e.type = "PUBLISH", NEW d \in Nat,
         Numbered(s, d), e.n = d + Cardinality(Pubs(s)) + 1
  PROVE  /\ Cardinality(Pubs(Append(s, e))) = Cardinality(Pubs(s)) + 1
         /\ Numbered(Append(s, e), d)
<1> DEFINE new == Append(s, e)
<1>1. /\ Len(new) = Len(s) + 1 /\ Len(s) \in Nat
      /\ \A i \in 1..Len(s) : new[i] = s[i]
      /\ new[Len(s) + 1] = e
  BY AppendSeq
<1> HIDE DEF new
<1>2. Pubs(new) = Pubs(s) \cup {Len(s) + 1} /\ Len(s) + 1 \notin Pubs(s)
  BY <1>1 DEF Pubs
<1>3. Cardinality(Pubs(new)) = Cardinality(Pubs(s)) + 1
  <2>1. IsFiniteSet(Pubs(s))
    BY PubsFinite
  <2>2. Cardinality(Pubs(s) \cup {Len(s) + 1}) = Cardinality(Pubs(s)) + 1
    BY <1>2, <2>1, FS_AddElement
  <2>3. QED
    BY <1>2, <2>2
<1>4. ASSUME NEW i \in Pubs(s) PROVE Rank(new, i) = Rank(s, i)
  <2>1. {j \in Pubs(new) : j <= i} = {j \in Pubs(s) : j <= i}
    BY <1>1, <1>2 DEF Pubs
  <2>2. QED
    BY <2>1 DEF Rank
<1>5. Rank(new, Len(s) + 1) = Cardinality(Pubs(new))
  <2>1. {j \in Pubs(new) : j <= Len(s) + 1} = Pubs(new)
    BY <1>1 DEF Pubs
  <2>2. QED
    BY <2>1 DEF Rank
<1>6. ASSUME NEW i \in Pubs(new) PROVE new[i].n = d + Rank(new, i)
  <2>1. CASE i \in Pubs(s)
    BY <1>1, <1>4, <2>1 DEF Numbered, Pubs
  <2>2. CASE i = Len(s) + 1
    <3>1. Cardinality(Pubs(s)) \in Nat
      BY PubsFinite
    <3>2. QED
      BY <1>1, <1>3, <1>5, <2>2, <3>1
  <2>3. QED
    BY <1>2, <2>1, <2>2
<1>7. QED
  BY <1>3, <1>6 DEF Numbered, new

(* A finite set and the same set moved by one.                               *)
LEMMA Moved ==
  ASSUME NEW S \in SUBSET Int, NEW T \in SUBSET Int, IsFiniteSet(S),
         \A i \in Int : i \in T <=> i + 1 \in S
  PROVE  Cardinality(T) = Cardinality(S)
<1> DEFINE f == [i \in S |-> i - 1]
<1>1. f \in Bijection(S, T)
  <2>1. \A i \in S : i - 1 \in T
    OBVIOUS
  <2>2. f \in [S -> T]
    BY <2>1
  <2>3. \A a, b \in S : f[a] = f[b] => a = b
    OBVIOUS
  <2>4. \A t \in T : \E i \in S : f[i] = t
    <3> TAKE t \in T
    <3>1. t + 1 \in S /\ f[t + 1] = t
      OBVIOUS
    <3>2. QED
      BY <3>1
  <2> HIDE DEF f
  <2>5. QED
    BY <2>2, <2>3, <2>4 DEF Bijection, Injection, Surjection, IsInjective
<1> HIDE DEF f
<1>2. ExistsBijection(S, T)
  BY <1>1 DEF ExistsBijection
<1>3. QED
  BY <1>2, FS_Bijection

LEMMA RankTail ==
  ASSUME NEW s \in Seq(Packets), s # <<>>, NEW i \in Nat
  PROVE  Rank(s, i + 1) = Rank(Tail(s), i) + (IF Head(s).type = "PUBLISH" THEN 1 ELSE 0)
<1>1. /\ Len(s) \in Nat \ {0} /\ Len(Tail(s)) = Len(s) - 1 /\ Tail(s) \in Seq(Packets)
      /\ Head(s) = s[1] /\ 1 \in 1..Len(s)
      /\ \A j \in 1..Len(Tail(s)) : j + 1 \in 1..Len(s) /\ Tail(s)[j] = s[j + 1]
  BY TailSeq
<1> DEFINE A == {j \in Pubs(s) : j <= i + 1}
           B == {j \in Pubs(Tail(s)) : j <= i}
<1>2. A \in SUBSET Int /\ B \in SUBSET Int /\ IsFiniteSet(A) /\ Cardinality(A) \in Nat
      /\ IsFiniteSet(B) /\ Cardinality(B) \in Nat
  <2>1. A \in SUBSET Int /\ B \in SUBSET Int
    BY <1>1 DEF Pubs
  <2>2. IsFiniteSet(A) /\ IsFiniteSet(B)
    BY <1>1, PubsFinite
  <2>3. QED
    BY <2>1, <2>2, FS_CardinalityType
<1>3. \A j \in Int : j \in B <=> j + 1 \in A \ {1}
  <2> TAKE j \in Int
  <2>1. CASE j \in 1..Len(Tail(s))
    BY <1>1, <2>1 DEF Pubs
  <2>2. CASE j \notin 1..Len(Tail(s))
    BY <1>1, <2>2 DEF Pubs
  <2>3. QED
    BY <2>1, <2>2
<1>4. Cardinality(B) = Cardinality(A \ {1})
  <2>1. IsFiniteSet(A \ {1}) /\ A \ {1} \in SUBSET Int
    BY <1>2, FS_RemoveElement
  <2> HIDE DEF A, B
  <2>2. QED
    BY <1>2, <1>3, <2>1, Moved
<1>5. Cardinality(A \ {1}) = IF 1 \in A THEN Cardinality(A) - 1 ELSE Cardinality(A)
  BY <1>2, FS_RemoveElement
<1>6. 1 \in A <=> Head(s).type = "PUBLISH"
  BY <1>1 DEF Pubs
<1>7. Rank(s, i + 1) = Cardinality(A) /\ Rank(Tail(s), i) = Cardinality(B)
  BY DEF Rank
<1> HIDE DEF A, B
<1>8. QED
  BY <1>2, <1>4, <1>5, <1>6, <1>7

LEMMA RankAll ==
  ASSUME NEW s \in Seq(Packets)
  PROVE  Rank(s, Len(s)) = Cardinality(Pubs(s))
<1>1. {j \in Pubs(s) : j <= Len(s)} = Pubs(s)
  BY PubsFinite DEF Pubs
<1>2. QED
  BY <1>1 DEF Rank

LEMMA TailMessages ==
  ASSUME NEW s \in Seq(Packets), s # <<>>, NEW d \in Nat, Numbered(s, d), NEW e,
         e = IF Head(s).type = "PUBLISH" THEN d + 1 ELSE d
  PROVE  /\ Numbered(Tail(s), e)
         /\ e + Cardinality(Pubs(Tail(s))) = d + Cardinality(Pubs(s))
<1>1. /\ Len(s) \in Nat \ {0} /\ Len(Tail(s)) = Len(s) - 1 /\ Tail(s) \in Seq(Packets)
      /\ \A j \in 1..Len(Tail(s)) : j + 1 \in 1..Len(s) /\ Tail(s)[j] = s[j + 1]
  BY TailSeq
<1>2. \A i : Rank(s, i) \in Nat /\ Rank(Tail(s), i) \in Nat
  BY <1>1, PubsFinite
<1>3. ASSUME NEW i \in Pubs(Tail(s)) PROVE Tail(s)[i].n = e + Rank(Tail(s), i)
  <2>1. i \in Nat /\ i + 1 \in Pubs(s) /\ Tail(s)[i] = s[i + 1]
    BY <1>1 DEF Pubs
  <2>2. s[i + 1].n = d + Rank(s, i + 1)
    BY <2>1 DEF Numbered
  <2>3. Rank(s, i + 1) = Rank(Tail(s), i) + (IF Head(s).type = "PUBLISH" THEN 1 ELSE 0)
    BY <2>1, RankTail
  <2>4. Rank(s, i + 1) \in Nat /\ Rank(Tail(s), i) \in Nat
    BY <1>2
  <2>5. d + Rank(s, i + 1) = e + Rank(Tail(s), i)
    <3>1. CASE Head(s).type = "PUBLISH"
      BY <2>3, <2>4, <3>1
    <3>2. CASE Head(s).type # "PUBLISH"
      BY <2>3, <2>4, <3>2
    <3>3. QED
      BY <3>1, <3>2
  <2>6. QED
    BY <2>1, <2>2, <2>5
<1>4. Rank(s, Len(s)) = Rank(Tail(s), Len(Tail(s))) + (IF Head(s).type = "PUBLISH" THEN 1 ELSE 0)
  <2>1. Len(s) = (Len(s) - 1) + 1 /\ Len(s) - 1 \in Nat
    BY <1>1
  <2>2. QED
    BY <1>1, <2>1, RankTail
<1>5. e + Cardinality(Pubs(Tail(s))) = d + Cardinality(Pubs(s))
  <2> DEFINE all == Rank(s, Len(s))
             rest == Rank(Tail(s), Len(Tail(s)))
  <2>1. all = Cardinality(Pubs(s)) /\ rest = Cardinality(Pubs(Tail(s)))
    BY <1>1, RankAll
  <2>2. all \in Nat /\ rest \in Nat
    BY <1>2
  <2>3. all = rest + (IF Head(s).type = "PUBLISH" THEN 1 ELSE 0)
    BY <1>4
  <2> HIDE DEF all, rest
  <2>4. e + rest = d + all
    <3>1. CASE Head(s).type = "PUBLISH"
      BY <2>2, <2>3, <3>1
    <3>2. CASE Head(s).type # "PUBLISH"
      BY <2>2, <2>3, <3>2
    <3>3. QED
      BY <3>1, <3>2
  <2>5. QED
    BY <2>1, <2>4
<1>6. QED
  BY <1>3, <1>5 DEF Numbered

-----------------------------------------------------------------------------
(* Every message that is handed out goes to one handler: all filters are the *)
(* one topic buffer, so the first handler is the one that matches, or none.  *)

LEMMA OneReceiver ==
  ASSUME Typed, NEW topic
  PROVE  Cardinality(Receivers(topic)) = 1
<1>1. Len(handlers) \in Nat
  BY LenProperties DEF Typed, TypeOK
<1>2. CASE Matching(topic) = {}
  BY <1>2, FS_Singleton DEF Receivers
<1>3. CASE Matching(topic) # {}
  <2>1. Matching(topic) = 1..Len(handlers) /\ 1 \in Matching(topic)
    BY <1>1, <1>3 DEF Matching, TopicFilter
  <2>2. Receivers(topic) = {1}
    BY <1>1, <1>3, <2>1 DEF Receivers
  <2>3. QED
    BY <2>2, FS_Singleton
<1>4. QED
  BY <1>2, <1>3

DeliveryInv ==
  /\ delivered \in Nat
  /\ op # "offline" =>
       /\ Numbered(toClient, delivered)
       /\ link = "up" => delivered + Cardinality(Pubs(toClient)) = published

LEMMA DeliveryIs == DeliveryInv => DeliveredOnce
BY DEF DeliveryInv, DeliveredOnce, Numbered, Rank, Pubs, OnTheWay

LEMMA NoMessages == \A d : Numbered(<<>>, d) /\ Cardinality(Pubs(<<>>)) = 0
<1>1. Pubs(<<>>) = {}
  BY EmptySeq DEF Pubs
<1>2. QED
  BY <1>1, FS_EmptySet DEF Numbered

(* Steps at which nothing is read and nothing comes.                         *)
LEMMA KeepsDelivery ==
  ASSUME DeliveryInv, UNCHANGED <<toClient, delivered, published>>,
         op' # "offline" => op # "offline", link' = "up" => link = "up"
  PROVE  DeliveryInv'
BY DEF DeliveryInv, Numbered, Rank, Pubs

LEMMA EnvironmentDelivery ==
  ASSUME Typed, DeliveryInv, Environment
  PROVE  DeliveryInv'
<1>1. CASE LinkFallsSilent
  BY <1>1, KeepsDelivery DEF LinkFallsSilent
<1>2. CASE LinkBreaks
  <2>1. delivered' = delivered /\ op' = op /\ link' = "broken"
    BY <1>2 DEF LinkBreaks
  <2>2. CASE toClient' = toClient
    BY <2>1, <2>2 DEF DeliveryInv
  <2>3. CASE toClient' = <<>>
    BY <2>1, <2>3, NoMessages DEF DeliveryInv
  <2>4. QED
    BY <1>2, <2>2, <2>3 DEF LinkBreaks
<1>3. CASE BrokerHandles
  <2>1. delivered' = delivered /\ op' = op /\ link' = link /\ published' = published
    BY <1>3 DEF BrokerHandles
  <2>2. toClient' = toClient \/ \E e \in Packets : e.type # "PUBLISH" /\ Reply(e)
    <3> DEFINE p == Head(toBroker)
    <3>1. p \in Packets
      BY <1>3, TailSeq DEF BrokerHandles, Typed, TypeOK
    <3>2. \A type : [p EXCEPT !.type = type].type = type
      BY <3>1 DEF Packets
    <3>3. QED
      BY <1>3, <3>1, <3>2, SignalTypes, AnswerTypes DEF BrokerHandles
  <2>3. CASE toClient' = toClient
    BY <2>1, <2>3, KeepsDelivery
  <2>4. ASSUME NEW e \in Packets, e.type # "PUBLISH", Reply(e) PROVE DeliveryInv'
    <3>1. toClient \in Seq(Packets) /\ toClient' = Append(toClient, e)
      BY <2>4 DEF Typed, TypeOK, Reply
    <3>2. QED
      BY <2>1, <2>4, <3>1, AppendNoMessage DEF DeliveryInv
  <2>5. QED
    BY <2>2, <2>3, <2>4
<1>4. CASE BrokerPublishes
  <2>1. PICK topic \in subs : Reply(Packet("PUBLISH", 0, topic, published + 1))
    BY <1>4 DEF BrokerPublishes
  <2> DEFINE e == Packet("PUBLISH", 0, topic, published + 1)
  <2>2. /\ e \in Packets /\ e.type = "PUBLISH" /\ e.n = published + 1
    <3>1. topic \in Topic /\ published + 1 \in 0..MaxPublish
      BY <1>4 DEF BrokerPublishes, Typed, TypeOK, Counts
    <3>2. published + 1 \in 0..(MaxCommand + MaxPublish)
      BY <3>1
    <3>3. QED
      BY <3>1, <3>2, PacketTypes DEF Packet
  <2>3. /\ delivered' = delivered /\ op' = op /\ link' = link /\ link = "up"
        /\ published' = published + 1 /\ published \in Nat
        /\ toClient' = Append(toClient, e) /\ toClient \in Seq(Packets)
    BY <1>4, <2>1 DEF BrokerPublishes, Typed, TypeOK, Counts, Reply
  <2> HIDE DEF e
  <2>4. CASE op = "offline"
    BY <2>3, <2>4 DEF DeliveryInv
  <2>5. CASE op # "offline"
    <3>1. /\ Numbered(toClient, delivered) /\ delivered \in Nat
          /\ delivered + Cardinality(Pubs(toClient)) = published
      BY <2>3, <2>5 DEF DeliveryInv
    <3>2. /\ Cardinality(Pubs(toClient')) = Cardinality(Pubs(toClient)) + 1
          /\ Numbered(toClient', delivered)
      BY <2>2, <2>3, <3>1, AppendMessage
    <3>3. Cardinality(Pubs(toClient)) \in Nat
      BY <2>3, PubsFinite
    <3>4. delivered + Cardinality(Pubs(toClient')) = published'
      BY <2>3, <3>1, <3>2, <3>3
    <3>5. QED
      BY <2>3, <3>1, <3>2, <3>4 DEF DeliveryInv
  <2>6. QED
    BY <2>4, <2>5
<1>5. QED
  BY <1>1, <1>2, <1>3, <1>4 DEF Environment

LEMMA CycleDelivery ==
  ASSUME Typed, DeliveryInv, Cycle
  PROVE  DeliveryInv'
<1>1. op # "offline" /\ UNCHANGED <<link, published>>
  BY DEF Cycle, CyclePacket, CycleNothing, Handle, Waiting
<1>2. CASE CyclePacket
  <2> DEFINE p == Head(toClient)
  <2>1. toClient # <<>> /\ toClient \in Seq(Packets) /\ toClient' = Tail(toClient)
    BY <1>2 DEF CyclePacket, Typed, TypeOK
  <2>2. delivered' = IF p.type = "PUBLISH" THEN delivered + 1 ELSE delivered
    BY <1>2, OneReceiver DEF CyclePacket, Handle, Deliver
  <2>3. delivered \in Nat /\ Numbered(toClient, delivered)
    BY <1>1 DEF DeliveryInv
  <2>4. /\ Numbered(toClient', delivered')
        /\ delivered' + Cardinality(Pubs(toClient')) = delivered + Cardinality(Pubs(toClient))
    BY <2>1, <2>2, <2>3, TailMessages
  <2>5. QED
    BY <1>1, <2>2, <2>3, <2>4 DEF DeliveryInv
<1>3. CASE CycleNothing
  <2>1. toClient' = toClient /\ delivered' = delivered
    BY <1>3, SignalTypes DEF CycleNothing, Handle, Deliver
  <2>2. QED
    BY <1>1, <2>1, KeepsDelivery
<1>4. QED
  BY <1>2, <1>3 DEF Cycle

LEMMA StepDelivery ==
  ASSUME Typed, DeliveryInv, [Next]_vars
  PROVE  DeliveryInv'
<1>1. CASE Requests
  <2>1. UNCHANGED <<toClient, delivered, published, link>> /\ op # "offline"
    BY <1>1 DEF Requests, Publish, Subscribe, Unsubscribe, Command
  <2>2. QED
    BY <2>1, KeepsDelivery
<1>2. CASE ConnectFails \/ Yield \/ YieldEnds \/ CommandTimesOut \/ Tick \/ UNCHANGED vars
  <2>1. UNCHANGED <<toClient, delivered, published, link>>
    BY <1>2 DEF ConnectFails, Yield, YieldEnds, CommandTimesOut, Tick, vars
  <2>2. op = "offline" => op' = "offline"
    BY <1>2 DEF ConnectFails, Yield, YieldEnds, CommandTimesOut, Tick, vars
  <2>3. QED
    BY <2>1, <2>2, KeepsDelivery
<1>3. CASE Connect
  BY <1>3, NoMessages DEF Connect, DeliveryInv
<1>4. QED
  BY <1>1, <1>2, <1>3, EnvironmentDelivery, CycleDelivery DEF Next, ClientStep

(* deliverMessage (MQTTClient.c:139-162): for any number of messages, of     *)
(* handlers and of operations that read them, each message reaches one       *)
(* handler, in the broker's order, and what is not yet handed out is on its  *)
(* way.                                                                      *)
THEOREM DeliversOnce == Spec => []DeliveredOnce
<1>1. Init => DeliveryInv
  BY NoMessages DEF Init, DeliveryInv
<1>2. Typed /\ DeliveryInv /\ [Next]_vars => DeliveryInv'
  BY StepDelivery
<1>3. QED
  BY <1>1, <1>2, InitTyped, StepTyped, DeliveryIs, PTL DEF Spec

-----------------------------------------------------------------------------
(* No packet of a sequence has one of the types T; e is the only one that    *)
(* has.                                                                      *)

None(s, T) == \A i \in 1..Len(s) : s[i].type \notin T
Only(s, T, e) ==
  \E i \in 1..Len(s) :
    s[i] = e /\ e.type \in T /\ \A j \in 1..Len(s) : s[j].type \in T => j = i

LEMMA NoneEmpty == ASSUME NEW T PROVE None(<<>>, T)
BY EmptySeq DEF None

LEMMA NoneOrOnly ==
  ASSUME NEW s, NEW T, NEW e, Only(s, T, e)
  PROVE  ~None(s, T) /\ e.type \in T
BY DEF None, Only

LEMMA AppendOther ==
  ASSUME NEW s \in Seq(Packets), NEW e \in Packets, NEW T, e.type \notin T
  PROVE  /\ None(s, T) => None(Append(s, e), T)
         /\ \A a : Only(s, T, a) => Only(Append(s, e), T, a)
<1> DEFINE new == Append(s, e)
<1>1. /\ Len(new) = Len(s) + 1 /\ Len(s) \in Nat /\ new[Len(s) + 1] = e
      /\ \A i \in 1..Len(s) : new[i] = s[i]
  BY AppendSeq
<1>2. \A j \in 1..Len(new) : j \in 1..Len(s) \/ j = Len(s) + 1
  BY <1>1
<1>3. \A j \in 1..Len(new) : new[j].type \in T => j \in 1..Len(s) /\ s[j].type \in T
  BY <1>1, <1>2
<1>4. 1..Len(s) \subseteq 1..Len(new)
  BY <1>1
<1> HIDE DEF new
<1>5. None(s, T) => None(new, T)
  BY <1>3 DEF None
<1>6. ASSUME NEW a, Only(s, T, a) PROVE Only(new, T, a)
  <2>1. PICK i \in 1..Len(s) :
          s[i] = a /\ a.type \in T /\ \A j \in 1..Len(s) : s[j].type \in T => j = i
    BY <1>6 DEF Only
  <2>2. i \in 1..Len(new) /\ new[i] = a
    BY <1>1, <1>4, <2>1
  <2>3. \A j \in 1..Len(new) : new[j].type \in T => j = i
    BY <1>3, <2>1
  <2>4. QED
    BY <2>1, <2>2, <2>3 DEF Only
<1>7. QED
  BY <1>5, <1>6 DEF new

LEMMA AppendOne ==
  ASSUME NEW s \in Seq(Packets), NEW e \in Packets, NEW T, e.type \in T, None(s, T)
  PROVE  Only(Append(s, e), T, e)
<1> DEFINE new == Append(s, e)
<1>1. /\ Len(new) = Len(s) + 1 /\ Len(s) \in Nat /\ new[Len(s) + 1] = e
      /\ \A i \in 1..Len(s) : new[i] = s[i]
  BY AppendSeq
<1>2. \A j \in 1..Len(new) : j \in 1..Len(s) \/ j = Len(s) + 1
  BY <1>1
<1>3. \A j \in 1..Len(new) : new[j].type \in T => j = Len(s) + 1
  BY <1>1, <1>2 DEF None
<1>4. Len(s) + 1 \in 1..Len(new)
  BY <1>1
<1> HIDE DEF new
<1>5. QED
  BY <1>1, <1>3, <1>4 DEF Only, new

LEMMA TailOther ==
  ASSUME NEW s \in Seq(Packets), s # <<>>, NEW T
  PROVE  /\ None(s, T) => None(Tail(s), T) /\ Head(s).type \notin T
         /\ \A a : Only(s, T, a) /\ Head(s).type \notin T => Only(Tail(s), T, a)
<1>1. /\ Len(s) \in Nat \ {0} /\ Len(Tail(s)) = Len(s) - 1 /\ Head(s) = s[1] /\ 1 \in 1..Len(s)
      /\ \A i \in 1..Len(Tail(s)) : i + 1 \in 1..Len(s) /\ Tail(s)[i] = s[i + 1]
  BY TailSeq
<1>2. None(s, T) => None(Tail(s), T) /\ Head(s).type \notin T
  BY <1>1 DEF None
<1>3. ASSUME NEW a, Only(s, T, a), Head(s).type \notin T PROVE Only(Tail(s), T, a)
  <2>1. PICK i \in 1..Len(s) :
          s[i] = a /\ a.type \in T /\ \A j \in 1..Len(s) : s[j].type \in T => j = i
    BY <1>3 DEF Only
  <2>2. i # 1
    BY <1>1, <1>3, <2>1
  <2>3. i - 1 \in 1..Len(Tail(s)) /\ (i - 1) + 1 = i
    BY <1>1, <2>2
  <2>4. Tail(s)[i - 1] = a
    BY <1>1, <2>1, <2>3
  <2>5. ASSUME NEW j \in 1..Len(Tail(s)), Tail(s)[j].type \in T PROVE j = i - 1
    <3>1. j + 1 = i
      BY <1>1, <2>1, <2>5
    <3>2. QED
      BY <1>1, <3>1
  <2>6. QED
    BY <2>1, <2>3, <2>4, <2>5 DEF Only
<1>4. QED
  BY <1>2, <1>3

LEMMA TailOne ==
  ASSUME NEW s \in Seq(Packets), s # <<>>, NEW T, NEW a, Only(s, T, a), Head(s).type \in T
  PROVE  Head(s) = a /\ None(Tail(s), T)
<1>1. /\ Len(s) \in Nat \ {0} /\ Len(Tail(s)) = Len(s) - 1 /\ Head(s) = s[1] /\ 1 \in 1..Len(s)
      /\ \A i \in 1..Len(Tail(s)) : i + 1 \in 1..Len(s) /\ Tail(s)[i] = s[i + 1]
  BY TailSeq
<1>2. PICK i \in 1..Len(s) :
        s[i] = a /\ a.type \in T /\ \A j \in 1..Len(s) : s[j].type \in T => j = i
  BY DEF Only
<1>3. i = 1
  BY <1>1, <1>2
<1>4. ASSUME NEW j \in 1..Len(Tail(s)) PROVE Tail(s)[j].type \notin T
  <2>1. j + 1 # 1
    BY <1>1
  <2>2. QED
    BY <1>1, <1>2, <1>3, <2>1
<1>5. QED
  BY <1>1, <1>2, <1>3, <1>4 DEF None

-----------------------------------------------------------------------------
(* What is on its way.                                                       *)

Answers == {"SUBACK", "SUBFAIL", "UNSUBACK"}
Waits == {"suback", "unsuback"}

Settled == None(toBroker, Commands) /\ None(toClient, Answers) /\ believed = subs

(* The command in progress, or its answer, was lost; is on its way to the    *)
(* broker; was answered.                                                     *)
Lost == None(toBroker, Commands) /\ None(toClient, Answers)
Asked == Only(toBroker, Commands, request) /\ None(toClient, Answers) /\ believed = subs
Effect(a) ==
  \/ a.type = "SUBACK" /\ op = "suback" /\ subs = believed \cup {request.topic}
  \/ a.type = "SUBFAIL" /\ op = "suback" /\ subs = believed
  \/ a.type = "UNSUBACK" /\ op = "unsuback" /\ subs = believed \ {request.topic}
Replied ==
  /\ None(toBroker, Commands)
  /\ \E a \in Packets : Only(toClient, Answers, a) /\ a.n = request.n /\ Effect(a)

InFlight ==
  /\ op = "suback" => request.type = "SUBSCRIBE"
  /\ op = "unsuback" => request.type = "UNSUBSCRIBE"
  /\ Lost \/ Asked \/ Replied

FlightInv ==
  ~timedout =>
    /\ answered[1].n = answered[2].n
    /\ op \in Waits => InFlight
    /\ op \notin Waits => Settled

LEMMA InitFlight == Init => FlightInv
<1> SUFFICES ASSUME Init PROVE FlightInv
  OBVIOUS
<1>1. Settled
  BY NoneEmpty DEF Init, Settled
<1>2. answered[1].n = answered[2].n /\ op \notin Waits
  BY DEF Init, Waits
<1>3. QED
  BY <1>1, <1>2 DEF FlightInv

-----------------------------------------------------------------------------
(* Steps of the environment and of time.                                     *)

(* A step that touches none of it.                                           *)
LEMMA QuietFlight ==
  ASSUME FlightInv, UNCHANGED <<toBroker, toClient, subs, ackVars>>,
         \/ op' = op /\ request' = request
         \/ op \notin Waits /\ op' \notin Waits
  PROVE  FlightInv'
<1>1. CASE timedout
  BY <1>1 DEF FlightInv
<1>2. CASE ~timedout /\ op \notin Waits
  <2>1. op' \notin Waits /\ Settled'
    BY <1>2 DEF FlightInv, Settled, None
  <2>2. QED
    BY <1>2, <2>1 DEF FlightInv
<1>3. CASE ~timedout /\ op \in Waits
  <2>1. op' = op /\ request' = request
    BY <1>3
  <2>2. InFlight
    BY <1>3 DEF FlightInv
  <2>3. InFlight'
    BY <2>1, <2>2 DEF InFlight, Lost, Asked, Replied, Effect, None, Only
  <2>4. QED
    BY <1>3, <2>1, <2>3 DEF FlightInv
<1>4. QED
  BY <1>1, <1>2, <1>3

LEMMA LinkFlight ==
  ASSUME FlightInv, LinkFallsSilent \/ LinkBreaks
  PROVE  FlightInv'
<1>1. /\ toBroker' = <<>> /\ toClient' \in {toClient, <<>>}
      /\ UNCHANGED <<op, request, subs, believed, answered, timedout>>
  BY DEF LinkFallsSilent, LinkBreaks
<1>2. None(toBroker', Commands)
  BY <1>1, NoneEmpty
<1>3. None(toClient, Answers) => None(toClient', Answers)
  BY <1>1, NoneEmpty
<1>4. CASE ~timedout /\ op \notin Waits
  BY <1>1, <1>2, <1>3, <1>4 DEF FlightInv, Settled
<1>5. CASE ~timedout /\ op \in Waits
  <2>1. InFlight
    BY <1>5 DEF FlightInv
  <2>2. CASE None(toClient', Answers)
    <3>1. Lost'
      BY <1>2, <2>2 DEF Lost
    <3>2. InFlight'
      BY <1>1, <2>1, <3>1 DEF InFlight
    <3>3. QED
      BY <1>1, <1>5, <3>2 DEF FlightInv
  <2>3. CASE ~None(toClient', Answers)
    <3>1. toClient' = toClient /\ Replied
      BY <1>1, <1>3, <2>1, <2>3, NoneEmpty DEF InFlight, Lost, Asked
    <3>2. Replied'
      BY <1>1, <1>2, <3>1 DEF Replied, Effect
    <3>3. InFlight'
      BY <1>1, <2>1, <3>2 DEF InFlight
    <3>4. QED
      BY <1>1, <1>5, <3>3 DEF FlightInv
  <2>4. QED
    BY <2>2, <2>3
<1>6. QED
  BY <1>1, <1>4, <1>5 DEF FlightInv

(* A packet that is neither a command nor an answer is added to one of the   *)
(* channels, or none is.                                                     *)
Added(channel, next) ==
  \/ next = channel
  \/ \E e \in Packets : e.type \notin Commands \cup Answers /\ next = Append(channel, e)

LEMMA AddedOther ==
  ASSUME NEW s \in Seq(Packets), NEW next, Added(s, next), NEW T, T = Commands \/ T = Answers
  PROVE  /\ None(s, T) => None(next, T)
         /\ \A a : Only(s, T, a) => Only(next, T, a)
<1>1. CASE next = s
  BY <1>1
<1>2. ASSUME NEW e \in Packets, e.type \notin T, next = Append(s, e)
      PROVE  /\ None(s, T) => None(next, T)
             /\ \A a : Only(s, T, a) => Only(next, T, a)
  BY <1>2, AppendOther
<1>3. QED
  BY <1>1, <1>2 DEF Added

LEMMA AddedFlight ==
  ASSUME Typed, FlightInv, Added(toBroker, toBroker'), Added(toClient, toClient'),
         UNCHANGED <<subs, ackVars>>,
         \/ op' = op /\ request' = request
         \/ op \notin Waits /\ op' \notin Waits
  PROVE  FlightInv'
<1>1. /\ None(toBroker, Commands) => None(toBroker', Commands)
      /\ \A a : Only(toBroker, Commands, a) => Only(toBroker', Commands, a)
      /\ None(toClient, Answers) => None(toClient', Answers)
      /\ \A a : Only(toClient, Answers, a) => Only(toClient', Answers, a)
  BY AddedOther DEF Typed, TypeOK
<1>2. CASE ~timedout /\ op \notin Waits
  <2>1. op' \notin Waits /\ Settled'
    BY <1>1, <1>2 DEF FlightInv, Settled
  <2>2. QED
    BY <1>2, <2>1 DEF FlightInv
<1>3. CASE ~timedout /\ op \in Waits
  <2>1. op' = op /\ request' = request /\ InFlight
    BY <1>3 DEF FlightInv
  <2>2. Lost => Lost'
    BY <1>1 DEF Lost
  <2>3. Asked => Asked'
    BY <1>1, <2>1 DEF Asked
  <2>4. Replied => Replied'
    BY <1>1, <2>1 DEF Replied, Effect
  <2>5. InFlight'
    BY <2>1, <2>2, <2>3, <2>4 DEF InFlight
  <2>6. QED
    BY <1>3, <2>1, <2>5 DEF FlightInv
<1>4. QED
  BY <1>2, <1>3 DEF FlightInv

LEMMA PublishesFlight ==
  ASSUME Typed, FlightInv, BrokerPublishes
  PROVE  FlightInv'
<1>1. PICK topic \in subs : toClient' = Append(toClient, Packet("PUBLISH", 0, topic, published + 1))
  BY DEF BrokerPublishes, Reply
<1>2. topic \in Topic /\ published + 1 \in 0..(MaxCommand + MaxPublish)
  BY DEF BrokerPublishes, Typed, TypeOK, Counts
<1>3. /\ Packet("PUBLISH", 0, topic, published + 1) \in Packets
      /\ Packet("PUBLISH", 0, topic, published + 1).type = "PUBLISH"
  BY <1>2, PacketTypes DEF Packet
<1>4. Added(toClient, toClient') /\ Added(toBroker, toBroker')
  BY <1>1, <1>3 DEF Added, Commands, Answers, BrokerPublishes
<1>5. UNCHANGED <<op, request, subs, ackVars>>
  BY DEF BrokerPublishes
<1>6. QED
  BY <1>4, <1>5, AddedFlight

-----------------------------------------------------------------------------
(* The broker takes a packet: a command becomes its answer.                  *)

LEMMA TakenFlight ==
  ASSUME Typed, FlightInv, BrokerHandles
  PROVE  FlightInv'
<1> DEFINE p == Head(toBroker)
<1>1. /\ toBroker \in Seq(Packets) /\ toBroker # <<>> /\ toBroker' = Tail(toBroker)
      /\ toClient \in Seq(Packets) /\ p \in Packets
      /\ UNCHANGED <<op, request, ackVars>>
  BY TailSeq DEF BrokerHandles, Typed, TypeOK
<1>2. /\ None(toBroker, Commands) => None(toBroker', Commands) /\ p.type \notin Commands
      /\ \A a : Only(toBroker, Commands, a) /\ p.type \notin Commands
                  => Only(toBroker', Commands, a)
      /\ \A a : Only(toBroker, Commands, a) /\ p.type \in Commands
                  => p = a /\ None(toBroker', Commands)
  BY <1>1, TailOther, TailOne
<1> HIDE DEF p
<1>3. CASE p.type \notin Commands
  <2>1. subs' = subs /\ Added(toClient, toClient')
    <3>1. /\ p.type \notin Commands
          /\ \/ \E type \in {"CONNACK", "REFUSED", "PINGRESP"} :
                  toClient' = Append(toClient, Signal(type)) /\ subs' = subs
             \/ UNCHANGED <<toClient, subs>>
      BY <1>3 DEF BrokerHandles, Commands, Reply, p
    <3>2. \A type \in {"CONNACK", "REFUSED", "PINGRESP"} :
            Signal(type) \in Packets /\ Signal(type).type \notin Commands \cup Answers
      BY SignalTypes DEF Commands, Answers
    <3>3. QED
      BY <3>1, <3>2 DEF Added
  <2>2. /\ None(toClient, Answers) => None(toClient', Answers)
        /\ \A a : Only(toClient, Answers, a) => Only(toClient', Answers, a)
    BY <1>1, <2>1, AddedOther
  <2>3. CASE ~timedout /\ op \notin Waits
    BY <1>1, <1>2, <2>1, <2>2, <2>3 DEF FlightInv, Settled
  <2>4. CASE ~timedout /\ op \in Waits
    <3>1. Lost => Lost'
      BY <1>2, <2>2 DEF Lost
    <3>2. Asked => Asked'
      BY <1>1, <1>2, <1>3, <2>1, <2>2 DEF Asked
    <3>3. Replied => Replied'
      BY <1>1, <1>2, <2>1, <2>2 DEF Replied, Effect
    <3>4. InFlight'
      BY <1>1, <2>4, <3>1, <3>2, <3>3 DEF FlightInv, InFlight
    <3>5. QED
      BY <1>1, <2>4, <3>4 DEF FlightInv
  <2>5. QED
    BY <1>1, <2>3, <2>4 DEF FlightInv
<1>4. CASE p.type \in Commands /\ ~timedout
  <2>1. op \in Waits /\ Asked /\ InFlight
    BY <1>2, <1>4 DEF FlightInv, Settled, InFlight, Lost, Replied
  <2>2. p = request /\ None(toBroker', Commands) /\ None(toClient, Answers) /\ believed = subs
    BY <1>2, <1>4, <2>1 DEF Asked
  <2>3. PICK a \in Packets :
          /\ toClient' = Append(toClient, a) /\ a.type \in Answers
          /\ a.n = request.n
          /\ \/ a.type = "SUBACK" /\ p.type = "SUBSCRIBE" /\ subs' = subs \cup {p.topic}
             \/ a.type = "SUBFAIL" /\ p.type = "SUBSCRIBE" /\ subs' = subs
             \/ a.type = "UNSUBACK" /\ p.type = "UNSUBSCRIBE" /\ subs' = subs \ {p.topic}
    <3>1. \A type \in Answers : /\ [p EXCEPT !.type = type] \in Packets
                                /\ [p EXCEPT !.type = type].type = type
                                /\ [p EXCEPT !.type = type].n = p.n
      BY <1>1, AnswerTypes DEF Answers, Packets
    <3>2. \/ /\ p.type = "SUBSCRIBE"
             /\ \/ Reply([p EXCEPT !.type = "SUBACK"]) /\ subs' = subs \cup {p.topic}
                \/ Reply([p EXCEPT !.type = "SUBFAIL"]) /\ subs' = subs
          \/ /\ p.type = "UNSUBSCRIBE"
             /\ Reply([p EXCEPT !.type = "UNSUBACK"]) /\ subs' = subs \ {p.topic}
      BY <1>4 DEF BrokerHandles, Commands, p
    <3>3. QED
      BY <2>2, <3>1, <3>2 DEF Reply, Answers
  <2>4. Only(toClient', Answers, a)
    BY <1>1, <2>2, <2>3, AppendOne
  <2>5. Effect(a)'
    BY <1>1, <2>1, <2>2, <2>3 DEF Effect, InFlight, Waits
  <2>6. Replied'
    BY <1>1, <2>2, <2>3, <2>4, <2>5 DEF Replied
  <2>7. InFlight'
    BY <1>1, <2>1, <2>6 DEF InFlight
  <2>8. QED
    BY <1>1, <1>4, <2>1, <2>7 DEF FlightInv
<1>5. QED
  BY <1>1, <1>3, <1>4 DEF FlightInv

-----------------------------------------------------------------------------
(* Requests and connections.                                                 *)

LEMMA ConnectFlight ==
  ASSUME Connect
  PROVE  FlightInv'
<1>1. None(toBroker', Commands)
  <2>1. Signal("CONNECT").type \notin Commands
    BY DEF Signal, Packet, Commands
  <2>2. CASE toBroker' = <<Signal("CONNECT")>>
    <3>1. Len(toBroker') = 1 /\ toBroker'[1] = Signal("CONNECT")
      BY <2>2
    <3>2. QED
      BY <2>1, <3>1 DEF None
  <2>3. CASE toBroker' = <<>>
    BY <2>3, NoneEmpty
  <2>4. QED
    BY <2>2, <2>3 DEF Connect
<1>2. None(toClient', Answers)
  BY NoneEmpty DEF Connect
<1>3. believed' = subs' /\ answered'[1].n = answered'[2].n /\ op' \notin Waits
  BY DEF Connect, Waits
<1>4. QED
  BY <1>1, <1>2, <1>3 DEF FlightInv, Settled

LEMMA PublishFlight ==
  ASSUME Typed, FlightInv, NEW topic \in Topic, Publish(topic)
  PROVE  FlightInv'
<1>1. /\ Packet("PUBLISH", 0, topic, 0) \in Packets
      /\ Packet("PUBLISH", 0, topic, 0).type = "PUBLISH"
  BY PacketTypes DEF Packet
<1>2. toBroker' = toBroker \/ toBroker' = Append(toBroker, Packet("PUBLISH", 0, topic, 0))
  BY DEF Publish, Send
<1>3. Added(toBroker, toBroker') /\ Added(toClient, toClient')
  BY <1>1, <1>2 DEF Added, Commands, Answers, Publish
<1>4. op \notin Waits /\ op' \notin Waits /\ UNCHANGED <<subs, ackVars>>
  BY DEF Publish, StartYield, Waits
<1>5. QED
  BY <1>3, <1>4, AddedFlight

LEMMA CommandFlight ==
  ASSUME Typed, FlightInv, NEW topic \in Topic,
         Subscribe(topic) \/ Unsubscribe(topic)
  PROVE  FlightInv'
<1>1. PICK type \in Commands, wait \in Waits :
        /\ Command(type, wait, topic)
        /\ wait = "suback" => type = "SUBSCRIBE"
        /\ wait = "unsuback" => type = "UNSUBSCRIBE"
  BY DEF Subscribe, Unsubscribe, Commands, Waits
<1> DEFINE p == Packet(type, getNextPacketId, topic, commands + 1)
<1>2. op \notin Waits /\ UNCHANGED <<toClient, subs, believed, answered>>
  BY <1>1 DEF Command, Waits
<1>3. p \in Packets /\ p.type = type
  <2>1. getNextPacketId \in 0..MaxPacketId /\ commands + 1 \in 0..(MaxCommand + MaxPublish)
    BY <1>1 DEF Command, getNextPacketId, Typed, TypeOK, Counts
  <2>2. QED
    BY <2>1, PacketTypes DEF Commands, Packet
<1>4. \/ /\ op' = wait /\ request' = p /\ timedout' = timedout
         /\ toBroker' = toBroker \/ toBroker' = Append(toBroker, p)
      \/ op' = "yield" /\ toBroker' = toBroker /\ timedout' = timedout
      \/ timedout' = TRUE
  BY <1>1 DEF Command, Send, StartYield
<1> HIDE DEF p
<1>5. CASE timedout'
  BY <1>5 DEF FlightInv
<1>6. CASE ~timedout' /\ ~timedout
  <2>1. Settled /\ answered[1].n = answered[2].n
    BY <1>2, <1>6 DEF FlightInv
  <2>2. CASE op' = "yield" /\ toBroker' = toBroker /\ timedout' = timedout
    <3>1. Settled' /\ op' \notin Waits
      BY <1>2, <2>1, <2>2 DEF Settled, Waits
    <3>2. QED
      BY <1>2, <2>1, <3>1 DEF FlightInv
  <2>3. CASE /\ op' = wait /\ request' = p
             /\ toBroker' = toBroker \/ toBroker' = Append(toBroker, p)
    <3>1. Lost' \/ Asked'
      <4>1. toBroker' = toBroker => Lost'
        BY <1>2, <2>1 DEF Lost, Settled
      <4>2. toBroker' = Append(toBroker, p) => Asked'
        BY <1>2, <1>3, <2>1, <2>3, AppendOne DEF Settled, Asked, Typed, TypeOK
      <4>3. QED
        BY <2>3, <4>1, <4>2
    <3>2. InFlight'
      BY <1>1, <1>3, <2>3, <3>1 DEF InFlight, Waits
    <3>3. QED
      BY <1>2, <2>1, <2>3, <3>2 DEF FlightInv
  <2>4. timedout' # TRUE
    BY <1>6, Zenon
  <2>5. QED
    BY <1>4, <2>2, <2>3, <2>4
<1>7. ~timedout' => ~timedout
  BY <1>4, Zenon
<1>8. QED
  BY <1>5, <1>6, <1>7

-----------------------------------------------------------------------------
(* The cycle: what it reads, and what the keepalive sends.                   *)

(* Taken(p): p was the head of toClient, or there was nothing to read.       *)
Taken(p) ==
  \/ toClient # <<>> /\ p = Head(toClient) /\ toClient' = Tail(toClient)
  \/ p.type = "NONE" /\ toClient' = toClient

LEMMA CycleTakes ==
  ASSUME Typed, Cycle
  PROVE  \E p \in Packets : Handle(p) /\ Taken(p)
<1>1. CASE CyclePacket
  BY <1>1, TailSeq DEF CyclePacket, Typed, TypeOK, Taken
<1>2. CASE CycleNothing
  BY <1>2, SignalTypes DEF CycleNothing, Taken
<1>3. QED
  BY <1>1, <1>2 DEF Cycle

LEMMA TakenRest ==
  ASSUME Typed, NEW p \in Packets, Taken(p)
  PROVE  /\ None(toClient, Answers) => None(toClient', Answers) /\ p.type \notin Answers
         /\ \A a : Only(toClient, Answers, a) /\ p.type \notin Answers
                     => Only(toClient', Answers, a)
         /\ \A a : Only(toClient, Answers, a) /\ p.type \in Answers
                     => p = a /\ None(toClient', Answers)
<1>1. CASE toClient # <<>> /\ p = Head(toClient) /\ toClient' = Tail(toClient)
  BY <1>1, TailOther, TailOne DEF Typed, TypeOK
<1>2. CASE p.type = "NONE" /\ toClient' = toClient
  BY <1>2 DEF Answers
<1>3. QED
  BY <1>1, <1>2 DEF Taken

(* A PINGREQ is no command.                                                  *)
LEMMA KeptToBroker ==
  ASSUME Typed, NEW p \in Packets, Handle(p)
  PROVE  /\ None(toBroker, Commands) => None(toBroker', Commands)
         /\ \A a : Only(toBroker, Commands, a) => Only(toBroker', Commands, a)
<1>1. Signal("PINGREQ") \in Packets /\ Signal("PINGREQ").type \notin Commands \cup Answers
  BY SignalTypes DEF ToBroker, Signal, Packet, Commands, Answers
<1>2. toBroker' = toBroker \/ toBroker' = Append(toBroker, Signal("PINGREQ"))
  BY DEF Handle, GiveUpStep, KeepAliveStep, Send
<1>3. Added(toBroker, toBroker')
  BY <1>1, <1>2 DEF Added
<1>4. QED
  BY <1>3, AddedOther DEF Typed, TypeOK

LEMMA CycleFlight ==
  ASSUME Typed, FlightInv, Cycle
  PROVE  FlightInv'
<1>1. PICK p \in Packets : Handle(p) /\ Taken(p)
  BY CycleTakes
<1>2. PICK r : Use(r, p) /\ (r = p.type \/ r = "DISCONNECTED")
  BY <1>1 DEF Handle
<1>3. subs' = subs
  BY <1>1 DEF Handle
<1>4. /\ None(toClient, Answers) => None(toClient', Answers) /\ p.type \notin Answers
      /\ \A a : Only(toClient, Answers, a) /\ p.type \notin Answers
                  => Only(toClient', Answers, a)
      /\ \A a : Only(toClient, Answers, a) /\ p.type \in Answers
                  => p = a /\ None(toClient', Answers)
      /\ None(toBroker, Commands) => None(toBroker', Commands)
      /\ \A a : Only(toBroker, Commands, a) => Only(toBroker', Commands, a)
  BY <1>1, TakenRest, KeptToBroker
<1>5. timedout' = timedout
  BY <1>2 DEF Use, Granted, Denied
<1>6. CASE ~timedout /\ op \notin Waits
  <2>1. op' \notin Waits /\ UNCHANGED <<believed, answered>>
    BY <1>2, <1>6 DEF Use, Waits
  <2>2. Settled'
    BY <1>3, <1>4, <1>6, <2>1 DEF FlightInv, Settled
  <2>3. QED
    BY <1>6, <2>1, <2>2 DEF FlightInv
<1>7. CASE ~timedout /\ op \in Waits /\ <<op, r>> \notin {<<"suback", "SUBACK">>,
        <<"suback", "SUBFAIL">>, <<"unsuback", "UNSUBACK">>}
  <2>1. UNCHANGED <<op, request, believed, answered>>
    BY <1>2, <1>7 DEF Use, Waits
  <2>2. InFlight
    BY <1>7 DEF FlightInv
  <2>3. Lost => Lost'
    BY <1>4 DEF Lost
  <2>4. Asked => Asked'
    BY <1>3, <1>4, <2>1 DEF Asked
  <2>5. Replied /\ p.type \notin Answers => Replied'
    BY <1>3, <1>4, <2>1 DEF Replied, Effect
  <2>6. Replied /\ p.type \in Answers => Lost'
    BY <1>4 DEF Replied, Lost
  <2>7. InFlight'
    BY <2>1, <2>2, <2>3, <2>4, <2>5, <2>6 DEF InFlight
  <2>8. QED
    BY <1>7, <2>1, <2>7 DEF FlightInv
<1>8. CASE ~timedout /\ op \in Waits /\ <<op, r>> \in {<<"suback", "SUBACK">>,
        <<"suback", "SUBFAIL">>, <<"unsuback", "UNSUBACK">>}
  <2>1. r = p.type /\ p.type \in Answers
    BY <1>2, <1>8 DEF Answers
  <2>2. Replied
    BY <1>4, <1>8, <2>1 DEF FlightInv, InFlight, Lost, Asked
  <2>3. /\ None(toBroker', Commands) /\ None(toClient', Answers)
        /\ p.n = request.n /\ Effect(p)
    BY <1>4, <2>1, <2>2 DEF Replied
  <2>4. /\ op' \notin Waits /\ answered' = <<request, p>>
        /\ believed' = subs
    <3>1. CASE op = "suback" /\ r = "SUBACK"
      <4>1. Granted(p)
        BY <1>2, <3>1 DEF Use
      <4>2. QED
        BY <2>1, <2>3, <3>1, <4>1 DEF Granted, Effect, Waits
    <3>2. CASE op = "suback" /\ r = "SUBFAIL"
      <4>1. Denied(p)
        BY <1>2, <3>2 DEF Use
      <4>2. QED
        BY <2>1, <2>3, <3>2, <4>1 DEF Denied, StartYield, Effect, Waits
    <3>3. CASE op = "unsuback" /\ r = "UNSUBACK"
      BY <1>2, <2>1, <2>3, <3>3 DEF Use, Effect, Waits
    <3>4. QED
      BY <1>8, <3>1, <3>2, <3>3
  <2>5. Settled' /\ answered'[1].n = answered'[2].n
    BY <1>3, <2>3, <2>4 DEF Settled
  <2>6. QED
    BY <2>4, <2>5 DEF FlightInv
<1>9. QED
  BY <1>5, <1>6, <1>7, <1>8 DEF FlightInv

-----------------------------------------------------------------------------
LEMMA StepFlight ==
  ASSUME Typed, FlightInv, [Next]_vars
  PROVE  FlightInv'
<1>1. CASE Cycle
  BY <1>1, CycleFlight
<1>2. CASE Requests
  BY <1>2, PublishFlight, CommandFlight DEF Requests
<1>3. CASE Environment
  BY <1>3, LinkFlight, TakenFlight, PublishesFlight DEF Environment
<1>4. CASE Connect
  BY <1>4, ConnectFlight
<1>5. CASE CommandTimesOut
  BY <1>5 DEF CommandTimesOut, FlightInv
<1>6. CASE Tick \/ ConnectFails \/ Yield \/ YieldEnds \/ UNCHANGED vars
  <2>1. /\ UNCHANGED <<toBroker, toClient, subs, ackVars>>
        /\ \/ op' = op /\ request' = request
           \/ op \notin Waits /\ op' \notin Waits
    BY <1>6 DEF Tick, ConnectFails, Yield, YieldEnds, StartYield, Waits, vars
  <2>2. QED
    BY <2>1, QuietFlight
<1>7. QED
  BY <1>1, <1>2, <1>3, <1>4, <1>5, <1>6 DEF Next, ClientStep

(* Until a command of the session times out, waitfor takes an answer for the *)
(* command it answers, and after each command the application and the broker *)
(* agree on what is subscribed (MQTTClient.c:386-468), whatever publishes,   *)
(* pings and losses came between.                                            *)
THEOREM Agreement == Spec => []SubscriptionsAgree
<1>1. Init => Typed /\ FlightInv
  BY InitTyped, InitFlight
<1>2. Typed /\ FlightInv /\ [Next]_vars => Typed' /\ FlightInv'
  BY StepTyped, StepFlight
<1>3. FlightInv => SubscriptionsAgree
  BY DEF FlightInv, SubscriptionsAgree, Settled, Waits
<1>4. QED
  BY <1>1, <1>2, <1>3, PTL DEF Spec
=============================================================================
