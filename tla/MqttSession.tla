----------------------------- MODULE MqttSession -----------------------------
(***************************************************************************)
(* src/lib/Microgear/MQTTClient/MQTTClient.c as microgear_task drives it:  *)
(* connect, then commands taken from the queue and MQTTYield in turn, until *)
(* the keepalive gives the connection up, then a new connection.  The      *)
(* broker and the TCP connection are the environment.                      *)
(*                                                                         *)
(* Time is counted in ticks; Tick may happen at any moment.  A timer holds *)
(* the ticks that are left of it and is expired below 0.  One cycle() is   *)
(* one step: the read at its start waits for a packet and may give up at   *)
(* any moment (mqtt_esp_read waits for less than the timer's rest).  An    *)
(* operation of the client (op) is what the task is blocked in.            *)
(*                                                                         *)
(* Subscriptions are made with QOS0, so the broker sends QoS 0 messages    *)
(* only and the PUBACK/PUBREC branches of cycle are not reached.  A packet *)
(* is read and sent whole or not at all (framing, and what is cut or sent  *)
(* too much, are left to a module of its own).                             *)
(***************************************************************************)
EXTENDS Integers, Sequences, FiniteSets

CONSTANTS
  Topic,            \* topics of the application
  YieldTime,        \* MQTTYield's timeout (1 s in Microgear.c)
  CommandTimeout,   \* command_timeout_ms (5 s)
  KeepAlive,        \* keepAliveInterval (15 s)
  MaxFailAllowed,   \* MAX_FAIL_ALLOWED
  MaxHandlers,      \* MAX_MESSAGE_HANDLERS
  MaxPacketId,      \* MAX_PACKET_ID
  ChannelLen,       \* bound: packets in flight in each direction
  MaxCommand,       \* bound: subscribe and unsubscribe commands
  MaxPublish,       \* bound: messages the broker publishes in a session
  MaxSession        \* bound: connections

ASSUME TimeAssumption ==
  /\ YieldTime \in Nat /\ CommandTimeout \in Nat /\ KeepAlive \in Nat \ {0}
ASSUME TableAssumption ==
  /\ MaxFailAllowed \in Nat \ {0} /\ MaxHandlers \in Nat \ {0}
  /\ MaxPacketId \in Nat \ {0}
ASSUME SessionBoundAssumption ==
  ChannelLen \in Nat /\ MaxCommand \in Nat /\ MaxPublish \in Nat /\ MaxSession \in Nat

VARIABLES
  op,                \* the operation in progress, or "read" (the queue) or "offline"
  timer,             \* ticks left of its timeout
  ping_timer,        \* ticks left of c->ping_timer
  ping_outstanding,  \* c->ping_outstanding
  fail_count,        \* c->fail_count
  isconnected,       \* c->isconnected
  next_packetid,     \* c->next_packetid
  handlers,          \* c->messageHandlers: the topics they were registered for
  topicbuf,          \* the queue message's topic buffer, which every topicFilter points to
  request,           \* the command in progress
  link,              \* the TCP connection: "up", "silent" or "broken"
  toBroker,          \* packets on their way to the broker
  toClient,          \* packets on their way to the client, or in its socket's buffer
  subs,              \* the broker's subscriptions of this session
  published,         \* history: messages the broker published in this session
  delivered,         \* history: messages handed to a handler in this session
  believed,          \* history: the topics whose last command that succeeded subscribed
  answered,          \* history: the last command and the packet taken as its answer
  timedout,          \* history: did a command end without its answer, and perhaps go out?
  silence,           \* history: ticks since the unanswered ping, 0 when there is none
  commands,          \* history: counts subscribe and unsubscribe commands
  sessions           \* history: counts connections

opVars      == <<op, timer, request>>
pingVars    == <<ping_timer, ping_outstanding, fail_count, silence>>
clientVars  == <<isconnected, handlers>>
idVars      == <<next_packetid, topicbuf, commands>>
brokerVars  == <<subs, published>>
ackVars     == <<believed, answered, timedout>>
netVars     == <<link, toBroker, toClient>>
vars == <<opVars, pingVars, clientVars, idVars, brokerVars, ackVars, netVars,
          delivered, sessions>>

Op == {"offline", "connack", "read", "suback", "unsuback", "yield"}
NoTopic == "no topic"
NoRequest == [type |-> "NONE", id |-> 0, topic |-> NoTopic, n |-> 0]
\* Packets; n is the number of the command or message, which no packet carries.
Packet(type, id, topic, n) == [type |-> type, id |-> id, topic |-> topic, n |-> n]
Signal(type) == Packet(type, 0, NoTopic, 0)

Init ==
  /\ op = "offline" /\ timer = 0 /\ request = NoRequest
  /\ ping_timer = 0 /\ ping_outstanding = FALSE /\ fail_count = 0 /\ silence = 0
  /\ isconnected = FALSE /\ handlers = <<>>
  /\ next_packetid = 0 /\ topicbuf = NoTopic /\ commands = 0
  /\ link = "broken" /\ toBroker = <<>> /\ toClient = <<>>
  /\ subs = {} /\ published = 0 /\ delivered = 0 /\ sessions = 0
  /\ believed = {} /\ answered = <<NoRequest, NoRequest>> /\ timedout = FALSE

-----------------------------------------------------------------------------
(* Timers and the socket.                                                  *)

Expired(t) == t < 0
Down(t) == IF t < 0 THEN t ELSE t - 1

Tick ==
  /\ timer' = Down(timer) /\ ping_timer' = Down(ping_timer)
  /\ silence' = IF ping_outstanding /\ silence <= MaxFailAllowed * KeepAlive
                THEN silence + 1 ELSE silence
  /\ UNCHANGED <<op, request, ping_outstanding, fail_count, clientVars, idVars,
                 brokerVars, ackVars, netVars, delivered, sessions>>

\* What a send() does with a packet: it fails on a broken connection, and may fail on
\* any other (select may time out); on a silent one TCP keeps the packet, and nobody
\* ever gets it.
CanSend == link # "broken"
Send(packet) ==
  toBroker' = IF link = "up" THEN Append(toBroker, packet) ELSE toBroker

LinkFallsSilent ==
  /\ link = "up" /\ link' = "silent" /\ toBroker' = <<>>
  /\ UNCHANGED <<toClient, opVars, pingVars, clientVars, idVars, brokerVars, ackVars,
                 delivered, sessions>>

LinkBreaks ==
  /\ link \in {"up", "silent"} /\ link' = "broken" /\ toBroker' = <<>>
  /\ toClient' \in {toClient, <<>>}
  /\ UNCHANGED <<opVars, pingVars, clientVars, idVars, brokerVars, ackVars, delivered,
                 sessions>>

-----------------------------------------------------------------------------
(* The broker.                                                             *)

Reply(packet) == toClient' = Append(toClient, packet)

\* The broker takes a packet and answers it, at any later time.
BrokerHandles ==
  LET p == Head(toBroker) IN
  /\ link = "up" /\ toBroker # <<>> /\ Len(toClient) < ChannelLen
  /\ toBroker' = Tail(toBroker)
  /\ \/ /\ p.type = "CONNECT"
        /\ \E type \in {"CONNACK", "REFUSED"} : Reply(Signal(type))
        /\ subs' = subs
     \/ /\ p.type = "SUBSCRIBE"
        /\ \/ Reply([p EXCEPT !.type = "SUBACK"]) /\ subs' = subs \cup {p.topic}
           \/ Reply([p EXCEPT !.type = "SUBFAIL"]) /\ subs' = subs
     \/ /\ p.type = "UNSUBSCRIBE"
        /\ Reply([p EXCEPT !.type = "UNSUBACK"]) /\ subs' = subs \ {p.topic}
     \/ p.type = "PINGREQ" /\ Reply(Signal("PINGRESP")) /\ subs' = subs
     \/ p.type = "PUBLISH" /\ UNCHANGED <<toClient, subs>>
  /\ UNCHANGED <<link, published, opVars, pingVars, clientVars, idVars, ackVars,
                 delivered, sessions>>

BrokerPublishes ==
  /\ link = "up" /\ Len(toClient) < ChannelLen /\ published < MaxPublish
  /\ \E topic \in subs : Reply(Packet("PUBLISH", 0, topic, published + 1))
  /\ published' = published + 1
  /\ UNCHANGED <<link, toBroker, subs, opVars, pingVars, clientVars, idVars, ackVars,
                 delivered, sessions>>

-----------------------------------------------------------------------------
(* Connecting.                                                             *)

\* ConnectNetwork, NewMQTTClient, and MQTTConnect up to its wait for CONNACK, or up to
\* its failure to send CONNECT.
Connect ==
  /\ op = "offline" /\ sessions < MaxSession
  /\ sessions' = sessions + 1
  /\ link' = "up" /\ toClient' = <<>>
  /\ \/ op' = "connack" /\ toBroker' = <<Signal("CONNECT")>>
     \/ op' = "offline" /\ toBroker' = <<>>
  /\ handlers' = <<>> /\ isconnected' = FALSE
  /\ ping_outstanding' = FALSE /\ fail_count' = 0 /\ ping_timer' = KeepAlive
  /\ timer' = CommandTimeout /\ request' = NoRequest
  /\ subs' = {} /\ published' = 0 /\ delivered' = 0 /\ silence' = 0
  /\ believed' = {} /\ answered' = <<NoRequest, NoRequest>> /\ timedout' = FALSE
  /\ UNCHANGED idVars

\* MQTTConnect fails: microgear_task closes the socket.
ConnectFails ==
  /\ op = "connack" /\ Expired(timer)
  /\ op' = "offline"
  /\ UNCHANGED <<timer, request, pingVars, clientVars, idVars, brokerVars, ackVars,
                 netVars, delivered, sessions>>

-----------------------------------------------------------------------------
(* microgear_task's loop and the commands, up to the wait for an answer.   *)

StartYield == op' = "yield" /\ timer' = YieldTime /\ request' = NoRequest

\* The queue is empty, or its reading stops: MQTTYield.
Yield ==
  /\ op = "read" /\ StartYield
  /\ UNCHANGED <<pingVars, clientVars, idVars, brokerVars, ackVars, netVars, delivered,
                 sessions>>

YieldEnds ==
  /\ op = "yield" /\ Expired(timer) /\ op' = "read"
  /\ UNCHANGED <<timer, request, pingVars, clientVars, idVars, brokerVars, ackVars,
                 netVars, delivered, sessions>>

\* MQTTPublish with QOS0 ends when the packet is sent; a failure stops the reading,
\* although the packet may have gone out (sendPacket fails when it sent too much).
Publish(topic) ==
  /\ op = "read" /\ Len(toBroker) < ChannelLen
  /\ topicbuf' = topic
  /\ \/ /\ CanSend /\ Send(Packet("PUBLISH", 0, topic, 0))
        /\ ping_timer' = KeepAlive /\ UNCHANGED opVars
     \/ /\ StartYield /\ ping_timer' = ping_timer
        /\ \/ UNCHANGED toBroker
           \/ CanSend /\ Send(Packet("PUBLISH", 0, topic, 0))
  /\ UNCHANGED <<link, toClient, ping_outstanding, fail_count, silence, clientVars,
                 next_packetid, commands, brokerVars, ackVars, delivered, sessions>>

\* A mutation: the packet id does not wrap.
UnwrappedPacketId == next_packetid + 1
getNextPacketId == IF next_packetid = MaxPacketId THEN 1 ELSE next_packetid + 1

\* MQTTSubscribe and MQTTUnsubscribe up to waitfor.
Command(type, wait, topic) ==
  LET p == Packet(type, getNextPacketId, topic, commands + 1) IN
  /\ op = "read" /\ Len(toBroker) < ChannelLen /\ commands < MaxCommand
  /\ topicbuf' = topic /\ next_packetid' = getNextPacketId
  /\ commands' = commands + 1
  /\ \/ /\ CanSend /\ Send(p)
        /\ ping_timer' = KeepAlive
        /\ op' = wait /\ timer' = CommandTimeout /\ request' = p
        /\ timedout' = timedout
     \/ /\ StartYield /\ ping_timer' = ping_timer
        /\ \/ UNCHANGED <<toBroker, timedout>>
           \/ CanSend /\ Send(p) /\ timedout' = TRUE
  /\ UNCHANGED <<link, toClient, ping_outstanding, fail_count, silence, clientVars,
                 brokerVars, believed, answered, delivered, sessions>>

Subscribe(topic) == Command("SUBSCRIBE", "suback", topic)
Unsubscribe(topic) == Command("UNSUBSCRIBE", "unsuback", topic)

\* waitfor finds its timer expired: the command fails, and the reading stops.
CommandTimesOut ==
  /\ op \in {"suback", "unsuback"} /\ Expired(timer)
  /\ StartYield /\ timedout' = TRUE
  /\ UNCHANGED <<believed, answered, pingVars, clientVars, idVars, brokerVars, netVars,
                 delivered, sessions>>

-----------------------------------------------------------------------------
(* cycle(): one packet or none, then the keepalive of a connected client.  *)

\* The read gives up: its select timed out, or the socket fails.
NothingToRead == toClient = <<>>

\* Every topicFilter is a pointer to the one topic buffer of microgear_task.
TopicFilter(i) == topicbuf
Matching(topic) == {i \in 1..Len(handlers) : TopicFilter(i) = topic}

\* A mutation: no break after the handler that matched.
EveryReceiver(topic) == IF Matching(topic) = {} THEN {0} ELSE Matching(topic)

\* deliverMessage: the first handler that matches, the default one (0) if none does.
Receivers(topic) ==
  IF Matching(topic) = {} THEN {0}
  ELSE {i \in Matching(topic) : \A j \in Matching(topic) : i <= j}

\* The part of cycle before keepalive: a PUBLISH is delivered, a PINGRESP settles the
\* ping; PingOutstanding and Fails are what keepalive then finds.
Deliver(p) ==
  delivered' = IF p.type = "PUBLISH" THEN delivered + Cardinality(Receivers(p.topic))
               ELSE delivered

\* A mutation: a PINGRESP leaves the failures of earlier pings counted.
FailsKept(p) == fail_count
Fails(p) == IF p.type = "PINGRESP" THEN 0 ELSE fail_count
PingOutstanding(p) == IF p.type = "PINGRESP" THEN FALSE ELSE ping_outstanding

Due == isconnected /\ Expired(ping_timer)
GivesUp(p) == Due /\ PingOutstanding(p) /\ Fails(p) + 1 >= MaxFailAllowed

\* A mutation: a ping that cannot be sent does not count as sent.
KeepAliveIfSent(p) ==
  /\ ping_timer' = IF Due THEN KeepAlive ELSE ping_timer
  /\ fail_count' = IF Due /\ PingOutstanding(p) THEN Fails(p) + 1 ELSE Fails(p)
  /\ silence' = IF PingOutstanding(p) THEN silence ELSE 0
  /\ \/ /\ Due /\ ~PingOutstanding(p) /\ CanSend
        /\ Send(Signal("PINGREQ")) /\ ping_outstanding' = TRUE
     \/ UNCHANGED toBroker /\ ping_outstanding' = PingOutstanding(p)

\* A mutation: only a ping that cannot be sent counts as a failure.
KeepAliveCountsSends(p) ==
  /\ ping_timer' = IF Due THEN KeepAlive ELSE ping_timer
  /\ ping_outstanding' = (Due \/ PingOutstanding(p))
  /\ fail_count' = IF Due /\ PingOutstanding(p) /\ ~CanSend THEN Fails(p) + 1 ELSE Fails(p)
  /\ silence' = IF PingOutstanding(p) THEN silence ELSE 0
  /\ \/ Due /\ ~PingOutstanding(p) /\ CanSend /\ Send(Signal("PINGREQ"))
     \/ UNCHANGED toBroker

\* keepalive, when it does not give up: a ping is sent, or its lack of an answer is
\* counted, each time ping_timer expires.  A ping that cannot be sent counts as sent.
KeepAliveStep(p) ==
  /\ ping_timer' = IF Due THEN KeepAlive ELSE ping_timer
  /\ ping_outstanding' = (Due \/ PingOutstanding(p))
  /\ fail_count' = IF Due /\ PingOutstanding(p) THEN Fails(p) + 1 ELSE Fails(p)
  /\ silence' = IF PingOutstanding(p) THEN silence ELSE 0
  /\ \/ Due /\ ~PingOutstanding(p) /\ CanSend /\ Send(Signal("PINGREQ"))
     \/ UNCHANGED toBroker

\* keepalive gives up: ping_timer stays expired, and the failure stays counted (up to
\* MaxFailAllowed, above which counts behave alike).
GiveUpStep(p) ==
  /\ fail_count' = IF Fails(p) < MaxFailAllowed THEN Fails(p) + 1 ELSE MaxFailAllowed
  /\ ping_outstanding' = TRUE
  /\ UNCHANGED <<ping_timer, silence, toBroker>>

\* What the operation in progress makes of cycle's result r: the packet's type, or
\* DISCONNECTED, which only MQTTYield looks at.
Granted(p) ==
  /\ handlers' = IF Len(handlers) < MaxHandlers THEN Append(handlers, request.topic)
                 ELSE handlers
  /\ believed' = believed \cup {request.topic}
  /\ answered' = <<request, p>>
  /\ op' = "read" /\ UNCHANGED <<timer, request, isconnected, timedout>>

\* A mutation: the code of the SUBACK is not looked at.
DeniedUnseen(p) == Granted(p)

\* The broker refuses the subscription (granted QoS 0x80).
Denied(p) ==
  /\ StartYield /\ answered' = <<request, p>>
  /\ UNCHANGED <<believed, timedout, clientVars>>

Use(r, p) ==
  \/ /\ op = "connack" /\ r = "CONNACK"
     /\ isconnected' = TRUE /\ op' = "read"
     /\ UNCHANGED <<timer, request, handlers, ackVars>>
  \/ /\ op = "connack" /\ r = "REFUSED"
     /\ op' = "offline"
     /\ UNCHANGED <<timer, request, clientVars, ackVars>>
  \/ op = "suback" /\ r = "SUBACK" /\ Granted(p)
  \/ op = "suback" /\ r = "SUBFAIL" /\ Denied(p)
  \/ /\ op = "unsuback" /\ r = "UNSUBACK"
     /\ op' = "read" /\ answered' = <<request, p>>
     /\ believed' = believed \ {request.topic}
     /\ UNCHANGED <<timer, request, timedout, clientVars>>
  \/ /\ op = "yield" /\ r = "DISCONNECTED"
     /\ op' = "offline"
     /\ UNCHANGED <<timer, request, clientVars, ackVars>>
  \/ /\ <<op, r>> \notin {<<"connack", "CONNACK">>, <<"connack", "REFUSED">>,
                          <<"suback", "SUBACK">>, <<"suback", "SUBFAIL">>,
                          <<"unsuback", "UNSUBACK">>, <<"yield", "DISCONNECTED">>}
     /\ UNCHANGED <<opVars, clientVars, ackVars>>

Waiting == op \in {"connack", "suback", "unsuback", "yield"} /\ ~Expired(timer)

Handle(p) ==
  /\ Deliver(p)
  /\ IF GivesUp(p) THEN GiveUpStep(p) /\ Use("DISCONNECTED", p)
     ELSE KeepAliveStep(p) /\ Use(p.type, p)
  /\ UNCHANGED <<link, idVars, brokerVars, sessions>>

CyclePacket ==
  /\ Waiting /\ toClient # <<>>
  /\ toClient' = Tail(toClient)
  /\ Handle(Head(toClient))

CycleNothing ==
  /\ Waiting /\ NothingToRead
  /\ toClient' = toClient
  /\ Handle(Signal("NONE"))

-----------------------------------------------------------------------------
Cycle == CyclePacket \/ CycleNothing
ClientStep ==
  \/ Cycle \/ ConnectFails \/ Yield \/ YieldEnds \/ CommandTimesOut

Requests ==
  \E topic \in Topic : Publish(topic) \/ Subscribe(topic) \/ Unsubscribe(topic)

Environment ==
  LinkFallsSilent \/ LinkBreaks \/ BrokerHandles \/ BrokerPublishes

Next == Tick \/ Connect \/ ClientStep \/ Requests \/ Environment

Spec == Init /\ [][Next]_vars

\* Time passes and the task is scheduled; the broker and the link owe nothing.  Which
\* command the task takes, if any, is the application's choice: fairness does not
\* promise a Yield while commands succeed.  The task has a higher priority than the
\* application's: not every timeout runs out before it gets to a single cycle.
FairSpec ==
  Spec /\ WF_vars(Tick) /\ WF_vars(ClientStep \/ Requests) /\ SF_vars(Cycle)

-----------------------------------------------------------------------------
Packets == [type : {"CONNECT", "CONNACK", "REFUSED", "PUBLISH", "SUBSCRIBE", "SUBACK",
                    "SUBFAIL", "UNSUBSCRIBE", "UNSUBACK", "PINGREQ", "PINGRESP", "NONE"},
            id : 0..MaxPacketId, topic : Topic \cup {NoTopic},
            n : 0..(MaxCommand + MaxPublish)]

TypeOK ==
  /\ op \in Op /\ timer \in Int /\ request \in Packets
  /\ ping_timer \in -1..KeepAlive /\ ping_outstanding \in BOOLEAN
  /\ fail_count \in 0..MaxFailAllowed /\ isconnected \in BOOLEAN
  /\ next_packetid \in 0..MaxPacketId
  /\ op \in {"suback", "unsuback"} => request.id \in 1..MaxPacketId
  /\ handlers \in Seq(Topic) /\ Len(handlers) <= MaxHandlers
  /\ topicbuf \in Topic \cup {NoTopic}
  /\ link \in {"up", "silent", "broken"}
  /\ toBroker \in Seq(Packets) /\ toClient \in Seq(Packets)
  /\ subs \subseteq Topic /\ believed \subseteq Topic
  /\ answered \in Packets \X Packets /\ timedout \in BOOLEAN

(* keepalive gives a connection up only after a ping has stayed unanswered   *)
(* for MAX_FAIL_ALLOWED whole keepalive intervals, whatever commands, late   *)
(* answers and failed sends came between.                                    *)
NoFalseDisconnect ==
  [][op = "yield" /\ op' = "offline" => silence > MaxFailAllowed * KeepAlive]_vars

(* A connection that is broken is noticed: MQTTYield gives it up, although   *)
(* no read and no write that fails says so to microgear_task.                *)
BrokenLinkDetected == link = "broken" ~> op = "offline"

(* A link that fell silent is noticed too, unless the application goes on    *)
(* making requests for ever: each packet that TCP takes re-arms ping_timer   *)
(* (MQTTClient.c:44), so steady traffic hides the silence.                   *)
SilentLinkDetected ==
  \/ link = "silent" ~> (op = "offline" \/ link # "silent")
  \/ []<><<Requests>>_vars

(* The messages of a session reach a handler in the broker's order, none     *)
(* twice and none skipped, whichever operation reads them, and although      *)
(* several handlers can match: while the connection is up, what was          *)
(* published and not yet delivered is on its way.                            *)
OnTheWay == {i \in 1..Len(toClient) : toClient[i].type = "PUBLISH"}
DeliveredOnce ==
  op # "offline" =>
    /\ \A i \in OnTheWay :
         toClient[i].n = delivered + Cardinality({j \in OnTheWay : j <= i})
    /\ link = "up" => delivered + Cardinality(OnTheWay) = published

(* Until a command of the session that may have gone out ends without its    *)
(* answer, an answer is taken for the command it answers, and after each     *)
(* command the application and the broker agree on what is subscribed.       *)
SubscriptionsAgree ==
  ~timedout =>
    /\ answered[1].n = answered[2].n
    /\ op \in {"read", "yield"} => believed = subs

(* src/lib/Microgear/MQTTClient/MQTTClient.c:457 says of the packet id of    *)
(* an UNSUBACK: "should be the same as the packetid above".                  *)
UnsubackMatches ==
  [][op = "unsuback" /\ op' = "read" => answered'[2].id = request.id]_vars

(* src/lib/Microgear/MQTTClient/MQTTClient.h:71 says: "Message handlers are  *)
(* indexed by subscription topic".                                           *)
IndexedByTopic == \A i \in 1..Len(handlers) : TopicFilter(i) = handlers[i]
=============================================================================
