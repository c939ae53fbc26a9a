---------------------------- MODULE Subscriptions ----------------------------
(***************************************************************************)
(* What an application gets: microgear_on and the callback it registers    *)
(* for CONNECTED, the topics of its requests, and the subscriptions the    *)
(* broker keeps for a session, composed with the API, the queue and        *)
(* microgear_task of Microgear.  The application is the one of             *)
(* src/README.md: its CONNECTED callback subscribes to a topic; other      *)
(* requests are made at any time.                                          *)
(*                                                                         *)
(* Every step is a step of Microgear or leaves its variables alone, but    *)
(* for the bound on requests, which the callback's are not subject to.     *)
(* The session is clean: the broker begins each with no subscription.  It  *)
(* takes requests in the order in which they were sent, at any later time  *)
(* or never, and its answers arrive in the same order.  A command ends     *)
(* with the answer to it, with a late answer to an earlier one, for        *)
(* waitfor does not compare packet ids, or with a failure after which its  *)
(* request may still be carried out.  A packet of which only a part was    *)
(* sent, and what the broker makes of it, is left out.  disconnect is not  *)
(* called.                                                                 *)
(***************************************************************************)
EXTENDS MicrogearFifo

CONSTANTS
  Topic,        \* the topics of the application's requests
  OnConnected,  \* the topic its CONNECTED callback subscribes to
  Event,        \* the events it registers callbacks for
  MaxOn         \* bound: calls of microgear_on

ASSUME TopicAssumption == OnConnected \in Topic
ASSUME EventAssumption ==
  Event \subseteq {"message", "present", "absent", "connected", "error", "info"}

VARIABLES
  callbacks,  \* the events whose callback is set
  called,     \* is the task inside cb_connected, its request made?
  awaits,     \* has the command in hand been sent, its answer awaited?
  pending,    \* the numbers of the requests on their way to the broker; the lowest is first
  answers,    \* its answers on their way back; that with the lowest number is first
  subs,       \* the broker's subscriptions of the session
  asked,      \* the content, type and topic, of each message accepted since the reset
  failed,     \* history: the numbers of those whose command failed
  misled,     \* history: of those that succeeded with the answer to another
  unanswered, \* history: did a command end without its answer, and perhaps reach the broker?
  ons         \* history: counts the calls of microgear_on

callVars    == <<callbacks, called, ons>>
brokerVars  == <<pending, answers, subs>>
outcomeVars == <<failed, misled, unanswered>>
appVars == <<callVars, awaits, brokerVars, asked, outcomeVars>>
allVars == <<vars, appVars>>

Answer == [n : Nat, type : {"SUBACK", "SUBFAIL", "UNSUBACK"}]

SInit ==
  /\ Init
  /\ callbacks = {} /\ called = [t \in Task |-> FALSE] /\ ons = 0
  /\ awaits = FALSE /\ pending = {} /\ answers = {} /\ subs = {}
  /\ asked = <<>> /\ failed = {} /\ misled = {} /\ unanswered = FALSE

\* What the queue accepts in a step, if anything, is of this type and topic.
Asks(type, topic) ==
  asked' = IF accepted' > accepted THEN Append(asked, [type |-> type, topic |-> topic])
           ELSE asked

-----------------------------------------------------------------------------
(* The API and the callback.                                               *)

Ask(type, topic) ==
  /\ Request(type) /\ Asks(type, topic)
  /\ UNCHANGED <<callVars, awaits, brokerVars, outcomeVars>>

\* microgear_on: the callback is set.  For the two presence events, and only while
\* isConnected holds, their topic is subscribed to.
On(event) ==
  /\ ons < MaxOn /\ ons' = ons + 1
  /\ callbacks' = callbacks \cup {event}
  /\ \/ /\ event \in {"present", "absent"} /\ isconnected
        /\ Request("PSQ_SUBSCRIBE") /\ Asks("PSQ_SUBSCRIBE", event)
     \/ /\ ~(event \in {"present", "absent"} /\ isconnected)
        /\ UNCHANGED <<vars, asked>>
  /\ UNCHANGED <<called, awaits, brokerVars, outcomeVars>>

\* microgear_setAlias publishes to a topic of its own.
Alias(t) ==
  /\ SetAlias(t) /\ Asks("PSQ_PUBLISH", "@setalias")
  /\ UNCHANGED <<callVars, awaits, brokerVars, outcomeVars>>

\* cb_connected, when it is set, subscribes; then it returns.
CallbackAsks(t) ==
  /\ pc[t] = "callback" /\ "connected" \in callbacks /\ ~called[t]
  /\ called' = [called EXCEPT ![t] = TRUE]
  /\ Enqueue("PSQ_SUBSCRIBE") /\ Asks("PSQ_SUBSCRIBE", OnConnected)
  /\ UNCHANGED <<callbacks, ons, awaits, brokerVars, outcomeVars, clientVars, taskVars,
                 socketVars, handleVars, sentVars, pc>>

CallbackReturns(t) ==
  /\ "connected" \in callbacks => called[t]
  /\ Callback(t) /\ called' = [called EXCEPT ![t] = FALSE]
  /\ UNCHANGED <<callbacks, ons, awaits, brokerVars, asked, outcomeVars>>

-----------------------------------------------------------------------------
(* The broker.                                                             *)

\* The subscriptions after the broker carried out a request.
Applied(request) ==
  CASE request.type = "PSQ_SUBSCRIBE"   -> subs \cup {request.topic}
    [] request.type = "PSQ_UNSUBSCRIBE" -> subs \ {request.topic}
    [] OTHER                            -> subs

\* The packet that says so.
Ack(type) == IF type = "PSQ_SUBSCRIBE" THEN "SUBACK" ELSE "UNSUBACK"

\* The broker takes the first request that is on its way; it may refuse a subscription.
BrokerHandles ==
  \E n \in pending :
    /\ \A m \in pending : n <= m
    /\ pending' = pending \ {n}
    /\ \/ /\ subs' = Applied(asked[n])
          /\ answers' = answers \cup {[n |-> n, type |-> Ack(asked[n].type)]}
       \/ /\ asked[n].type = "PSQ_SUBSCRIBE" /\ subs' = subs
          /\ answers' = answers \cup {[n |-> n, type |-> "SUBFAIL"]}
    /\ UNCHANGED <<vars, callVars, awaits, asked, outcomeVars>>

-----------------------------------------------------------------------------
(* The session and its commands.                                           *)

InHand(t) == asked[msg[t].id]
Publishing(t) == InHand(t).type = "PSQ_PUBLISH"

\* MQTTSubscribe and MQTTUnsubscribe up to waitfor.
Sends(t) ==
  /\ pc[t] = "command" /\ isconnected /\ ~Publishing(t) /\ ~awaits
  /\ awaits' = TRUE /\ pending' = pending \cup {msg[t].id}
  /\ UNCHANGED <<vars, callVars, answers, subs, asked, outcomeVars>>

\* cycle reads the next answer.
Reads(a) ==
  /\ \A b \in answers : a.n <= b.n
  /\ answers' = answers \ {a}

\* It drops one that nobody waits for; and any, when keepalive fails in the same cycle.
Drops(t) ==
  /\ pc[t] = "yield" \/ (pc[t] = "command" /\ awaits)
  /\ \E a \in answers : Reads(a)
  /\ UNCHANGED <<vars, callVars, awaits, pending, subs, asked, outcomeVars>>

\* A mutation: a SUBACK that refuses is taken for a success.
SucceedsRefused(t) ==
  /\ CommandSucceeds(t)
  /\ \/ Publishing(t) /\ UNCHANGED <<answers, misled>>
     \/ \E a \in answers :
          /\ awaits /\ a.type \in {Ack(InHand(t).type), "SUBFAIL"} /\ Reads(a)
          /\ misled' = IF a.n = msg[t].id THEN misled ELSE misled \cup {msg[t].id}
  /\ awaits' = FALSE
  /\ UNCHANGED <<callVars, pending, subs, asked, failed, unanswered>>

\* A publish with QOS0 needs no answer; waitfor takes the next packet of the type.
Succeeds(t) ==
  /\ CommandSucceeds(t)
  /\ \/ Publishing(t) /\ UNCHANGED <<answers, misled>>
     \/ \E a \in answers :
          /\ awaits /\ a.type = Ack(InHand(t).type) /\ Reads(a)
          /\ misled' = IF a.n = msg[t].id THEN misled ELSE misled \cup {msg[t].id}
  /\ awaits' = FALSE
  /\ UNCHANGED <<callVars, pending, subs, asked, failed, unanswered>>

\* MQTTSubscribe takes a SUBACK that refuses.
Denied(t) ==
  /\ CommandFails(t) /\ wire' # wire
  /\ \E a \in answers :
       /\ awaits /\ a.type = "SUBFAIL" /\ InHand(t).type = "PSQ_SUBSCRIBE" /\ Reads(a)
       /\ unanswered' = (unanswered \/ a.n # msg[t].id)
  /\ awaits' = FALSE /\ failed' = failed \cup {msg[t].id}
  /\ UNCHANGED <<callVars, pending, subs, asked, misled>>

\* Not sent; sent, but sendPacket reports a failure; or waitfor timed out.
Fails(t) ==
  /\ CommandFails(t) /\ failed' = failed \cup {msg[t].id}
  /\ \/ /\ ~awaits /\ wire' = wire
        /\ UNCHANGED <<pending, unanswered>>
     \/ /\ ~awaits /\ wire' # wire
        /\ pending' = IF Publishing(t) THEN pending ELSE pending \cup {msg[t].id}
        /\ unanswered' = (unanswered \/ ~Publishing(t))
     \/ /\ awaits /\ wire' # wire
        /\ unanswered' = TRUE /\ pending' = pending
  /\ awaits' = FALSE
  /\ UNCHANGED <<callVars, answers, subs, asked, misled>>

\* What was asked before the session and is no longer queued leaves the history too.
Forgotten == [type |-> "PSQ_PUBLISH", topic |-> "forgotten"]
Queued(k) == \E i \in 1..Len(ps_queue) : ps_queue[i].id = k
Forgets(t) ==
  /\ Reset(t)
  /\ asked' = [k \in DOMAIN asked |-> IF Queued(k)' THEN asked[k] ELSE Forgotten]
  /\ UNCHANGED <<callVars, awaits, brokerVars, outcomeVars>>

\* The session is clean: it ends with its connection, and with it the subscriptions
\* and what is on its way; so does the history of its commands.
Closes(t) ==
  /\ Close(t)
  /\ subs' = {} /\ pending' = {} /\ answers' = {}
  /\ failed' = {} /\ misled' = {} /\ unanswered' = FALSE
  /\ UNCHANGED <<callVars, awaits, asked>>

Other(t) ==
  /\ \/ TaskStart(t) \/ Dial(t) \/ NewClient(t) \/ MqttConnect(t) \/ Refused(t)
     \/ Delay(t) \/ End(t) \/ Delete(t) \/ ReadQueue(t) \/ QueueEmpty(t) \/ Yield(t)
  /\ UNCHANGED appVars

Connecting ==
  /\ ConnectCheck \/ (\E t \in Task : Create(t)) \/ CreateFails
  /\ UNCHANGED appVars

Elsewhere == Others /\ UNCHANGED appVars

Waits(t) == WifiAndToken(t) /\ UNCHANGED appVars

STaskStep(t) ==
  \/ Alias(t) \/ CallbackAsks(t) \/ CallbackReturns(t)
  \/ Forgets(t) \/ Sends(t) \/ Drops(t) \/ Succeeds(t) \/ Denied(t) \/ Fails(t)
  \/ Closes(t) \/ Other(t)

SNext ==
  \/ \E type \in RequestType, topic \in Topic : Ask(type, topic)
  \/ \E event \in Event : On(event)
  \/ Connecting \/ Elsewhere \/ BrokerHandles
  \/ \E t \in Task : STaskStep(t) \/ Waits(t)

SSafe == SInit /\ [][SNext]_allVars

\* As in Microgear: every task is scheduled.
SSpec == SSafe /\ \A t \in Task : WF_allVars(STaskStep(t))

-----------------------------------------------------------------------------
(* In a session, what the broker has of a topic is the last word on it: the  *)
(* latest of the requests that were made since the session's reset, left the *)
(* queue and concern the topic decides whether it is subscribed, unless its  *)
(* command failed, was taken for done on the answer to another, or waits for *)
(* its answer; requests that were timed out earlier and are carried out late *)
(* do not matter, and what was asked before the reset decides nothing.  And  *)
(* no command is taken for done on the answer to another as long as every    *)
(* command of the session that the broker may have got has had its answer.   *)
Settled(t, topic) ==
  {k \in (floor[t] + 1)..accepted :
     /\ asked[k].topic = topic /\ asked[k].type # "PSQ_PUBLISH"
     /\ ~Queued(k) /\ msg[t].id # k}
Final(S) == CHOOSE k \in S : \A j \in S : j <= k
Unsettled(t, topic) == awaits /\ InHand(t).topic = topic
LastWordWins ==
  \A t \in Task : pc[t] \in Draining =>
    /\ misled # {} => unanswered
    /\ \A topic \in Topic \cup {"present", "absent"} : ~Unsettled(t, topic) =>
         LET S == Settled(t, topic) IN
         IF S = {} THEN topic \notin subs
         ELSE Final(S) \in failed \cup misled
                \/ (topic \in subs) = (asked[Final(S)].type = "PSQ_SUBSCRIBE")

(* A request that is queued while the task is online, the one that the       *)
(* CONNECTED callback makes in each session among them, is asked of the      *)
(* broker and its command ends, whatever fails and is requested in between;  *)
(* or the session ends first.                                                *)
Number == 1..(MaxAccepted + 2 * MaxSession)
RequestsSettle ==
  \A t \in Task, k \in Number :
    (pc[t] \in Draining /\ Queued(k)) ~> (pc[t] \notin Online \/ ~(Queued(k) \/ msg[t].id = k))
=============================================================================
