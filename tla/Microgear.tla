------------------------------ MODULE Microgear ------------------------------
(***************************************************************************)
(* The core of the library, src/lib/Microgear/Microgear.c: the API that    *)
(* application tasks call (connect, disconnect, publish, subscribe,        *)
(* unsubscribe), the bounded queue ps_queue that carries their requests,   *)
(* and microgear_task, the FreeRTOS task that owns the broker connection   *)
(* and drains the queue.                                                   *)
(*                                                                         *)
(* One Microgear object is modelled.  Its fields mqtttask, appid, network, *)
(* client and ps_queue are shared by the API and by every microgear_task   *)
(* that was created for it; activeTask, msg, my_socket (the struct Network *)
(* on the task's stack) and the program counter pc are the task's own.     *)
(* Steps of different tasks interleave between any two of the actions; an  *)
(* action spans at most one access to shared state or one call that can    *)
(* block.  One application thread calls connect and disconnect; any number *)
(* of threads and callbacks make requests.                                 *)
(*                                                                         *)
(* The descriptors of lwIP are one pool for the broker connection, for the *)
(* HTTP exchanges by which a task gets its token and the time              *)
(* (AuthClient.c), and for other owners: the application's sockets and the *)
(* exchange of microgear_revokeToken.  What a token is, and what an        *)
(* exchange says, is left to AccessToken.tla.                              *)
(***************************************************************************)
EXTENDS Integers, Sequences, FiniteSets

CONSTANTS
  Task,           \* the tasks FreeRTOS can hold; an identity is reused after vTaskDelete
  NoTask,         \* the NULL handle
  QueueLen,       \* PUBSUBQUEUE_LENGTH
  Fd,             \* socket descriptors of lwIP
  RequestType,    \* the kinds of request the application makes
  HasAlias,       \* is mg->alias a non-empty string?
  MaxAccepted,    \* bound: requests are made until this many messages were queued
  MaxDisconnect,  \* bound: calls of microgear_disconnect
  MaxSession,     \* bound: sessions the broker grants
  MaxOthers       \* bound: descriptors other owners hold at a time

ASSUME NoTaskAssumption == NoTask \notin Task
ASSUME TaskAssumption == IsFiniteSet(Task)
ASSUME QueueLenAssumption == QueueLen \in Nat \ {0}
ASSUME FdAssumption == Fd \subseteq Nat
ASSUME RequestTypeAssumption ==
  RequestType \subseteq {"PSQ_PUBLISH", "PSQ_SUBSCRIBE", "PSQ_UNSUBSCRIBE"}
ASSUME BoundAssumption ==
  /\ MaxAccepted \in Nat /\ MaxDisconnect \in Nat /\ MaxSession \in Nat
  /\ MaxOthers \in Nat
ASSUME AliasAssumption == HasAlias \in BOOLEAN

VARIABLES
  mqtttask,     \* mg->mqtttask: the handle of the task the API knows
  appid,        \* has microgear_connect set mg->appid?
  ps_queue,     \* mg->ps_queue
  network,      \* mg->network: whose struct Network it points to
  isconnected,  \* mg->client.isconnected
  ipstack,      \* mg->client.ipstack: whose struct Network it points to
  api,          \* where the thread that calls connect and disconnect is
  pc,           \* where each microgear_task is
  activeTask,   \* its local activeTask
  msg,          \* its local msg: the queue message in its hands
  my_socket,    \* network.my_socket of its stack frame, -1 when unset
  authclient,   \* the socket of the task's HTTP exchange, -1 when there is none
  open,         \* the descriptors lwIP holds open
  others,       \* those that other owners opened and will close
  leaked,       \* history: those whose number connectAuthServer lost
  accepted,     \* history: how many messages the queue accepted; numbers them
  wire,         \* history: the requests written to a broker connection
  floor,        \* history: accepted when the task last reset the queue
  disconnects,  \* history: how often disconnect cleared the handle
  sessions      \* history: how many sessions the broker granted

queueVars   == <<ps_queue, accepted>>
clientVars  == <<network, isconnected, ipstack>>
taskVars    == <<activeTask, msg>>
socketVars  == <<my_socket, authclient, open, others, leaked>>
handleVars  == <<mqtttask, appid, api, disconnects>>
sentVars    == <<wire, floor, sessions>>
vars == <<queueVars, clientVars, taskVars, socketVars, handleVars, sentVars, pc>>

PubSubQueueMsg ==
  [type : {"PSQ_PUBLISH", "PSQ_SUBSCRIBE", "PSQ_UNSUBSCRIBE", "PSQ_DISCONNECT"}, id : Nat]
\* The content of msg between two commands, which nothing reads.
NoMsg == [type |-> "PSQ_PUBLISH", id |-> 0]
Sent == [id : Nat, task : Task]

Label == {"none", "start", "wifi", "token", "exchange", "dial", "newclient",
          "mqttconnect", "reset", "alias", "callback", "read", "command", "yield",
          "refused", "close", "delay", "end", "delete"}
\* Inside the session loop, from the grant of the session to its end.
Online == {"reset", "alias", "callback", "read", "command", "yield"}
\* Between a successful ConnectNetwork and its DisconnectNetwork.
HoldsSocket == Online \cup {"newclient", "mqttconnect", "refused", "close"}

\* The tasks that still execute code of microgear_task before its last two lines.
Running == {t \in Task : pc[t] \notin {"none", "delete"}}

Init ==
  /\ mqtttask = NoTask /\ network = NoTask /\ ipstack = NoTask
  /\ appid = FALSE /\ isconnected = FALSE /\ api = "idle"
  /\ ps_queue = <<>> /\ wire = <<>>
  /\ open = {} /\ others = {} /\ leaked = {}
  /\ pc = [t \in Task |-> "none"]
  /\ activeTask = [t \in Task |-> FALSE]
  /\ msg = [t \in Task |-> NoMsg]
  /\ my_socket = [t \in Task |-> -1] /\ authclient = [t \in Task |-> -1]
  /\ floor = [t \in Task |-> 0]
  /\ accepted = 0 /\ disconnects = 0 /\ sessions = 0

-----------------------------------------------------------------------------
(* The API, called by application threads and by callbacks.                *)

\* A mutation: the queue is never found full.
EnqueueUnbounded(type) ==
  /\ accepted' = accepted + 1
  /\ ps_queue' = Append(ps_queue, [type |-> type, id |-> accepted + 1])

\* xQueueSend with timeout 0: appended, or dropped when the queue is full.
Enqueue(type) ==
  IF Len(ps_queue) < QueueLen
  THEN /\ accepted' = accepted + 1
       /\ ps_queue' = Append(ps_queue, [type |-> type, id |-> accepted + 1])
  ELSE UNCHANGED queueVars

\* microgear_publish, _subscribe, _unsubscribe: they read mg->appid, which is
\* assigned by the first microgear_connect.
Request(type) ==
  /\ appid
  /\ accepted < MaxAccepted
  /\ Enqueue(type)
  /\ UNCHANGED <<clientVars, taskVars, socketVars, handleVars, sentVars, pc>>

\* A mutation: connect does not look at the handle.
ConnectAlways ==
  /\ api = "idle"
  /\ appid' = TRUE /\ api' = "create"
  /\ UNCHANGED <<mqtttask, disconnects, queueVars, clientVars, taskVars,
                 socketVars, sentVars, pc>>

\* microgear_connect, its test of the handle and the assignment of appid.
ConnectCheck ==
  /\ api = "idle" /\ mqtttask = NoTask
  /\ appid' = TRUE /\ api' = "create"
  /\ UNCHANGED <<mqtttask, disconnects, queueVars, clientVars, taskVars,
                 socketVars, sentVars, pc>>

\* xTaskCreate writes the handle and makes the task ready in one critical section.
Create(t) ==
  /\ api = "create" /\ pc[t] = "none"
  /\ api' = "idle" /\ mqtttask' = t
  /\ pc' = [pc EXCEPT ![t] = "start"]
  /\ UNCHANGED <<appid, disconnects, queueVars, clientVars, taskVars,
                 socketVars, sentVars>>

\* xTaskCreate finds no memory: its result is ignored, the handle stays NULL.
CreateFails ==
  /\ api = "create" /\ api' = "idle"
  /\ UNCHANGED <<mqtttask, appid, disconnects, queueVars, clientVars, taskVars,
                 socketVars, sentVars, pc>>

\* microgear_disconnect, its xQueueSend: the result is ignored.
DisconnectSend ==
  /\ api = "idle" /\ disconnects < MaxDisconnect
  /\ api' = "detach"
  /\ Enqueue("PSQ_DISCONNECT")
  /\ UNCHANGED <<mqtttask, appid, disconnects, clientVars, taskVars,
                 socketVars, sentVars, pc>>

\* microgear_disconnect, mg->mqtttask = NULL, whether or not the send succeeded.
DisconnectDetach ==
  /\ api = "detach" /\ api' = "idle"
  /\ mqtttask' = NoTask
  /\ disconnects' = disconnects + 1
  /\ UNCHANGED <<appid, queueVars, clientVars, taskVars, socketVars, sentVars, pc>>

-----------------------------------------------------------------------------
(* microgear_task, outside a session.                                      *)

Goto(t, label) == pc' = [pc EXCEPT ![t] = label]

\* The locals, the shared client := DefaultClient, the shared network := own frame.
TaskStart(t) ==
  /\ pc[t] = "start" /\ Goto(t, "wifi")
  /\ activeTask' = [activeTask EXCEPT ![t] = TRUE]
  /\ my_socket' = [my_socket EXCEPT ![t] = -1]
  /\ network' = t /\ isconnected' = FALSE /\ ipstack' = NoTask
  /\ UNCHANGED <<msg, authclient, open, others, leaked, queueVars, handleVars, sentVars>>

\* The wait for wifi, which may last for ever.
WaitForWifi(t) ==
  /\ pc[t] = "wifi" /\ Goto(t, "token")
  /\ UNCHANGED <<queueVars, clientVars, taskVars, socketVars, handleVars, sentVars>>

\* An HTTP exchange of getAccessToken or getServerTime begins: connectAuthServer has a
\* connected socket.  getHTTPResponse reads from it without a timeout.
AuthConnects(t) ==
  /\ pc[t] = "token" /\ Goto(t, "exchange")
  /\ \E fd \in Fd \ open :
       open' = open \cup {fd} /\ authclient' = [authclient EXCEPT ![t] = fd]
  /\ UNCHANGED <<my_socket, others, leaked, queueVars, clientVars, taskVars, handleVars,
                 sentVars>>

\* Its connect() fails: connectAuthServer returns -1, its socket stays open, and the
\* caller closes -1.
AuthFails(t) ==
  /\ pc[t] = "token" /\ pc' = pc
  /\ \E fd \in Fd \ open : open' = open \cup {fd} /\ leaked' = leaked \cup {fd}
  /\ UNCHANGED <<my_socket, authclient, others, queueVars, clientVars, taskVars, handleVars,
                 sentVars>>

\* The exchange is over, answered or not.
AuthCloses(t) ==
  /\ pc[t] = "exchange" /\ Goto(t, "token")
  /\ open' = open \ {authclient[t]}
  /\ authclient' = [authclient EXCEPT ![t] = -1]
  /\ UNCHANGED <<my_socket, others, leaked, queueVars, clientVars, taskVars, handleVars,
                 sentVars>>

\* A token, a clock and the credentials, after any number of exchanges; the task ends
\* when getAccessToken fails.
TokenDone(t) ==
  /\ pc[t] = "token"
  /\ \E label \in {"dial", "end"} : Goto(t, label)
  /\ UNCHANGED <<queueVars, clientVars, taskVars, socketVars, handleVars, sentVars>>

WifiAndToken(t) ==
  WaitForWifi(t) \/ AuthConnects(t) \/ AuthFails(t) \/ AuthCloses(t) \/ TokenDone(t)

\* A mutation: a connect() that fails leaves its descriptor open.
DialLeaking(t) ==
  /\ pc[t] = "dial"
  /\ \/ \E fd \in Fd \ open :
          /\ my_socket' = [my_socket EXCEPT ![network] = fd]
          /\ open' = open \cup {fd}
          /\ \E label \in {"newclient", "delay"} : Goto(t, label)
     \/ /\ Goto(t, "delay")
        /\ UNCHANGED <<my_socket, open>>
  /\ UNCHANGED <<authclient, others, leaked, queueVars, clientVars, taskVars, handleVars,
                 sentVars>>

\* ConnectNetwork(mg->network, ...): connected; connect() failed, the descriptor
\* is closed and stays in my_socket; no socket; the host's name does not resolve.
Dial(t) ==
  /\ pc[t] = "dial"
  /\ \/ \E fd \in Fd \ open :
          /\ my_socket' = [my_socket EXCEPT ![network] = fd]
          /\ \/ open' = open \cup {fd} /\ Goto(t, "newclient")
             \/ open' = open /\ Goto(t, "delay")
     \/ /\ my_socket' = [my_socket EXCEPT ![network] = -1]
        /\ open' = open /\ Goto(t, "delay")
     \/ UNCHANGED <<my_socket, open>> /\ Goto(t, "delay")
  /\ UNCHANGED <<authclient, others, leaked, queueVars, clientVars, taskVars, handleVars,
                 sentVars>>

\* NewMQTTClient(&mg->client, mg->network, ...).
NewClient(t) ==
  /\ pc[t] = "newclient" /\ Goto(t, "mqttconnect")
  /\ isconnected' = FALSE /\ ipstack' = network
  /\ UNCHANGED <<network, queueVars, taskVars, socketVars, handleVars, sentVars>>

\* MQTTConnect: granted, or anything else (a refusal, a paused token, a timeout,
\* a client that is connected already).
MqttConnect(t) ==
  /\ pc[t] = "mqttconnect"
  /\ \/ /\ ~isconnected /\ sessions < MaxSession
        /\ isconnected' = TRUE /\ sessions' = sessions + 1
        /\ Goto(t, "reset")
     \/ /\ Goto(t, "refused")
        /\ UNCHANGED <<isconnected, sessions>>
  /\ UNCHANGED <<network, ipstack, wire, floor, queueVars, taskVars, socketVars,
                 handleVars>>

\* The branch for a refused connection waits five seconds.
Refused(t) ==
  /\ pc[t] = "refused" /\ Goto(t, "close")
  /\ UNCHANGED <<queueVars, clientVars, taskVars, socketVars, handleVars, sentVars>>

\* A frame is on a deleted task's stack, or not yet set up: its socket is any value.
SocketOf(n) == IF pc[n] \in {"none", "start"} THEN Fd \cup {-1} ELSE {my_socket[n]}

\* DisconnectNetwork(mg->network).
Close(t) ==
  /\ pc[t] = "close" /\ Goto(t, "delay")
  /\ \E fd \in SocketOf(network) : open' = open \ {fd}
  /\ my_socket' = [my_socket EXCEPT ![network] = -1]
  /\ UNCHANGED <<authclient, others, leaked, queueVars, clientVars, taskVars, handleVars,
                 sentVars>>

\* The delay of one second, then the test of activeTask.
Delay(t) ==
  /\ pc[t] = "delay"
  /\ Goto(t, IF activeTask[t] THEN "wifi" ELSE "end")
  /\ UNCHANGED <<queueVars, clientVars, taskVars, socketVars, handleVars, sentVars>>

\* A mutation: the handle is not cleared at the end of the task.
EndKeepsHandle(t) ==
  /\ pc[t] = "end" /\ Goto(t, "delete")
  /\ UNCHANGED <<queueVars, clientVars, taskVars, socketVars, handleVars, sentVars>>

\* mg->mqtttask = NULL, whichever task the handle names.
End(t) ==
  /\ pc[t] = "end" /\ Goto(t, "delete")
  /\ mqtttask' = NoTask
  /\ UNCHANGED <<appid, api, disconnects, queueVars, clientVars, taskVars,
                 socketVars, sentVars>>

\* vTaskDelete(NULL): the task's locals are gone.
Delete(t) ==
  /\ pc[t] = "delete" /\ Goto(t, "none")
  /\ activeTask' = [activeTask EXCEPT ![t] = FALSE]
  /\ my_socket' = [my_socket EXCEPT ![t] = -1]
  /\ floor' = [floor EXCEPT ![t] = 0]
  /\ UNCHANGED <<msg, authclient, open, others, leaked, wire, sessions, queueVars,
                 clientVars, handleVars>>

-----------------------------------------------------------------------------
(* microgear_task, in a session.                                           *)

\* A mutation: the requests of an earlier session stay queued.
KeepQueue(t) ==
  /\ pc[t] = "reset" /\ Goto(t, "alias")
  /\ floor' = [floor EXCEPT ![t] = accepted]
  /\ UNCHANGED <<wire, sessions, queueVars, clientVars, taskVars, socketVars,
                 handleVars>>

\* xQueueReset: what was queued before the session is forgotten.
Reset(t) ==
  /\ pc[t] = "reset" /\ Goto(t, "alias")
  /\ ps_queue' = <<>>
  /\ floor' = [floor EXCEPT ![t] = accepted]
  /\ UNCHANGED <<accepted, wire, sessions, clientVars, taskVars, socketVars,
                 handleVars>>

\* microgear_setAlias queues a publish when there is an alias.
SetAlias(t) ==
  /\ pc[t] = "alias" /\ Goto(t, "callback")
  /\ IF HasAlias THEN Enqueue("PSQ_PUBLISH") ELSE UNCHANGED queueVars
  /\ UNCHANGED <<clientVars, taskVars, socketVars, handleVars, sentVars>>

\* cb_connected; the requests it makes are Request steps.
Callback(t) ==
  /\ pc[t] = "callback" /\ Goto(t, "read")
  /\ UNCHANGED <<queueVars, clientVars, taskVars, socketVars, handleVars, sentVars>>

\* A mutation: a DISCONNECT stops the reading of the queue and nothing else.
ReadIgnoringDisconnect(t) ==
  /\ pc[t] = "read" /\ ps_queue # <<>>
  /\ ps_queue' = Tail(ps_queue)
  /\ IF Head(ps_queue).type = "PSQ_DISCONNECT"
     THEN msg' = msg /\ Goto(t, "yield")
     ELSE msg' = [msg EXCEPT ![t] = Head(ps_queue)] /\ Goto(t, "command")
  /\ UNCHANGED <<activeTask, accepted, clientVars, socketVars, handleVars, sentVars>>

\* A mutation: the message is looked at and left in the queue (xQueuePeek).
ReadPeeking(t) ==
  /\ pc[t] = "read" /\ ps_queue # <<>>
  /\ Head(ps_queue).type # "PSQ_DISCONNECT"
  /\ msg' = [msg EXCEPT ![t] = Head(ps_queue)]
  /\ Goto(t, "command")
  /\ UNCHANGED <<activeTask, queueVars, clientVars, socketVars, handleVars, sentVars>>

\* A mutation: the queue is read as a stack.
ReadNewest(t) ==
  /\ pc[t] = "read" /\ ps_queue # <<>>
  /\ msg' = [msg EXCEPT ![t] = ps_queue[Len(ps_queue)]]
  /\ ps_queue' = SubSeq(ps_queue, 1, Len(ps_queue) - 1)
  /\ Goto(t, "command")
  /\ UNCHANGED <<activeTask, accepted, clientVars, socketVars, handleVars, sentVars>>

\* xQueueReceive finds a message: the task holds it, in msg, until its command ends.
\* A DISCONNECT ends the session and the task.
ReadQueue(t) ==
  /\ pc[t] = "read" /\ ps_queue # <<>>
  /\ ps_queue' = Tail(ps_queue)
  /\ \/ /\ Head(ps_queue).type = "PSQ_DISCONNECT"
        /\ activeTask' = [activeTask EXCEPT ![t] = FALSE]
        /\ msg' = msg /\ Goto(t, "yield")
     \/ /\ Head(ps_queue).type # "PSQ_DISCONNECT"
        /\ msg' = [msg EXCEPT ![t] = Head(ps_queue)]
        /\ activeTask' = activeTask /\ Goto(t, "command")
  /\ UNCHANGED <<accepted, clientVars, socketVars, handleVars, sentVars>>

\* A mutation: stopReadQueue may keep the value a failed command gave it.
QueueUnread(t) ==
  /\ pc[t] = "read" /\ Goto(t, "yield")
  /\ UNCHANGED <<queueVars, clientVars, taskVars, socketVars, handleVars, sentVars>>

\* xQueueReceive finds none.
QueueEmpty(t) ==
  /\ pc[t] = "read" /\ ps_queue = <<>>
  /\ Goto(t, "yield")
  /\ UNCHANGED <<queueVars, clientVars, taskVars, socketVars, handleVars, sentVars>>

Transmit(t) == wire' = Append(wire, [id |-> msg[t].id, task |-> t])
Release(t) == msg' = [msg EXCEPT ![t] = NoMsg]

\* MQTTPublish, MQTTSubscribe or MQTTUnsubscribe returns SUCCESS.
CommandSucceeds(t) ==
  /\ pc[t] = "command" /\ isconnected
  /\ Transmit(t) /\ Release(t) /\ Goto(t, "read")
  /\ UNCHANGED <<activeTask, floor, sessions, queueVars, clientVars, socketVars,
                 handleVars>>

\* A mutation: the request whose command failed goes back into the queue.
CommandRetries(t) ==
  /\ pc[t] = "command" /\ Release(t) /\ Goto(t, "yield")
  /\ \/ wire' = wire
     \/ isconnected /\ Transmit(t)
  /\ ps_queue' = IF Len(ps_queue) < QueueLen THEN Append(ps_queue, msg[t]) ELSE ps_queue
  /\ UNCHANGED <<accepted, activeTask, floor, sessions, clientVars, socketVars,
                 handleVars>>

\* It returns anything else: the message is gone, and the reading stops.  The request
\* may have been written before the wait for its acknowledgement failed, or by a send
\* in parts, after which sendPacket reports a failure.
CommandFails(t) ==
  /\ pc[t] = "command" /\ Release(t) /\ Goto(t, "yield")
  /\ \/ wire' = wire
     \/ isconnected /\ Transmit(t)
  /\ UNCHANGED <<activeTask, floor, sessions, queueVars, clientVars, socketVars,
                 handleVars>>

\* MQTTYield; cycle reports DISCONNECTED only for a client that is connected.
Yield(t) ==
  /\ pc[t] = "yield"
  /\ \/ isconnected /\ Goto(t, "close")
     \/ Goto(t, IF activeTask[t] THEN "read" ELSE "close")
  /\ UNCHANGED <<queueVars, clientVars, taskVars, socketVars, handleVars, sentVars>>

-----------------------------------------------------------------------------
(* The other owners of descriptors.                                        *)

OthersOpen ==
  /\ Cardinality(others) < MaxOthers
  /\ \E fd \in Fd \ open : open' = open \cup {fd} /\ others' = others \cup {fd}
  /\ UNCHANGED <<my_socket, authclient, leaked, queueVars, clientVars, taskVars,
                 handleVars, sentVars, pc>>

OthersClose ==
  /\ \E fd \in others : open' = open \ {fd} /\ others' = others \ {fd}
  /\ UNCHANGED <<my_socket, authclient, leaked, queueVars, clientVars, taskVars,
                 handleVars, sentVars, pc>>

\* microgear_revokeToken asks connectAuthServer too, and its connect() fails.
RevokeFails ==
  /\ \E fd \in others : others' = others \ {fd} /\ leaked' = leaked \cup {fd}
  /\ UNCHANGED <<my_socket, authclient, open, queueVars, clientVars, taskVars,
                 handleVars, sentVars, pc>>

-----------------------------------------------------------------------------
Api ==
  \/ \E type \in RequestType : Request(type)
  \/ ConnectCheck \/ (\E t \in Task : Create(t)) \/ CreateFails
  \/ DisconnectSend \/ DisconnectDetach

Others == OthersOpen \/ OthersClose \/ RevokeFails

\* Steps whose every call returns: each has a timeout of its own.
TaskStep(t) ==
  \/ TaskStart(t) \/ Dial(t) \/ NewClient(t) \/ MqttConnect(t) \/ Refused(t)
  \/ Close(t) \/ Delay(t) \/ End(t) \/ Delete(t)
  \/ Reset(t) \/ SetAlias(t) \/ Callback(t) \/ ReadQueue(t) \/ QueueEmpty(t)
  \/ CommandSucceeds(t) \/ CommandFails(t) \/ Yield(t)

Next == Api \/ Others \/ \E t \in Task : TaskStep(t) \/ WifiAndToken(t)

Spec == Init /\ [][Next]_vars

\* The scheduler runs every ready task.  The wait for wifi and an HTTP exchange may last
\* for ever, and nobody has to call the API.  (Every TaskStep moves its task: pc stands
\* for vars.)
FairSpec == Spec /\ \A t \in Task : WF_pc(TaskStep(t))

-----------------------------------------------------------------------------
TypeOK ==
  /\ mqtttask \in Task \cup {NoTask}
  /\ network \in Task \cup {NoTask} /\ ipstack \in Task \cup {NoTask}
  /\ appid \in BOOLEAN /\ isconnected \in BOOLEAN
  /\ api \in {"idle", "create", "detach"}
  /\ ps_queue \in Seq(PubSubQueueMsg) /\ Len(ps_queue) <= QueueLen
  /\ pc \in [Task -> Label]
  /\ activeTask \in [Task -> BOOLEAN]
  /\ msg \in [Task -> PubSubQueueMsg]
  /\ my_socket \in [Task -> Fd \cup {-1}] /\ authclient \in [Task -> Fd \cup {-1}]
  /\ open \subseteq Fd /\ others \subseteq Fd /\ leaked \subseteq Fd
  /\ wire \in Seq(Sent) /\ floor \in [Task -> Nat]
  /\ accepted \in Nat /\ disconnects \in Nat /\ sessions \in Nat

(* The handle never dangles: the task it names has not cleared it yet, so    *)
(* connect never refuses because of a task that is gone (Microgear.c:237).   *)
HandleLive == mqtttask # NoTask => mqtttask \in Running

(* Tasks nobody holds a handle of exist only because disconnect forgot one   *)
(* that was still running; each call accounts for at most one, and without a *)
(* call there is at most one task.                                           *)
OrphanBound == Cardinality(Running \ {mqtttask}) <= disconnects

(* However many tasks drain the queue, a request is written at most once: a  *)
(* failed command is never retried, and no two tasks get the same message.   *)
AtMostOnce ==
  \A i, j \in 1..Len(wire) : wire[i].id = wire[j].id => i = j

(* A task writes requests in the order in which the queue accepted them,     *)
(* across its failures, reconnections and the other tasks' receives.         *)
TaskOrder ==
  \A i, j \in 1..Len(wire) :
    i < j /\ wire[i].task = wire[j].task => wire[i].id < wire[j].id

(* No request is written in a session that began, for its task, after the    *)
(* request was accepted: the reset discards what an application asked while  *)
(* offline, and another task's hands cannot bring it back.                   *)
FreshWrite(t) == wire' # wire /\ wire'[Len(wire')].task = t
                   => wire'[Len(wire')].id > floor[t]
NoStaleWrite == [][\A t \in Task : FreshWrite(t)]_vars

(* As long as disconnect was never called: an online task runs on its own    *)
(* open socket and the shared client says so; nobody closes a descriptor of  *)
(* another owner, whose number lwIP may have given out before; and of the    *)
(* descriptors that are open the library owns one at most, that of the task  *)
(* between ConnectNetwork and DisconnectNetwork or in an HTTP exchange.  All *)
(* others are lost: connectAuthServer leaks one whenever its connect() fails *)
(* (AuthClient.c:130-132), until lwIP has none left; nothing else does.      *)
Held(t) ==
  CASE pc[t] \in HoldsSocket -> {my_socket[t]}
    [] pc[t] = "exchange"    -> {authclient[t]}
    [] OTHER                 -> {}
Ours == open \ (others \cup leaked)
SessionIntact ==
  disconnects = 0 =>
    /\ \A t \in Task : pc[t] \in Online =>
         isconnected /\ ipstack = t /\ network = t /\ my_socket[t] \in open
    /\ others \cup leaked \subseteq open
    /\ Ours = UNION {Held(t) : t \in Task} /\ Cardinality(Ours) <= 1

(* A DISCONNECT that is queued while a task drains the queue ends that       *)
(* session, unless another draining task can take it: the task ends, or,     *)
(* when the connection broke first, is back at the wait for wifi, from where *)
(* its next session discards the request.  Between the grant of a session    *)
(* and its reset (label "reset") a request is discarded although             *)
(* microgear_isConnected already holds.                                      *)
Draining == Online \ {"reset"}
DisconnectQueued == \E i \in 1..Len(ps_queue) : ps_queue[i].type = "PSQ_DISCONNECT"
SessionEndsOnRequest ==
  \A t \in Task :
    (pc[t] \in Draining /\ DisconnectQueued)
      ~> (pc[t] \in {"none", "wifi"} \/ \E u \in Task \ {t} : pc[u] \in Online)

(* What SessionEndsOnRequest promises in the end, one step at a time: while  *)
(* no other task can take the DISCONNECT, every step of the task that must   *)
(* end brings it nearer to the end of its session, and no step of the API or *)
(* of another task sets it back, whatever commands fail, whatever is queued  *)
(* behind the DISCONNECT and whether or not the connection breaks.           *)
Ending(t) ==
  \/ pc[t] \in Draining /\ DisconnectQueued
  \/ pc[t] = "yield" /\ ~activeTask[t]
  \/ pc[t] \in {"close", "delay", "end", "delete"}
Alone(t) == \A u \in Task \ {t} : pc[u] \notin Online

FirstDisconnect(queue) ==
  CHOOSE i \in 1..Len(queue) :
    /\ queue[i].type = "PSQ_DISCONNECT"
    /\ \A j \in 1..(i - 1) : queue[j].type # "PSQ_DISCONNECT"
\* Each message ahead costs at most a receive, a failed command and a yield.
StepsToEnd(t) ==
  CASE pc[t] = "delete" -> 1
    [] pc[t] = "end" -> 2
    [] pc[t] = "delay" -> 3
    [] pc[t] = "close" -> 4
    [] pc[t] = "yield" /\ ~activeTask[t] -> 5
    [] pc[t] = "read" -> 3 * FirstDisconnect(ps_queue) + 3
    [] pc[t] = "callback" \/ (pc[t] = "yield" /\ activeTask[t]) -> 3 * FirstDisconnect(ps_queue) + 4
    [] pc[t] \in {"alias", "command"} -> 3 * FirstDisconnect(ps_queue) + 5
EndNearer(t) ==
  \/ pc'[t] \in {"none", "wifi"}
  \/ /\ Ending(t)'
     /\ StepsToEnd(t)' <= StepsToEnd(t)
     /\ TaskStep(t) => StepsToEnd(t)' < StepsToEnd(t)
EndsNearer == [][\A t \in Task : Ending(t) /\ Alone(t) => EndNearer(t)]_vars

(* src/lib/Microgear/MQTTClient/MQTTClient.c:327 says of the client that     *)
(* waitfor serves that it is "only used in single-threaded mode where one    *)
(* command at a time is in process": at most one task is inside the client.  *)
InClient == {t \in Task : pc[t] \in {"mqttconnect", "command", "yield"}}
OneCommandAtATime == Cardinality(InClient) <= 1
=============================================================================
