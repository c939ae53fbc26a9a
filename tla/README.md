# Microgear for ESP8266 RTOS: models and proofs

TLA+ models of the NETPIE client library in `src/lib/Microgear`, checked with TLC
on small instances, and theorems about it proved with TLAPS.
Paths below are relative to `src/lib/Microgear/`.

## 1. The system

A program on the chip calls the library's API from its own FreeRTOS tasks. The
library runs two kinds of tasks of its own: `wifi_task`, which keeps the station
connected, and, per `Microgear` object, a `microgear_task`, which gets a token,
connects to the broker and carries out the requests the API puts into a queue.

| Component | State | Operations | Interacts by |
|---|---|---|---|
| API (`Microgear.c`) | `mqtttask`, `appid`, `tokenrec`, callbacks | init, connect, disconnect, publish/chat/writeFeed/setAlias, subscribe, unsubscribe, isConnected, on, setToken, revokeToken | `ps_queue` (3 places, no waiting), the handle, reads `client.isconnected` |
| `microgear_task` (`Microgear.c`) | `activeTask`, `msg`, its `struct Network`, its position | rounds: wifi, token, dial, MQTT connect, session, close, delay | owns `client` and `network` of the object while it is the only task |
| MQTT client (`MQTTClient/MQTTClient.c`) | ping timer, `ping_outstanding`, `fail_count`, `isconnected`, packet id, handler table | connect, subscribe, unsubscribe, publish, yield; `cycle`, `keepalive`, `waitfor` | socket, callbacks into the application |
| Network and timers (`MQTTClient/MQTTESP8266.c`) | `my_socket`, `end_time` | read, write, connect, disconnect, expired, left | lwIP, tick counter |
| Access token (`AuthClient.c`) | local token | request token, access token, revoke, server time | HTTP to the authority, the token store |
| Token store (`TokenStore.c`) | one flash sector per object | save (erase, write), load, clear | shared by the task and `microgear_revokeToken` |
| Wifi controller (`WifiController.c`) | `wifi_semaphore`, station | startWifi, wifi_task | the semaphore every `microgear_task` takes |
| Control messages (`defaultMsgHandler`, `microgear_on`) | callbacks | choice of a callback by topic | called inside `cycle` |
| Packets (`MQTTClient/MQTTPacket.c`, `MQTT*Client.c`, `MQTT*Publish.c`) | the transport record of the unused non-blocking reader | serialise, parse, read from a stream | called by the MQTT client |
| Topic matching (`isTopicMatched`), clock (`ESPTime.c`) | offset of the clock | pure functions | called by `deliverMessage` and the task |
| Text helpers and base64 (`function.c`, `base64.c`) | none | pure functions | called by the above |

What is hard here: the API and several tasks interleave on unprotected shared
fields; a request crosses a queue that is reset, drained and refused at its limit
at moments the application cannot see; acknowledgements come late and carry ids
nobody compares; a broken link is known from timers only; flash is erased and
written in two steps that power losses and another task can separate; and one
binary semaphore stands for "there is an address" although it outlives it.
`PROJECT.json` lists these hazards at their lines with the properties that cover
them.

What makes each component correct:

- API and task: the handle names a running task or none; tasks nobody knows of are
  accounted for by calls of disconnect; requests are written in order, at most
  once, and never in a session that began after they were made; a queued
  DISCONNECT ends the session; a connected task has its own open socket, nobody
  closes a descriptor of somebody else, and none is lost but those that
  `connectAuthServer` leaks.
- The application: in every session the broker ends up with what the application
  asked last of each topic, unless that command failed or took a late answer to an
  earlier one for its own; and every queued request settles or the session ends.
- MQTT client: a broken link is noticed and a working one is not given up; messages
  are delivered once and in order; application and broker agree on subscriptions
  until a command that went out ends without its answer.
- The byte stream: packets are read whole and in step, however TCP cuts them, until
  a read gives up inside one; a `sendPacket` that succeeds sent its packet and nothing
  else (one that sent part of it and then bytes behind it, as the loop of
  `MQTTClient.c:37` can, fails).
- Pure functions: what is serialised is as long as it says and comes back when it
  is parsed; a handler gets what its filter means; timers are right across the
  wrap of the counter; an HTTP answer does not depend on how it was cut.
- Token: the task connects with a token for its own key, session tokens do not
  reach the flash, and no failure keeps the task off line for ever.
- Wifi: nobody waits for ever while there is an address, and few rounds start
  without one.

## 2. Modules

| Module | Models | Kind |
|---|---|---|
| `Microgear` | API, `ps_queue`, every `microgear_task` of one object, client/network ownership | component |
| `LossyFifo` | what queue and task promise an application | abstract specification |
| `MicrogearFifo` | `Microgear` seen as `LossyFifo` | refinement mapping |
| `MqttSession` | `MQTTClient.c` with ticks, the TCP link and the broker | component |
| `AccessToken` | `AuthClient.c`, `TokenStore.c`, the refused branch, `microgear_revokeToken` | component |
| `Wifi` | `WifiController.c` and the wait for wifi | component |
| `Subscriptions` | `microgear_on`, the CONNECTED callback, topics and the broker's subscriptions, composed with `Microgear` | composition |
| `Stream` | `sendPacket`, `readPacket`, `decodePacket`, `MQTTPacket_read`, `MQTTPacket_readnb` over bytes | component |
| `PacketPipe` | what `MqttSession` takes for granted of the reading side | abstract specification |
| `RemainingLength`, `MqttPacket` | the length field; serialising and parsing | functions |
| `TopicMatch`, `MessageHandler` | `isTopicMatched`; `defaultMsgHandler` | functions |
| `Timer`, `ESPTime`, `HttpResponse` | deadlines, time of day, `getHTTPResponse` | functions |
| `Calls` | one call of any of these functions, and what its result must be | functions |
| `MicrogearProofs` | theorems about `Microgear` | proofs |
| `SubscriptionProofs` | theorems about `MicrogearFifo` and `Subscriptions`, from those about `Microgear` | proofs |
| `MqttSessionProofs` | theorems about `MqttSession` | proofs |
| `AccessTokenProofs`, `WifiProofs` | theorems about `AccessToken`, `Wifi` | proofs |
| `StreamProofs` | theorems about `Stream` | proofs |
| `CallsProofs` | theorems about `Calls` and the functions it calls | proofs |
| `Induction` | induction over naturals, recursive functions, digits, sums, lists of sequences | lemmas for `StreamProofs`, `CallsProofs`, `SubscriptionProofs` |
| `MCMicrogear`, `MCSubscriptions`, `MCMqttSession`, `MCAccessToken`, `MCWifi`, `MCStream`, `MCCalls` | constants of the instances | for TLC |

In each component module the variables are the fields and locals of the code (same
names where TLA+ allows) followed by history variables, which the code does not
have and which are marked "history". One action is one stretch of code up to the
next access to shared state or the next call that can block. Operators whose
comment begins with "A mutation" are variants of the operator that follows them,
each with one plausible bug; no specification uses them, they serve to show that
a property can fail.

### Microgear

`pc[t]` says where each task is in `microgear_task`; `none` is a task that does not
exist. `api` is the position of the one thread that calls connect and disconnect
(their two shared accesses are separate steps); requests come from any number of
threads and are single steps, as xQueueSend is. A request is its type and the
number the queue accepted it under; topics and payloads do not matter here. `wire`
records what was written to a broker connection. The shared `network` and
`ipstack` are pointers to a task's stack frame, so they are modelled by the
task's name; a frame of a deleted task holds any socket (`SocketOf`). What a
read of a deleted frame does besides (a fault of the processor) ends in a restart
of the chip, which is `Init` again and is not a step of the model.

MQTTPublish, MQTTSubscribe and MQTTUnsubscribe succeed or fail by choice
(`CommandSucceeds`, `CommandFails`); `MqttSession` has their insides. A failed
command may have been written: before the wait for its answer failed, or by a
`sendPacket` that sent its packet in parts, and bytes behind it, and reports a
failure. The wait for wifi is a step (`WaitForWifi`) whose insides `Wifi` has.

Getting a token and the time is any number of HTTP exchanges (`AuthConnects`,
`AuthCloses`) before `TokenDone`; what they say is in `AccessToken`, here they matter
for their sockets. lwIP's descriptors are one pool (`open`) for them, for the
broker's connection and for other owners (`others`: the application's own sockets, the
exchange of microgear_revokeToken), which open and close them at any time, so that a
number a task closed may be somebody else's when the task uses it again. When
connect() fails connectAuthServer returns -1, its socket stays open and its number is
lost (`AuthFails`, and `RevokeFails` for microgear_revokeToken; `AuthClient.c:130`):
the history variable `leaked` holds these. Every such exchange costs a descriptor, and
a device whose authority cannot be reached runs out of them; `SessionIntact` names
this as its exception, says that no other path of the task loses one, and that no
path closes a descriptor twice when it may be another's.

Not in this module: microgear_on (it is in `Subscriptions`), microgear_setToken,
which acts before connect, and a memory shortage in vSemaphoreCreate or
xQueueCreate.

### Subscriptions

Every step is a step of `Microgear` with what it means to the application beside
it, or leaves `Microgear`'s variables alone. A message of the queue gets the type
and the topic it was asked with (`asked`), the broker a set of subscriptions, which
ends with its connection (cleansession is 1). The application is the one of the
repository's README: its CONNECTED callback subscribes; the callback's own request
is the one step that is not subject to the bound on requests. disconnect is not
called: two tasks with one client are `microgear_core`'s and `microgear_client`'s
subject.

A subscribe or unsubscribe is sent (`Sends`), is on its way (`pending`), is carried
out or refused by the broker at any later time or never (`BrokerHandles`), and its
answer comes back in order (`answers`). The client takes the next answer of the type
it waits for, whatever command it belongs to, for waitfor compares no packet ids
(`Succeeds`, `Denied`); answers nobody waits for are dropped (`Drops`), and so may be
any, when keepalive gives up in the cycle that reads it. A command that failed
(`Fails`) was not sent, or was and is still on its way: the broker may carry it out
while later commands are in progress. `misled` are the commands that succeeded on the
answer to another, `unanswered` says that a command which may have gone out ended
without its own answer. Of a packet only a part of which was sent, and of the stream
behind it, the model says nothing.

### LossyFifo and MicrogearFifo

Accept, write, lose the oldest, forget all. As long as disconnect is not called
`FifoSpec` holds: what waits is the message in the hands of the task followed by
the queue. With two tasks it does not hold, and `microgear_core` shows what is
left (`AtMostOnce`, `TaskOrder`, `NoStaleWrite`).

### MqttSession

A timer holds the ticks that are left and is expired below 0, as `end_time - now`
is. `op` is the operation the task is blocked in. One `cycle()` is one step
(`CyclePacket`, or `CycleNothing` when the read gave up), with the delivery, the
settled ping, the keepalive and the use of its result all in it; DISCONNECTED
replaces the packet's type, as `rc` does. A read waits for less than the rest of its
timer (`left_ms` and mqtt_esp_read divide twice; `Calls` has the arithmetic), so it may
give up at any moment. A send fails on a broken link and may fail on any other, when
its select times out; a command whose send failed may still have gone out, and then
counts as one that ended without its answer (`timedout`). Packets are sent and read
whole or not at all: what a torn packet or bytes behind one do to the stream is left
to `Stream`. Topics have no wildcards, only QoS 0 occurs (the library subscribes and
publishes with nothing else). Broker and link are environment: the link may fall
silent (the peer is gone, sends still succeed) or break; what was received may or may
not stay readable.

### AccessToken

Tokens are named by the order in which the authority issues them. The authority
exchanges a request token once, as OAuth 1.0 has it; this is an assumption
about code outside the repository. `getOAuthToken` returns 1 with an empty token
when the authority does not answer; where the code then works on an uninitialised
buffer (`AuthClient.c:335` after a failed connect) the outcomes are an empty token
or a crash, which is a `PowerLoss`. An empty token has an empty host, so the dial
fails (`DialFailsOrPaused`) and the flash is not cleared. The DEBUG build that
`config.h` selects is modelled: without DEBUG the refused branch clears nothing.

### Wifi

`starter` is the caller of startWifi, which runs beside tasks that wait already;
`wifi` is the position of wifi_task, with the read of the status and the give as
separate steps. The mode of the chip survives the restart that `Mode` makes.

### Stream and PacketPipe

A step is one call of recv or send, which takes any part of what there is. The
reader is at the header byte, in the length or in the body; a read that gives up
inside a packet sets `torn`, after which the next header is read from the middle
of a packet. `PacketPipe` is the promise until then: the packets the peer sent,
whole, in order, each once. `torn` is the program's own fault line, not an
assumption: recv may return a part of a body at any time, and a blocking reader
then gives up. The readers of `MQTTPacket.c`, which the library does not call, are
checked beside `readPacket`; `MQTTPacket_readnb` has an exception that
`EverythingIsRead` names: it takes the 0 of a read of no bytes for "call again" and
never returns a packet without a body, as PINGRESP is. `MQTTPacket_read` reads even a
body of no bytes, and waits in select until a byte of the next packet is there
(`EmptyBody`), or gives up (`BodyFails`); readPacket does not.

On the sending side each round of the loop offers TCP the whole length again. So
after a partial send bytes behind the packet are on the wire while the call goes on,
before anything has failed. `SentInStep` says what is there in every state: the
packets whose sendPacket succeeded, then the first `sent` bytes of the memory the
buffer pointer leads to, whose first `length` are the packet in hand and whose rest
is what lies behind it. A call that sent more than its packet ends with
`sent > length`, which the code reports as a failure (`failed`); from then on the
peer's reading is out of step and the property says nothing.

### Calls and the function modules

`Calls` takes one input and returns one result; its actions are the calls, its
invariants compare the results with a reference (levels of a topic for
`isTopicMatched`, the time that went by for a timer, the undivided text for an HTTP
answer). Bytes, words and digits have small sizes, given by constants: `Radix` for
the 128 of the length field, `Half` for half a turn of the tick counter,
`MicroWord` and `Second` for the microseconds. Characters are a few model strings.
A buffer's first element is the header's record of bit fields. Behind a packet the
read buffer holds stale bytes (`Stale`), so that a parser that goes too far gets
something that looks like data.

Where the code differs from the reference the property says where: a wildcard does
not stand for an empty level (`HandlerByLevels`), a packet that fills the buffer to
the last byte may be refused (`RefusedWhenLong`), the clock
loses a turn of the microseconds with every wrap (`ClockRight`), and a CRLF in the
chunk that ends the header costs the body what is before it (`ChunksInvisible`).
Topics of messages are taken to be no longer than the 96 characters
defaultMsgHandler copies (`PUBSUBQUEUE_TOPICSIZE`).

## 3. Runs

| Run | Question | Result |
|---|---|---|
| `microgear_core` | With disconnect and a second task: types, handle, orphans, descriptors with `connectAuthServer`'s leak, what is written; does a queued DISCONNECT end the session, and does each step bring that end nearer (`EndsNearer`)? | holds |
| `subscriptions` | What is the broker left with, with late answers and requests carried out late (`LastWordWins`); does every request settle (`RequestsSettle`); are descriptors of other owners left alone (`SessionIntact`); is it a lossy FIFO (`FifoSpec`)? | holds |
| `microgear_client` | Is one command at a time in the client (`MQTTClient.c:327`)? | violated: two tasks after disconnect and connect |
| `mqtt_safety` | Deliveries once and in order, agreement on subscriptions, no working connection given up; with sends that fail on a working link | holds |
| `mqtt_liveness` | Is a broken link noticed, and a silent one (`BrokenLinkDetected`, `SilentLinkDetected`)? | holds, with the exception `SilentLinkDetected` names |
| `mqtt_unsuback` | Does an UNSUBACK carry the id of its command (`MQTTClient.c:457`)? | violated by a late answer |
| `mqtt_handlers` | Are handlers indexed by subscription topic (`MQTTClient.h:71`)? | violated: all filters share one buffer |
| `token_faults` | Whose token, what is in flash, does the task get on line, and does each step without a failure bring it nearer (`Nearer`)? | holds, with the exception `ComesOnline` names |
| `wifi_semaphore` | Rounds without an address, tasks that wait for ever | holds |
| `stream` | Are packets read whole, is every one read, and what is on the wire while one is sent? | holds |
| `calls` | Do the pure functions give what their references give? | holds |
| `calls_success` | Does the result 1 of a parser mean success (`MQTTDeserializePublish.c:80`)? | violated by a packet that is too short |

`ComesOnline` has one exception, which a reader should know: a request token in
flash that was exchanged already (because the answer was lost, or the access token
was for one session and is not saved) is loaded in every round, gives an empty
token, and is never cleared. The task then retries for ever without a way out.

Two things the models show that no run states as a violation: a broker that does
not answer in time costs the stored token, since every answer but "connected" and
"paused" takes the branch of a refusal (`Microgear.c:431`; `ComesOnline` says that a
new one is got); and a round of microgear_task may start without an address, on a
permit of the semaphore that outlived it (`FewUnbackedRounds` bounds how often).

### Bounds

- Two tasks: a second one is the most disconnect and connect make before the first
  is forgotten for good; identities are reused, so any number of tasks follow each
  other. The theorems have no such bound.
- Queue of 2 (3 in the code): empty, partly filled and full are distinct, and a
  message can be in the hands with two behind it.
- `MaxAccepted` 2 requests, `MaxSession` 2 sessions, one disconnect: enough to fill
  the queue, to carry a request over a reset, and to have two tasks drain. In
  `subscriptions` one request of the alias and one of the callback come in each
  session beside them, so that the queue of 2 overflows.
- One descriptor in `microgear_core` and `subscriptions` (the second task finds none
  free while the first holds it, and a leak leaves none), which another owner
  (`MaxOthers` 1) can take whenever a task has freed it, so that a stale
  number always hits somebody; two in `microgear_client`, for two tasks in a session.
  With more, numbers are confused less often. The theorem has any number of both.
- `MqttSession`: timeouts of 1 tick for a command and a yield and 2 for the
  keepalive (0, 0 and 1 in `mqtt_safety`; a timer of n ticks expires after n + 1) keep
  the order of the code's 5 s, 1 s and 15 s in the one respect that
  matters, that several operations pass within a keepalive interval and that an
  interval can end within each of them. Two handlers and three commands fill the
  table; packet ids wrap at 2. `MaxFailAllowed` is the code's 2. The
  broker publishes two messages in `mqtt_safety`, so that their order can be wrong.
- `AccessToken`: five failures of the environment in any order, two keys.
- `Wifi`: two polls, two losses of the address, two waiting tasks.
- `Stream`: two packets, of two, five or eight bytes (lengths of one, two and three
  digits), every cut of them; the readers that are given the length of the buffer get
  one that the longest packet does not fit.
- `Calls`: lengths around each digit of the length field, buffers from one byte too
  small to two too large; all filters of up to four characters against all names of
  up to four; all packets of up to six field bytes; every tick of a turn of the
  counter; HTTP answers cut at every two places.

### Fairness

- `Microgear`: weak fairness of each task's steps. FreeRTOS runs every ready task
  (the library's tasks have the highest application priorities) and each blocking
  call has a timeout, except the wait for wifi and the HTTP exchanges
  (getHTTPResponse reads without one), for which no fairness is assumed.
- `MqttSession`: ticks go on, the task is scheduled, and it reaches `cycle` again
  and again; strong fairness of `Cycle` says that not every timeout runs out
  before the task, which has a higher priority than the application, makes one
  read. Neither broker nor link is fair.
- `Subscriptions`: as in `Microgear`, for the task's steps beside the rounds.
- `Stream`: what was sent arrives, and the client comes back to its reader.
- `AccessToken`: the task is scheduled, every exchange ends. `MaxFault` makes
  failures finite; what follows is "once the environment stops failing".
- `Wifi`: each task is scheduled; strong fairness of `Take` is the FreeRTOS rule
  that a give wakes the task that waited (of equal priority, the longest).

## 4. Proofs

All proofs use the assumptions on constants that the component modules name and
nothing else; TLC evaluates these assumptions in every run. Each theorem holds for
every value of the constants: every bound of section 3 is gone in it.

### Microgear

`MicrogearProofs` proves, for every number of tasks, length of the queue and bound,
with the assumptions named in `Microgear` (a finite set of tasks, a queue of at
least one place, descriptors are naturals) and nothing else:

| Theorem | Says |
|---|---|
| `TypeCorrect` | `Spec => []TypeOK` |
| `HandleSafe` | `Spec => []HandleLive` |
| `OrphanSafe` | `Spec => []OrphanBound` |
| `WrittenAtMostOnce` | `Spec => []AtMostOnce` |
| `WrittenInOrder` | `Spec => []TaskOrder` |
| `NeverStale` | `Spec => NoStaleWrite` |
| `SessionSafe` | `Spec => []SessionIntact` |
| `EndComesNearer`, `EndIsNear` | `Spec => EndsNearer`, and the bound of `StepsToEnd` |

The first six follow from one inductive invariant, `Inv` (`Invariance`). Its parts:

- `TypeOK`.
- `HandleInv`: `HandleLive`, and between connect's test and its xTaskCreate the
  handle stays NULL. Without the second part a Create could overwrite the handle
  of a running task, which would then be an orphan no disconnect accounts for.
- `OrphanBound`. Only Create, End and DisconnectDetach change the handle or the
  set of running tasks (`QuietSteps`); End may take away the handle of another
  task, but then a running task is gone as well, so the count does not grow.
- `QueueInv`: the numbers of the requests. In the queue they increase; all that a
  task holds or has written is smaller than all that is queued; what different
  tasks hold differs and is not on the wire; a task's own writes are smaller than
  what it holds; and a task that drains holds, and finds in the queue, only
  numbers above its last reset. `AtMostOnce` and `TaskOrder` alone are not
  inductive: a write preserves them only because of what is known of the hands.

The step proof sorts the actions by what they do to these numbers: those that leave
tasks' hands alone and append at most (`PassiveSteps`, `GrownSteps`,
`PassiveQueue`), the reset (`ResetQueue`), the receive (`ReadQueueQueue`) and the end
of a command (`CommandQueue`).

`SessionSafe` is `Spec => []SessionIntact`. `OrphanBound` says that
while disconnect was not called all running tasks are the one the handle names, so
at most one task runs (`OneRunner`). Its invariant `OwnedInv` says what the position
of that task tells of the shared pointers (`Owner`: network from its start,
ipstack from NewMQTTClient, isconnected inside the session), that the descriptors of
other owners and the lost ones are open and differ (`Apart`), and that what is open
beside them is what the task holds at its position: its broker socket, that of its
HTTP exchange, or none (`HeldAt`). `SessionIntact` alone is not
inductive, because Close closes the descriptor of whatever frame `network` names.
Steps are sorted into those that move the task only (`QuietMoves`), those of the
client (`SharedMoves`), of the broker socket (`SocketMoves`), of the exchanges
(`HttpMoves`, where `leaked` grows) and of the other owners (`OthersMove`).

`EndComesNearer` is `Spec => EndsNearer`, the safety half of `SessionEndsOnRequest`
for every length of the queue. `StepsToEnd` counts what is left at most: three steps
for each message up to the DISCONNECT (a receive, a command that fails, a
yield), then yield, close, delay, end and delete. While no other task is in a session
each step of the task takes from it, and no step of another task or of the API adds to
it: what is queued is appended behind the DISCONNECT (`AppendFirst`), and a receive
takes one message from before it (`TailFirst`) or the DISCONNECT itself. With
`EndIsNear` (at most `3 * QueueLen + 5`) and the fairness of `FairSpec` the end comes;
only this last inference is left to TLC.

`ImplementsFifo` (in `SubscriptionProofs`): with `MaxDisconnect = 0`, `Spec => FifoSpec`. Then
at most one task runs (`OneRunner`), so the hands hold one message or none
(`HandSize`), and every step is one of the abstract ones or a stutter: an accepted
request is Accept (`EnqueueStep`; hands and queue together never exceed
`QueueLen + 1`), the reset is Forget, the receive moves the head of the queue into
the hands and changes nothing that waits (`ReadStep`), the end of a command is Write
or Lose (`CommandStep`). All other steps move a task that is at no command
(`AsideMoves`).

### MqttSession

`MqttSessionProofs` proves `TypeCorrect` and `GivesUpLate` (`Spec => NoFalseDisconnect`),
for every value of the timeouts, tables and bounds. The types need that a SUBSCRIBE or
UNSUBSCRIBE on its way, and the command waited for, name a topic (`Counts`).
`PingInv` is what makes the keepalive right: a tick takes one from `ping_timer` and
adds one to `silence`, so while a ping is unanswered
`silence + ping_timer >= KeepAlive + fail_count * (KeepAlive + 1)`; a send that
re-arms `ping_timer` only raises the sum, and where keepalive gives up, with
`ping_timer` at -1 and `fail_count + 1` at the limit, the silence has lasted longer
than `MaxFailAllowed` intervals (`GiveUpLate`).

`Agreement` is `Spec => []SubscriptionsAgree`, for any number of
topics, packets in flight and commands. Its invariant `FlightInv` says what is on
its way while no command that may have gone out ended without its answer: outside a
wait, no command and no answer;
during one, the command was lost, or it is the only one on its way to the broker, or its
answer is the only one on its way back and says what separates the application's
subscriptions from the broker's (`Effect`). `SubscriptionsAgree` alone says nothing
about the wait, so no step into or out of it would preserve it. An answer that
arrives in the cycle in which keepalive gives up is dropped by waitfor; it then
counts as lost, and the command times out. The types say that a command in progress
has an id from 1 on.

### AccessToken

`TypeCorrect`, `OwnToken` (`[]TokenIsOurs`) and `PersistentInFlash`
(`[]StoredIsPersistent`), for any number of faults and keys. The invariant follows
the token through the positions of the task: what it holds where it will save or
write is persistent or a request token, what it holds where it connects is of its
key, and what is in flash was issued or is no record.

`EveryStepNearer` is `Spec => Nearer`, the safety half of `ComesOnline`: from
whatever state any number of failures left, every step of the task while nothing fails
takes from `StepsToSession`, which is at most 15, but for the load of a request token
that was exchanged already. It rests on the same invariant: a record that loads as
an access token has a value, so its connect is granted or refused, and a refusal
erases the flash, from which no step comes back to the same record.

### Wifi

`TypeCorrect` and `FewUnbacked` (`[]FewUnbackedRounds`), for any number of waiting
tasks, retries and losses. The invariant counts what can still come: a round that
started for nothing used up either the permit that was there before the loss or
the one of a give whose status was read before it.

### Subscriptions

`SubscriptionProofs` carries the theorems about `Microgear` over to the composition,
and adds what it is for. A request of the callback, of microgear_on or of the API is
a `Requested` step, every other step is one of `Microgear` without disconnect
(`Foreground`); so `Free` (the invariants of `Microgear` together) holds in it, and

| Theorem | Says |
|---|---|
| `ComposedSession` | `SSafe => []SessionIntact` |
| `ComposedFifo` | `SSafe => FifoSpec` |
| `LastWordDecides` | `SSafe => []LastWordWins` |

`LastWordWins` compares the broker with the latest settled request of a topic, so it
needs to know which request a step settles. `NumberedInv` says it: the queue holds
the last requests accepted, one number after the other, and the message in the hands
is the one before them. `CleanInv` says that a session begins with no subscription
and nothing on its way, before the reset that makes earlier requests count for
nothing. Steps then either leave the settled requests of every topic as they are, or
settle exactly one, the greatest number so far (`EndsWord`), and `Word` says that this
one decides.

What late requests and answers can do is in `ChannelInv`. The broker works in order, so
every answer belongs to a lower number than all that is on its way (`OrderInv`), and
only commands of this session that were sent are on their way or answered
(`ReachInv`). A request that settled, and neither failed nor was taken for done on
another's answer, was carried out, so that all on their way come after it
(`CarriedInv`): a command that was given up and is carried out late cannot undo a later
success, for the answer to the later one says that everything before it was carried
out. And the answer of the command in hand, once it is there, says what the broker's
subscriptions now are. `AnsweredInv` is the second half of the property: as long as
every command that may have gone out had its answer, nothing is on its way but the
command in hand, so the answer it takes is its own (`OwnAnswer`). `CommandEnds` puts
both together for the step in which a command ends.

### Deliveries

`DeliversOnce` (in `MqttSessionProofs`): `Spec => []DeliveredOnce`, for any number of
messages, handlers and operations that read. `DeliveryInv` numbers the messages on
their way by their rank among the packets (`Numbered`), so that taking a packet off
the front, putting one at the end, or losing all of them with the link is one lemma
each; and it knows how many were handed out.

### Stream

`StreamProofs` proves the refinement `ReadersImplementPipe` (`Spec => ReadsInStep`) for
every reader, packets of any length and number, any radix and every cut, and
`WriterInStep` (`Spec => []SentInStep`). The invariant of the reading side, `StreamInv`,
says where the reader is in the stream while no read gave up inside a packet: at a
header with the bytes of whole packets ahead; inside a length whose digits to come
amount to `q`, with `rem_len + q * multiplier` the length of the body; or inside a
body of which `a` was read and `b` is to come. The digits need that
`MQTTPacket_encode`, a recursive function, is what its recursion says, which
`Induction` proves. On the writing side `WriterInv` says that what TCP accepted is the
bytes of the finished packets (`Done`, by `FlattenAppend`) and the first bytes of what
the buffer pointer leads to, in mid-call too, and that inside a call the packet is at
the front of the buffer (`PacketInBuffer`). A call that succeeds sent exactly its
length, so what was added is the packet (`EndKeepsWriter`).

### Calls

`CallsProofs` proves the ten properties of `Calls`, for any set of calls that
satisfies its assumptions, any radix above 2, a counter and microseconds of any width:

| Theorem | Says |
|---|---|
| `PacketsAreParsed` | `Spec => []FieldsParsed` |
| `PacketsAreWhole` | `Spec => []SerialisedWhole` |
| `OnlyLongRefused` | `Spec => []RefusedWhenLong` |
| `PublicationsComeBack` | `Spec => []PublishComesBack` |
| `HandlersByLevels` | `Spec => []HandlerByLevels` |
| `CallbacksByName` | `Spec => []DispatchedByName` |
| `TimersExpireRight`, `WaitsEndInTime` | `Spec => []ExpiryRight`, `Spec => []WaitEndsInTime` |
| `ClockErrs` | `Spec => []ClockRight` |
| `AnswersReadAtOnce` | `Spec => []ChunksInvisible` |

The assumptions are what the callers see to: a packet and a buffer are no longer than
four digits can say (the library's buffers are of 100 bytes), a topic is shorter than
its two bytes can say, an MQTTString has one of its two forms or none, a timeout in
ticks is below half a turn of the counter (an unsigned int of milliseconds is), and
the clock is read after it was set; filters and topics are any
sequences of characters, and an HTTP answer is any sequence of chunks. What is behind a
packet in the read buffer (`Stale`) is any sequence of bytes.

The argument goes in layers. `DecodeEncode`: the length field of every announced
length is read back, and takes as many bytes as `LengthCounted` says or one less.
`Contents` (whose conclusion is `Laid`): in a buffer of header, length field, fields
and stale bytes, every field is where `Begin` and `EndData` say. `PacketWritten`:
a serialiser refuses or writes such a buffer. `BytesJoined` and the lemmas before it
count the bytes of numbers, strings and options; `TopicsWritten` counts those of a
list of topics, by induction on the list. Then one lemma per serialiser
(`ConnectWhole`, `PublishWhole`, ...) and one per parser (`SubackParsed`, ...), and
`PublishedIsRead` for the way there and back.

Topics are argued about apart (the first part of `CallsProofs`). isTopicMatched
compares characters from the front and skips a level at a time; what a filter means
(`FilterMatches`, `WildcardOnNothing`) is said of all levels at once. Both are brought
to one form: `LevelsFrom` gives the levels of what begins at a position, and one
character changes them in one of two ways, an empty level more (`Apart`) or a longer
first level (`Grown`). `Meant` says of two lists of levels what `FilterMatches`
without `WildcardOnNothing` says of two topics (`MeansMeant`), and follows the same
two ways (`MeantApart`, `MeantAgain`, `NotMeant`, `MeantByHash`); the level that '+'
skips leaves the levels behind it as they are (`LevelSkipped`). So one step of the
loop answers what is meant, if the next answers it (`LoopStep`), and `Backwards`
carries that from the end of the filter to its front (`MatchedByLevels`). A filter
that is no filter (a '+' or '#' beside other characters) is excluded by `WellFormed`,
as in the comment on isTopicMatched. For the callbacks, `ThirdLevel` says that
defaultMsgHandler's suffix begins where the third level does, and `SuffixNamed` when a
suffix of two characters is a level.

For HTTP answers, `AtOnce(b)` is the state of getHTTPResponse when `b` came as one
chunk: what follows the last CRLF is kept, the first line has given the status, the
first Content-Length the length. `ChunkRead` says that one more chunk `c` makes
`AtOnce(b \o c)` of it. What is kept of `b` and the chunk is the end of `b \o c` from
the last CRLF on (`More`, `RestAndMore`), so that the CRLFs and the lines of `b \o c`
are those of `b` and, moved by what is no longer kept, those of that end
(`EndsOfMore`, `LinesOfMore`); the three cases are no line yet, lines without the empty
one, and a body. The last needs `Quiet`: no CRLF comes behind an empty line, the
hypothesis of `ChunksInvisible` that the body holds none (`HeaderAndBody`). `Quiet`
holds of what came earlier if it holds of the whole, so `Backwards` carries it to every
prefix, and `ReadAtOnce` gets the state after every chunk by induction. Then
`LineGives` and `GivenLines` say of one undivided answer what `Given` and `Number`
say, without the lines.

`AnswerInv` is all that the temporal part
needs: a result is what the function gives for the call.

### Induction

The library's induction theorems take a predicate as a parameter and cannot be cited
here. `WFMin` of WellFoundedInduction takes a set, so `Induction` states induction of
sets: every set of naturals has a least element, hence `NatSet` and `NatSetStrong`.
From these it gets that a recursion over the naturals which looks only at smaller
arguments has a solution (`RecursiveFunction`), and then what the recursive functions
of the models compute: the digits of a length (`PositionalDigits`), FlattenSeq
(`FlattenChain`, `FlattenAppend`) and the sums of lengths (`SumsExist`,
`SumOfLengths`). A recursion from the back of a sequence has a solution too
(`BackwardExists`), and what holds at the end and is handed on to the front holds
everywhere (`Backwards`).

### Only model-checked

- Every liveness property: liveness under fairness and ENABLED are out of the prover's
  reach. Of `SessionEndsOnRequest` and `ComesOnline` the measure that each step lowers
  is proved (`EndComesNearer`, `EveryStepNearer`); that fairness then leads to the end
  is checked.

## 5. Not modelled

- QoS 1 and 2 and MQTTDisconnect: the library never uses them.
- The text of HTTP requests and signatures, `function.c`, `base64.c`, hmac_sha1 (the
  SDK's) and the digits of `getTimeStr`: no property is about them; the outcomes of
  an exchange are choices.
- `microgear_setToken`: with it the task skips getAccessToken altogether.
  `microgear_clearToken` finds no record: `tokenrec` is set in
  `microgear_revokeToken` only, which resets it before it returns.
- The TLS functions of `MQTTESP8266.c`, which are under `#if 0`.
- Packets of the broker that are longer than the read buffer. readPacket does not
  compare the length with the buffer (`MQTTClient.c:96`) and would write behind it;
  that packets fit is an assumption of `Stream` about the broker and its topics. (The
  readers of `MQTTPacket.c` compare it, and `Stream` has their refusal.)
- What becomes of a connection behind a packet that was sent in part or with bytes
  behind it, or read in part: `Stream` says when that happens, `MqttSession` and
  `Subscriptions` have whole packets only.
- Topics of messages of more than 96 characters, which defaultMsgHandler cuts.
- Descriptors in `AccessToken`: its `ComesOnline` holds as long as lwIP has any left,
  and each failed connect() of connectAuthServer takes one for good.
- What the processor does on a frame of a deleted task.
- The examples and the GPIO driver of one: they only call the API.
- Processor time: that MQTTYield spins on a socket the peer closed
  (`MQTTClient.c:314`) is no property of the models, whose ticks do not measure it.

## 6. Plan

Done: every module of section 2 and the theorems of section 4.

What could follow:

1. A composition of `Wifi` and `Microgear`: rounds, waits and sessions together.
