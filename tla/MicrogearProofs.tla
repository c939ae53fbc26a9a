--------------------------- MODULE MicrogearProofs ---------------------------
(***************************************************************************)
(* Theorems about Microgear.tla, for every number of tasks, every length   *)
(* of the queue and every bound.  The inductive invariant is TypeOK,       *)
(* HandleInv (what the handle and its owner agree on), OrphanBound and     *)
(* QueueInv (how the numbers of the requests in the queue, in the tasks'   *)
(* hands and on the wire are ordered).  As long as disconnect is not       *)
(* called OwnedInv adds whose the network, the client and the open         *)
(* descriptors are.  EndsNearer needs no more of a state than TypeOK.       *)
(***************************************************************************)
EXTENDS Microgear, FiniteSetTheorems, SequenceTheorems, WellFoundedInduction, TLAPS

USE NoTaskAssumption, TaskAssumption, QueueLenAssumption, FdAssumption,
    RequestTypeAssumption, BoundAssumption, AliasAssumption

-----------------------------------------------------------------------------
(* Sequences.                                                              *)

LEMMA AppendSeq ==
  ASSUME NEW S, NEW s \in Seq(S), NEW e \in S
  PROVE  /\ Append(s, e) \in Seq(S)
         /\ Len(Append(s, e)) = Len(s) + 1
         /\ \A i \in 1..Len(s) : Append(s, e)[i] = s[i]
         /\ Append(s, e)[Len(s) + 1] = e
OBVIOUS

LEMMA TailSeq ==
  ASSUME NEW S, NEW s \in Seq(S), s # <<>>
  PROVE  /\ Head(s) \in S /\ Tail(s) \in Seq(S)
         /\ Len(s) \in Nat \ {0} /\ Len(Tail(s)) = Len(s) - 1
         /\ Head(s) = s[1]
         /\ \A i \in 1..Len(Tail(s)) : Tail(s)[i] = s[i + 1]
BY HeadTailProperties, EmptySeq

-----------------------------------------------------------------------------
(* Type correctness.                                                       *)

LEMMA EnqueueType ==
  ASSUME TypeOK, NEW type \in RequestType \cup {"PSQ_DISCONNECT", "PSQ_PUBLISH", "PSQ_SUBSCRIBE"}, Enqueue(type)
  PROVE  /\ ps_queue' \in Seq(PubSubQueueMsg) /\ Len(ps_queue') <= QueueLen
         /\ accepted' \in Nat
<1> DEFINE m == [type |-> type, id |-> accepted + 1]
<1>1. m \in PubSubQueueMsg
  BY DEF TypeOK, PubSubQueueMsg
<1>2. CASE Len(ps_queue) < QueueLen
  <2>1. ps_queue' = Append(ps_queue, m) /\ accepted' = accepted + 1
    BY <1>2 DEF Enqueue
  <2>2. Append(ps_queue, m) \in Seq(PubSubQueueMsg)
        /\ Len(Append(ps_queue, m)) = Len(ps_queue) + 1
    BY <1>1, AppendSeq DEF TypeOK
  <2>3. QED
    BY <1>2, <2>1, <2>2, LenProperties DEF TypeOK
<1>3. CASE ~(Len(ps_queue) < QueueLen)
  BY <1>3 DEF Enqueue, TypeOK, queueVars
<1>4. QED
  BY <1>2, <1>3

LEMMA TransmitType ==
  ASSUME TypeOK, NEW t \in Task, Transmit(t)
  PROVE  wire' \in Seq(Sent)
<1>1. [id |-> msg[t].id, task |-> t] \in Sent
  BY DEF TypeOK, PubSubQueueMsg, Sent
<1>2. QED
  BY <1>1, AppendSeq DEF TypeOK, Transmit

LEMMA ReleaseType ==
  ASSUME TypeOK, NEW t \in Task, Release(t)
  PROVE  msg' \in [Task -> PubSubQueueMsg]
BY DEF TypeOK, Release, NoMsg, PubSubQueueMsg

(* The steps of a task between the wifi and the dial touch but descriptors.  *)
LEMMA TokenMoves ==
  ASSUME TypeOK, NEW t \in Task, WifiAndToken(t)
  PROVE  /\ pc[t] \in {"wifi", "token", "exchange"}
         /\ \E label \in {"token", "exchange", "dial", "end"} : Goto(t, label)
         /\ UNCHANGED <<queueVars, clientVars, taskVars, handleVars, sentVars, my_socket>>
<1> USE DEF Goto, queueVars, clientVars, taskVars, socketVars, handleVars, sentVars
<1>1. CASE AuthFails(t)
  <2>1. pc[t] = "token" /\ pc' = [pc EXCEPT ![t] = "token"]
    BY <1>1 DEF AuthFails, TypeOK
  <2>2. QED
    BY <1>1, <2>1 DEF AuthFails
<1>2. CASE WaitForWifi(t)
  BY <1>2 DEF WaitForWifi
<1>3. CASE AuthConnects(t)
  BY <1>3 DEF AuthConnects
<1>4. CASE AuthCloses(t)
  BY <1>4 DEF AuthCloses
<1>5. CASE TokenDone(t)
  BY <1>5 DEF TokenDone
<1>6. QED
  BY <1>1, <1>2, <1>3, <1>4, <1>5 DEF WifiAndToken

LEMMA TokenType ==
  ASSUME TypeOK, NEW t \in Task, WifiAndToken(t)
  PROVE  TypeOK'
<1>1. pc' \in [Task -> Label]
  <2>1. PICK label \in {"token", "exchange", "dial", "end"} : Goto(t, label)
    BY TokenMoves
  <2>2. label \in Label
    BY DEF Label
  <2>3. QED
    BY <2>1, <2>2 DEF Goto, TypeOK
<1>2. /\ authclient' \in [Task -> Fd \cup {-1}]
      /\ open' \subseteq Fd /\ others' \subseteq Fd /\ leaked' \subseteq Fd
  <2>1. CASE WaitForWifi(t) \/ TokenDone(t)
    BY <2>1 DEF WaitForWifi, TokenDone, socketVars, TypeOK
  <2>2. CASE AuthConnects(t)
    BY <2>2 DEF AuthConnects, TypeOK
  <2>3. CASE AuthFails(t)
    BY <2>3 DEF AuthFails, TypeOK
  <2>4. CASE AuthCloses(t)
    BY <2>4 DEF AuthCloses, TypeOK
  <2>5. QED
    BY <2>1, <2>2, <2>3, <2>4 DEF WifiAndToken
<1>3. QED
  BY <1>1, <1>2, TokenMoves
     DEF TypeOK, queueVars, clientVars, taskVars, handleVars, sentVars

LEMMA OthersMoves ==
  ASSUME Others
  PROVE  UNCHANGED <<queueVars, clientVars, taskVars, handleVars, sentVars, my_socket,
                     authclient, pc>>
BY DEF Others, OthersOpen, OthersClose, RevokeFails, queueVars, clientVars, taskVars,
       handleVars, sentVars

LEMMA OthersType ==
  ASSUME TypeOK, Others
  PROVE  TypeOK'
<1>1. open' \subseteq Fd /\ others' \subseteq Fd /\ leaked' \subseteq Fd
  BY DEF Others, OthersOpen, OthersClose, RevokeFails, TypeOK
<1>2. QED
  BY <1>1, OthersMoves DEF TypeOK, queueVars, clientVars, taskVars, handleVars, sentVars

LEMMA InitType == Init => TypeOK
<1> SUFFICES ASSUME Init PROVE TypeOK
  OBVIOUS
<1>1. NoMsg \in PubSubQueueMsg
  BY DEF NoMsg, PubSubQueueMsg
<1>2. <<>> \in Seq(PubSubQueueMsg) /\ <<>> \in Seq(Sent) /\ Len(<<>>) = 0
  BY EmptySeq
<1>3. /\ my_socket \in [Task -> Fd \cup {-1}] /\ authclient \in [Task -> Fd \cup {-1}]
      /\ open \subseteq Fd /\ others \subseteq Fd /\ leaked \subseteq Fd
  BY DEF Init
<1>4. msg \in [Task -> PubSubQueueMsg] /\ floor \in [Task -> Nat]
  BY <1>1 DEF Init
<1>5. ps_queue \in Seq(PubSubQueueMsg) /\ Len(ps_queue) <= QueueLen /\ wire \in Seq(Sent)
  BY <1>2 DEF Init
<1>6. pc \in [Task -> Label] /\ activeTask \in [Task -> BOOLEAN]
  BY DEF Init, Label
<1>7. QED
  BY <1>3, <1>4, <1>5, <1>6 DEF Init, TypeOK

LEMMA StepType == TypeOK /\ [Next]_vars => TypeOK'
<1> SUFFICES ASSUME TypeOK, [Next]_vars PROVE TypeOK'
  OBVIOUS
<1> USE DEF queueVars, clientVars, taskVars, socketVars, handleVars, sentVars, Goto
<1>1. ASSUME NEW type \in RequestType, Request(type) PROVE TypeOK'
  BY <1>1, EnqueueType DEF Request, TypeOK
<1>2. CASE ConnectCheck
  BY <1>2 DEF ConnectCheck, TypeOK
<1>3. ASSUME NEW t \in Task, Create(t) PROVE TypeOK'
  BY <1>3 DEF Create, TypeOK, Label
<1>4. CASE CreateFails
  BY <1>4 DEF CreateFails, TypeOK
<1>5. CASE DisconnectSend
  BY <1>5, EnqueueType DEF DisconnectSend, TypeOK
<1>6. CASE DisconnectDetach
  BY <1>6 DEF DisconnectDetach, TypeOK
<1>7. ASSUME NEW t \in Task, TaskStart(t) PROVE TypeOK'
  BY <1>7 DEF TaskStart, TypeOK, Label
<1>8. ASSUME NEW t \in Task, WifiAndToken(t) PROVE TypeOK'
  BY <1>8, TokenType
<1>9. ASSUME NEW t \in Task, Dial(t) PROVE TypeOK'
  <2>1. my_socket' \in [Task -> Fd \cup {-1}]
    BY <1>9 DEF Dial, TypeOK
  <2>2. open' \subseteq Fd
    BY <1>9 DEF Dial, TypeOK
  <2>3. pc' \in [Task -> Label]
    BY <1>9 DEF Dial, TypeOK, Label
  <2>4. QED
    BY <1>9, <2>1, <2>2, <2>3 DEF Dial, TypeOK
<1>10. ASSUME NEW t \in Task, NewClient(t) PROVE TypeOK'
  BY <1>10 DEF NewClient, TypeOK, Label
<1>11. ASSUME NEW t \in Task, MqttConnect(t) PROVE TypeOK'
  <2>1. pc' \in [Task -> Label]
    BY <1>11 DEF MqttConnect, TypeOK, Label
  <2>2. isconnected' \in BOOLEAN
    BY <1>11, Zenon DEF MqttConnect, TypeOK
  <2>3. sessions' \in Nat
    <3>1. sessions' = sessions + 1 \/ sessions' = sessions
      BY <1>11, Zenon DEF MqttConnect
    <3>2. QED
      BY <3>1 DEF TypeOK
  <2>4. QED
    BY <1>11, <2>1, <2>2, <2>3 DEF MqttConnect, TypeOK
<1>12. ASSUME NEW t \in Task, Refused(t) PROVE TypeOK'
  BY <1>12 DEF Refused, TypeOK, Label
<1>13. ASSUME NEW t \in Task, Close(t) PROVE TypeOK'
  BY <1>13 DEF Close, TypeOK, Label
<1>14. ASSUME NEW t \in Task, Delay(t) PROVE TypeOK'
  BY <1>14 DEF Delay, TypeOK, Label
<1>15. ASSUME NEW t \in Task, End(t) PROVE TypeOK'
  BY <1>15 DEF End, TypeOK, Label
<1>16. ASSUME NEW t \in Task, Delete(t) PROVE TypeOK'
  BY <1>16 DEF Delete, TypeOK, Label
<1>17. ASSUME NEW t \in Task, Reset(t) PROVE TypeOK'
  BY <1>17 DEF Reset, TypeOK, Label
<1>18. ASSUME NEW t \in Task, SetAlias(t) PROVE TypeOK'
  <2>1. CASE HasAlias
    BY <1>18, <2>1, EnqueueType DEF SetAlias, TypeOK, Label
  <2>2. CASE ~HasAlias
    BY <1>18, <2>2 DEF SetAlias, TypeOK, Label
  <2>3. QED
    BY <2>1, <2>2
<1>19. ASSUME NEW t \in Task, Callback(t) PROVE TypeOK'
  BY <1>19 DEF Callback, TypeOK, Label
<1>20. ASSUME NEW t \in Task, ReadQueue(t) PROVE TypeOK'
  <2>1. /\ Head(ps_queue) \in PubSubQueueMsg
        /\ Tail(ps_queue) \in Seq(PubSubQueueMsg)
        /\ Len(Tail(ps_queue)) <= QueueLen
    BY <1>20, TailSeq DEF ReadQueue, TypeOK
  <2>2. msg' \in [Task -> PubSubQueueMsg]
    BY <1>20, <2>1, Zenon DEF ReadQueue, TypeOK
  <2>5. activeTask' \in [Task -> BOOLEAN]
    <3>1. activeTask' = [activeTask EXCEPT ![t] = FALSE] \/ activeTask' = activeTask
      BY <1>20, Zenon DEF ReadQueue
    <3>2. QED
      BY <3>1 DEF TypeOK
  <2>3. pc' \in [Task -> Label]
    BY <1>20 DEF ReadQueue, TypeOK, Label
  <2>4. QED
    BY <1>20, <2>1, <2>2, <2>3, <2>5 DEF ReadQueue, TypeOK
<1>21. ASSUME NEW t \in Task, QueueEmpty(t) PROVE TypeOK'
  BY <1>21 DEF QueueEmpty, TypeOK, Label
<1>22. ASSUME NEW t \in Task, CommandSucceeds(t) PROVE TypeOK'
  BY <1>22, TransmitType, ReleaseType DEF CommandSucceeds, TypeOK, Label
<1>23. ASSUME NEW t \in Task, CommandFails(t) PROVE TypeOK'
  <2>1. wire' \in Seq(Sent)
    BY <1>23, TransmitType DEF CommandFails, TypeOK
  <2>2. pc' \in [Task -> Label]
    BY <1>23 DEF CommandFails, TypeOK, Label
  <2>3. QED
    BY <1>23, <2>1, <2>2, ReleaseType DEF CommandFails, TypeOK
<1>24. ASSUME NEW t \in Task, Yield(t) PROVE TypeOK'
  BY <1>24 DEF Yield, TypeOK, Label
<1>25. CASE UNCHANGED vars
  BY <1>25 DEF vars, TypeOK
<1>26. CASE Others
  BY <1>26, OthersType
<1>27. QED
  BY <1>1, <1>2, <1>3, <1>4, <1>5, <1>6, <1>7, <1>8, <1>9, <1>10, <1>11, <1>12, <1>13, <1>14, <1>15, <1>16, <1>17, <1>18, <1>19, <1>20, <1>21, <1>22, <1>23, <1>24, <1>25, <1>26 DEF Next, Api, TaskStep

(* The task's steps leave mqtttask, disconnects and Running alone, but for   *)
(* Create, DisconnectDetach and End; connect starts a task only when it      *)
(* found no handle.                                                          *)
Quiet ==
  /\ Running' = Running /\ mqtttask' = mqtttask /\ disconnects' = disconnects
  /\ api' = "create" => api = "create" \/ mqtttask = NoTask

LEMMA QuietSteps ==
  ASSUME TypeOK, [Next]_vars
  PROVE  Quiet \/ (\E t \in Task : Create(t) \/ End(t)) \/ DisconnectDetach
<1> USE DEF queueVars, clientVars, taskVars, socketVars, handleVars, sentVars, Goto
<1>1. ASSUME NEW type \in RequestType, Request(type) PROVE Quiet
  BY <1>1 DEF Request, Quiet, Running
<1>2. CASE ConnectCheck
  BY <1>2 DEF ConnectCheck, Quiet, Running
<1>3. CASE CreateFails
  BY <1>3 DEF CreateFails, Quiet, Running
<1>4. CASE DisconnectSend
  BY <1>4 DEF DisconnectSend, Quiet, Running
<1>5. ASSUME NEW t \in Task, TaskStart(t) PROVE Quiet
  BY <1>5 DEF TaskStart, Quiet, Running, TypeOK
<1>6. ASSUME NEW t \in Task, WifiAndToken(t) PROVE Quiet
  BY <1>6, TokenMoves DEF Quiet, Running, TypeOK
<1>7. ASSUME NEW t \in Task, Dial(t) PROVE Quiet
  BY <1>7 DEF Dial, Quiet, Running, TypeOK
<1>8. ASSUME NEW t \in Task, NewClient(t) PROVE Quiet
  BY <1>8 DEF NewClient, Quiet, Running, TypeOK
<1>9. ASSUME NEW t \in Task, MqttConnect(t) PROVE Quiet
  BY <1>9 DEF MqttConnect, Quiet, Running, TypeOK
<1>10. ASSUME NEW t \in Task, Refused(t) PROVE Quiet
  BY <1>10 DEF Refused, Quiet, Running, TypeOK
<1>11. ASSUME NEW t \in Task, Close(t) PROVE Quiet
  BY <1>11 DEF Close, Quiet, Running, TypeOK
<1>12. ASSUME NEW t \in Task, Delay(t) PROVE Quiet
  BY <1>12 DEF Delay, Quiet, Running, TypeOK
<1>13. ASSUME NEW t \in Task, Delete(t) PROVE Quiet
  BY <1>13 DEF Delete, Quiet, Running, TypeOK
<1>14. ASSUME NEW t \in Task, Reset(t) PROVE Quiet
  BY <1>14 DEF Reset, Quiet, Running, TypeOK
<1>15. ASSUME NEW t \in Task, SetAlias(t) PROVE Quiet
  BY <1>15 DEF SetAlias, Quiet, Running, TypeOK
<1>16. ASSUME NEW t \in Task, Callback(t) PROVE Quiet
  BY <1>16 DEF Callback, Quiet, Running, TypeOK
<1>17. ASSUME NEW t \in Task, ReadQueue(t) PROVE Quiet
  BY <1>17 DEF ReadQueue, Quiet, Running, TypeOK
<1>18. ASSUME NEW t \in Task, QueueEmpty(t) PROVE Quiet
  BY <1>18 DEF QueueEmpty, Quiet, Running, TypeOK
<1>19. ASSUME NEW t \in Task, CommandSucceeds(t) PROVE Quiet
  BY <1>19 DEF CommandSucceeds, Quiet, Running, TypeOK
<1>20. ASSUME NEW t \in Task, CommandFails(t) PROVE Quiet
  BY <1>20 DEF CommandFails, Quiet, Running, TypeOK
<1>21. ASSUME NEW t \in Task, Yield(t) PROVE Quiet
  BY <1>21 DEF Yield, Quiet, Running, TypeOK
<1>22. CASE UNCHANGED vars
  BY <1>22 DEF vars, Quiet, Running
<1>23. CASE Others
  BY <1>23, OthersMoves DEF Quiet, Running
<1>24. QED
  BY <1>1, <1>2, <1>3, <1>4, <1>5, <1>6, <1>7, <1>8, <1>9, <1>10, <1>11, <1>12, <1>13, <1>14, <1>15, <1>16, <1>17, <1>18, <1>19, <1>20, <1>21, <1>22, <1>23 DEF Next, Api, TaskStep

-----------------------------------------------------------------------------
(* The handle and the tasks that run.                                      *)

HandleInv ==
  /\ HandleLive
  /\ api = "create" => mqtttask = NoTask

LEMMA RunningFinite ==
  /\ IsFiniteSet(Running) /\ Cardinality(Running) \in Nat
  /\ NoTask \notin Running
<1>1. Running \subseteq Task
  BY DEF Running
<1>2. QED
  BY <1>1, FS_Subset, FS_CardinalityType

LEMMA InitHandle == Init => HandleInv /\ OrphanBound
<1> SUFFICES ASSUME Init PROVE HandleInv /\ OrphanBound
  OBVIOUS
<1>1. Running = {}
  BY DEF Init, Running
<1>2. Running \ {mqtttask} = {}
  BY <1>1
<1>3. QED
  BY <1>1, <1>2, FS_EmptySet DEF Init, HandleInv, HandleLive, OrphanBound

LEMMA CreateRunning ==
  ASSUME TypeOK, NEW t \in Task, Create(t)
  PROVE  Running' = Running \cup {t} /\ t \notin Running
BY DEF TypeOK, Create, Running

LEMMA EndRunning ==
  ASSUME TypeOK, NEW t \in Task, End(t)
  PROVE  Running' = Running \ {t} /\ t \in Running
BY DEF TypeOK, End, Running, Goto

LEMMA StepHandle ==
  ASSUME TypeOK, HandleInv, [Next]_vars
  PROVE  HandleInv'
<1>1. CASE Quiet
  BY <1>1 DEF Quiet, HandleInv, HandleLive
<1>2. ASSUME NEW t \in Task, Create(t) PROVE HandleInv'
  <2>1. mqtttask' = t /\ api' = "idle"
    BY <1>2 DEF Create
  <2>2. QED
    BY <1>2, <2>1, CreateRunning DEF HandleInv, HandleLive
<1>3. ASSUME NEW t \in Task, End(t) PROVE HandleInv'
  BY <1>3 DEF End, HandleInv, HandleLive, handleVars
<1>4. CASE DisconnectDetach
  BY <1>4 DEF DisconnectDetach, HandleInv, HandleLive
<1>5. QED
  BY <1>1, <1>2, <1>3, <1>4, QuietSteps

LEMMA StepOrphan ==
  ASSUME TypeOK, HandleInv, OrphanBound, [Next]_vars
  PROVE  OrphanBound'
<1>1. CASE Quiet
  BY <1>1 DEF Quiet, OrphanBound
<1>2. ASSUME NEW t \in Task, Create(t) PROVE OrphanBound'
  <2>1. mqtttask' = t /\ disconnects' = disconnects /\ mqtttask = NoTask
    BY <1>2 DEF Create, HandleInv
  <2>2. Running' \ {mqtttask'} = Running \ {mqtttask}
    BY <1>2, <2>1, CreateRunning, RunningFinite
  <2>3. QED
    BY <2>1, <2>2 DEF OrphanBound
<1>3. ASSUME NEW t \in Task, End(t) PROVE OrphanBound'
  <2>1. mqtttask' = NoTask /\ disconnects' = disconnects
    BY <1>3 DEF End
  <2>2. Running' \ {mqtttask'} = Running \ {t} /\ t \in Running
    BY <1>3, <2>1, EndRunning, RunningFinite
  <2>3. /\ Cardinality(Running \ {t}) = Cardinality(Running) - 1
        /\ Cardinality(Running \ {mqtttask}) =
             IF mqtttask \in Running THEN Cardinality(Running) - 1 ELSE Cardinality(Running)
    BY <2>2, RunningFinite, FS_RemoveElement
  <2>4. Cardinality(Running \ {t}) <= Cardinality(Running \ {mqtttask})
    BY <2>3, RunningFinite
  <2>5. Cardinality(Running \ {t}) <= disconnects
    BY <2>3, <2>4, RunningFinite DEF OrphanBound, TypeOK
  <2>6. QED
    BY <2>1, <2>2, <2>5 DEF OrphanBound
<1>4. CASE DisconnectDetach
  <2>1. mqtttask' = NoTask /\ disconnects' = disconnects + 1 /\ Running' = Running
    BY <1>4 DEF DisconnectDetach, Running
  <2>2. Running' \ {mqtttask'} = Running
    BY <2>1, RunningFinite
  <2>3. /\ IsFiniteSet(Running \ {mqtttask})
        /\ Cardinality(Running \ {mqtttask}) =
             IF mqtttask \in Running THEN Cardinality(Running) - 1 ELSE Cardinality(Running)
    BY RunningFinite, FS_RemoveElement
  <2>4. Cardinality(Running) <= Cardinality(Running \ {mqtttask}) + 1
    BY <2>3, RunningFinite
  <2>5. Cardinality(Running) <= disconnects + 1
    BY <2>3, <2>4, RunningFinite DEF OrphanBound, TypeOK
  <2>6. QED
    BY <2>1, <2>2, <2>5 DEF OrphanBound
<1>5. QED
  BY <1>1, <1>2, <1>3, <1>4, QuietSteps

-----------------------------------------------------------------------------
(* The numbers of the requests: in the queue they increase; what a task      *)
(* holds or has written is older than all that is queued, and newer than the *)
(* task's last reset.                                                        *)

Holds(t) == pc[t] = "command"

QueueOrdered ==
  /\ \A i \in 1..Len(ps_queue) : ps_queue[i].id <= accepted
  /\ \A i, j \in 1..Len(ps_queue) : i < j => ps_queue[i].id < ps_queue[j].id

HandInv ==
  \A t \in Task : Holds(t) =>
    /\ msg[t].id <= accepted
    /\ \A i \in 1..Len(ps_queue) : msg[t].id < ps_queue[i].id
    /\ \A i \in 1..Len(wire) : wire[i].id # msg[t].id
    /\ \A u \in Task \ {t} : Holds(u) => msg[u].id # msg[t].id

WireInv ==
  /\ \A i \in 1..Len(wire) : wire[i].id <= accepted
  /\ \A i \in 1..Len(wire), j \in 1..Len(ps_queue) : wire[i].id < ps_queue[j].id
  /\ \A t \in Task : Holds(t) =>
       \A i \in 1..Len(wire) : wire[i].task = t => wire[i].id < msg[t].id

FloorInv ==
  \A t \in Task :
    /\ floor[t] <= accepted
    /\ pc[t] \in Draining => \A i \in 1..Len(ps_queue) : floor[t] < ps_queue[i].id
    /\ Holds(t) => floor[t] < msg[t].id

QueueInv == QueueOrdered /\ HandInv /\ WireInv /\ FloorInv /\ AtMostOnce /\ TaskOrder

LEMMA ElementTypes ==
  ASSUME TypeOK
  PROVE  /\ Len(ps_queue) \in Nat /\ Len(wire) \in Nat /\ accepted \in Nat
         /\ \A i \in 1..Len(ps_queue) : ps_queue[i].id \in Nat
         /\ \A i \in 1..Len(wire) : wire[i].id \in Nat /\ wire[i].task \in Task
         /\ \A t \in Task : msg[t].id \in Nat /\ floor[t] \in Nat
<1>1. Len(ps_queue) \in Nat /\ Len(wire) \in Nat
  BY LenProperties DEF TypeOK
<1>2. \A i \in 1..Len(ps_queue) : ps_queue[i] \in PubSubQueueMsg
  BY ElementOfSeq DEF TypeOK
<1>3. \A i \in 1..Len(wire) : wire[i] \in Sent
  BY ElementOfSeq DEF TypeOK
<1>4. QED
  BY <1>1, <1>2, <1>3 DEF TypeOK, PubSubQueueMsg, Sent

LEMMA InitQueue == Init => QueueInv
BY EmptySeq DEF Init, QueueInv, QueueOrdered, HandInv, WireInv, FloorInv, AtMostOnce,
   TaskOrder, Holds, Draining, Online, NoMsg

(* What the steps that are neither a reset nor a receive nor the end of a    *)
(* command do to the tasks: no task starts or ceases to hold a message, and  *)
(* none starts to drain.                                                     *)
Passive ==
  /\ wire' = wire /\ msg' = msg
  /\ \A u \in Task :
       /\ pc'[u] = "command" <=> pc[u] = "command"
       /\ pc'[u] \in Draining => pc[u] \in Draining
       /\ floor'[u] = floor[u] \/ (floor'[u] = 0 /\ pc'[u] \notin Draining)

(* What xQueueSend does to the queue.                                        *)
Grown ==
  \/ ps_queue' = ps_queue /\ accepted' = accepted
  \/ /\ accepted' = accepted + 1 /\ Len(ps_queue') = Len(ps_queue) + 1
     /\ \A i \in 1..Len(ps_queue) : ps_queue'[i] = ps_queue[i]
     /\ ps_queue'[Len(ps_queue) + 1].id = accepted + 1

LEMMA EnqueueGrows ==
  ASSUME TypeOK, NEW type \in RequestType \cup {"PSQ_DISCONNECT", "PSQ_PUBLISH", "PSQ_SUBSCRIBE"}, Enqueue(type)
  PROVE  Grown
<1> DEFINE m == [type |-> type, id |-> accepted + 1]
<1>1. m \in PubSubQueueMsg
  BY DEF TypeOK, PubSubQueueMsg
<1>2. CASE Len(ps_queue) < QueueLen
  <2>1. ps_queue' = Append(ps_queue, m) /\ accepted' = accepted + 1
    BY <1>2 DEF Enqueue
  <2>2. QED
    BY <1>1, <2>1, AppendSeq DEF TypeOK, Grown
<1>3. CASE ~(Len(ps_queue) < QueueLen)
  BY <1>3 DEF Enqueue, queueVars, Grown
<1>4. QED
  BY <1>2, <1>3

LEMMA MovePassive ==
  ASSUME TypeOK, NEW t \in Task, NEW label, pc[t] # "command",
         label # "command", label \in Draining => pc[t] \in Draining,
         Goto(t, label), msg' = msg, wire' = wire, floor' = floor
  PROVE  Passive
<1> SUFFICES ASSUME NEW u \in Task
             PROVE  /\ pc'[u] = "command" <=> pc[u] = "command"
                    /\ pc'[u] \in Draining => pc[u] \in Draining
                    /\ floor'[u] = floor[u]
  BY Zenon DEF Passive
<1>1. pc'[u] = IF u = t THEN label ELSE pc[u]
  BY DEF TypeOK, Goto
<1>2. QED
  BY <1>1, Zenon

LEMMA StillPassive ==
  ASSUME pc' = pc, msg' = msg, wire' = wire, floor' = floor
  PROVE  Passive
BY Zenon DEF Passive

(* The steps of a task that are passive.                                     *)
PassiveStep(t) ==
  \/ TaskStart(t) \/ WifiAndToken(t) \/ Dial(t) \/ NewClient(t) \/ MqttConnect(t)
  \/ Refused(t) \/ Close(t) \/ Delay(t) \/ End(t) \/ Delete(t)
  \/ SetAlias(t) \/ Callback(t) \/ QueueEmpty(t) \/ Yield(t)

LEMMA DeletePassive ==
  ASSUME TypeOK, NEW t \in Task, Delete(t)
  PROVE  Passive
<1> SUFFICES ASSUME NEW u \in Task
             PROVE  /\ pc'[u] = "command" <=> pc[u] = "command"
                    /\ pc'[u] \in Draining => pc[u] \in Draining
                    /\ floor'[u] = floor[u] \/ (floor'[u] = 0 /\ pc'[u] \notin Draining)
  BY Zenon DEF Passive, Delete
<1>1. pc'[u] = (IF u = t THEN "none" ELSE pc[u]) /\ pc[t] = "delete"
  BY DEF Delete, Goto, TypeOK
<1>2. floor'[u] = IF u = t THEN 0 ELSE floor[u]
  BY DEF Delete, TypeOK
<1>3. QED
  BY <1>1, <1>2 DEF Draining, Online

LEMMA PassiveTask ==
  ASSUME TypeOK, NEW t \in Task, PassiveStep(t)
  PROVE  Passive
<1> USE DEF taskVars, sentVars
<1>1. CASE SetAlias(t)
  BY <1>1, MovePassive DEF SetAlias, Draining, Online
<1>2. CASE TaskStart(t)
  BY <1>2, MovePassive DEF TaskStart, Draining, Online
<1>3. CASE WifiAndToken(t)
  <2>1. PICK label \in {"token", "exchange", "dial", "end"} : Goto(t, label)
    BY <1>3, TokenMoves
  <2>2. QED
    BY <1>3, <2>1, TokenMoves, MovePassive DEF Draining, Online
<1>4. CASE Dial(t)
  BY <1>4, MovePassive DEF Dial, Draining, Online
<1>5. CASE NewClient(t)
  BY <1>5, MovePassive DEF NewClient, Draining, Online
<1>6. CASE MqttConnect(t)
  BY <1>6, MovePassive DEF MqttConnect, Draining, Online
<1>7. CASE Refused(t)
  BY <1>7, MovePassive DEF Refused, Draining, Online
<1>8. CASE Close(t)
  BY <1>8, MovePassive DEF Close, Draining, Online
<1>9. CASE Delay(t)
  BY <1>9, MovePassive DEF Delay, Draining, Online
<1>10. CASE End(t)
  BY <1>10, MovePassive DEF End, Draining, Online
<1>11. CASE Callback(t)
  BY <1>11, MovePassive DEF Callback, Draining, Online
<1>12. CASE QueueEmpty(t)
  BY <1>12, MovePassive DEF QueueEmpty, Draining, Online
<1>13. CASE Yield(t)
  BY <1>13, MovePassive DEF Yield, Draining, Online
<1>14. CASE Delete(t)
  BY <1>14, DeletePassive
<1> QED
  BY <1>1, <1>2, <1>3, <1>4, <1>5, <1>6, <1>7, <1>8, <1>9, <1>10, <1>11, <1>12, <1>13, <1>14 DEF PassiveStep

LEMMA PassiveApi ==
  ASSUME TypeOK, Api \/ Others \/ UNCHANGED vars
  PROVE  Passive
<1> USE DEF taskVars, sentVars
<1>1. ASSUME NEW type \in RequestType, Request(type) PROVE Passive
  BY <1>1, StillPassive DEF Request
<1>2. CASE ConnectCheck
  BY <1>2, StillPassive DEF ConnectCheck
<1>3. ASSUME NEW t \in Task, Create(t) PROVE Passive
  BY <1>3, MovePassive DEF Create, Goto, Draining, Online
<1>4. CASE CreateFails
  BY <1>4, StillPassive DEF CreateFails
<1>5. CASE DisconnectSend
  BY <1>5, StillPassive DEF DisconnectSend
<1>6. CASE DisconnectDetach
  BY <1>6, StillPassive DEF DisconnectDetach
<1>7. CASE UNCHANGED vars
  BY <1>7, StillPassive DEF vars
<1>8. CASE Others
  BY <1>8, OthersMoves, StillPassive
<1> QED
  BY <1>1, <1>2, <1>3, <1>4, <1>5, <1>6, <1>7, <1>8 DEF Api

LEMMA PassiveSteps ==
  ASSUME TypeOK, [Next]_vars
  PROVE  \/ Passive
         \/ \E t \in Task :
              Reset(t) \/ ReadQueue(t) \/ CommandSucceeds(t) \/ CommandFails(t)
BY PassiveTask, PassiveApi DEF Next, TaskStep, PassiveStep

LEMMA GrownSteps ==
  ASSUME TypeOK, [Next]_vars
  PROVE  Grown \/ \E t \in Task : Reset(t) \/ ReadQueue(t)
<1> USE DEF queueVars
<1>1. UNCHANGED queueVars => Grown
  BY Zenon DEF Grown
<1>2. ASSUME NEW type \in RequestType, Request(type) PROVE Grown
  BY <1>2, EnqueueGrows, Zenon DEF Request
<1>3. CASE ConnectCheck
  BY <1>3, <1>1, Zenon DEF ConnectCheck
<1>4. ASSUME NEW t \in Task, Create(t) PROVE Grown
  BY <1>4, <1>1, Zenon DEF Create
<1>5. CASE CreateFails
  BY <1>5, <1>1, Zenon DEF CreateFails
<1>6. CASE DisconnectSend
  BY <1>6, EnqueueGrows, Zenon DEF DisconnectSend
<1>7. CASE DisconnectDetach
  BY <1>7, <1>1, Zenon DEF DisconnectDetach
<1>8. ASSUME NEW t \in Task, TaskStart(t) PROVE Grown
  BY <1>8, <1>1, Zenon DEF TaskStart
<1>9. ASSUME NEW t \in Task, WifiAndToken(t) PROVE Grown
  BY <1>9, <1>1, TokenMoves
<1>10. ASSUME NEW t \in Task, Dial(t) PROVE Grown
  BY <1>10, <1>1, Zenon DEF Dial
<1>11. ASSUME NEW t \in Task, NewClient(t) PROVE Grown
  BY <1>11, <1>1, Zenon DEF NewClient
<1>12. ASSUME NEW t \in Task, MqttConnect(t) PROVE Grown
  BY <1>12, <1>1, Zenon DEF MqttConnect
<1>13. ASSUME NEW t \in Task, Refused(t) PROVE Grown
  BY <1>13, <1>1, Zenon DEF Refused
<1>14. ASSUME NEW t \in Task, Close(t) PROVE Grown
  BY <1>14, <1>1, Zenon DEF Close
<1>15. ASSUME NEW t \in Task, Delay(t) PROVE Grown
  BY <1>15, <1>1, Zenon DEF Delay
<1>16. ASSUME NEW t \in Task, End(t) PROVE Grown
  BY <1>16, <1>1, Zenon DEF End
<1>17. ASSUME NEW t \in Task, Delete(t) PROVE Grown
  BY <1>17, <1>1, Zenon DEF Delete
<1>18. ASSUME NEW t \in Task, SetAlias(t) PROVE Grown
  BY <1>18, <1>1, EnqueueGrows, Zenon DEF SetAlias
<1>19. ASSUME NEW t \in Task, Callback(t) PROVE Grown
  BY <1>19, <1>1, Zenon DEF Callback
<1>20. ASSUME NEW t \in Task, QueueEmpty(t) PROVE Grown
  BY <1>20, <1>1, Zenon DEF QueueEmpty
<1>21. ASSUME NEW t \in Task, CommandSucceeds(t) PROVE Grown
  BY <1>21, <1>1, Zenon DEF CommandSucceeds
<1>22. ASSUME NEW t \in Task, CommandFails(t) PROVE Grown
  BY <1>22, <1>1, Zenon DEF CommandFails
<1>23. ASSUME NEW t \in Task, Yield(t) PROVE Grown
  BY <1>23, <1>1, Zenon DEF Yield
<1>24. CASE UNCHANGED vars
  BY <1>24, <1>1, Zenon DEF vars
<1>25. CASE Others
  BY <1>25, <1>1, OthersMoves
<1>26. QED
  BY <1>2, <1>3, <1>4, <1>5, <1>6, <1>7, <1>8, <1>9, <1>10, <1>11, <1>12, <1>13, <1>14, <1>15, <1>16, <1>17, <1>18, <1>19, <1>20, <1>21, <1>22, <1>23, <1>24, <1>25 DEF Next, Api, TaskStep

(* Steps that append to the queue at most, by tasks that hold what they held. *)
LEMMA PassiveQueue ==
  ASSUME TypeOK, TypeOK', QueueInv, Passive, Grown
  PROVE  QueueInv'
<1> DEFINE old == 1..Len(ps_queue)
           new == 1..Len(ps_queue')
<1>1. /\ accepted \in Nat /\ accepted' \in Nat /\ accepted <= accepted'
      /\ \A j \in new : \/ j \in old /\ ps_queue'[j] = ps_queue[j]
                        \/ /\ j = Len(ps_queue) + 1
                           /\ ps_queue'[j].id = accepted + 1 /\ accepted' = accepted + 1
  BY ElementTypes DEF Grown
<1>2. QueueOrdered'
  <2>1. ASSUME NEW i \in new PROVE ps_queue'[i].id <= accepted'
    BY <1>1, ElementTypes DEF QueueInv, QueueOrdered
  <2>2. ASSUME NEW i \in new, NEW j \in new, i < j PROVE ps_queue'[i].id < ps_queue'[j].id
    <3>1. i \in old /\ ps_queue'[i] = ps_queue[i]
      BY <1>1, <2>2, ElementTypes
    <3>2. CASE j \in old /\ ps_queue'[j] = ps_queue[j]
      BY <2>2, <3>1, <3>2 DEF QueueInv, QueueOrdered
    <3>3. CASE ps_queue'[j].id = accepted + 1
      BY <3>1, <3>3, ElementTypes DEF QueueInv, QueueOrdered
    <3>4. QED
      BY <1>1, <3>2, <3>3
  <2>3. QED
    BY <2>1, <2>2 DEF QueueOrdered
<1>3. HandInv'
  <2> SUFFICES ASSUME NEW t \in Task, Holds(t)'
               PROVE  /\ msg'[t].id <= accepted'
                      /\ \A i \in new : msg'[t].id < ps_queue'[i].id
                      /\ \A i \in 1..Len(wire') : wire'[i].id # msg'[t].id
                      /\ \A u \in Task \ {t} : Holds(u)' => msg'[u].id # msg'[t].id
    BY DEF HandInv
  <2>1. \A u \in Task : Holds(u)' => Holds(u) /\ msg'[u] = msg[u]
    BY DEF Passive, Holds
  <2>2. /\ msg'[t] = msg[t] /\ msg[t].id <= accepted
        /\ \A i \in old : msg[t].id < ps_queue[i].id
    BY <2>1 DEF QueueInv, HandInv
  <2>3. msg'[t].id <= accepted'
    BY <1>1, <2>2, ElementTypes
  <2>4. ASSUME NEW i \in new PROVE msg'[t].id < ps_queue'[i].id
    <3>1. CASE i \in old /\ ps_queue'[i] = ps_queue[i]
      BY <2>2, <3>1
    <3>2. CASE ps_queue'[i].id = accepted + 1
      BY <2>2, <3>2, ElementTypes
    <3>3. QED
      BY <1>1, <3>1, <3>2
  <2>5. \A i \in 1..Len(wire') : wire'[i].id # msg'[t].id
    BY <2>1 DEF QueueInv, HandInv, Passive
  <2>6. \A u \in Task \ {t} : Holds(u)' => msg'[u].id # msg'[t].id
    BY <2>1 DEF QueueInv, HandInv
  <2>7. QED
    BY <2>3, <2>4, <2>5, <2>6
<1>4. WireInv'
  <2>1. wire' = wire /\ \A u \in Task : Holds(u)' => Holds(u) /\ msg'[u] = msg[u]
    BY DEF Passive, Holds
  <2>2. \A i \in 1..Len(wire') : wire'[i].id <= accepted'
    BY <1>1, <2>1, ElementTypes DEF QueueInv, WireInv
  <2>3. \A i \in 1..Len(wire'), j \in new : wire'[i].id < ps_queue'[j].id
    BY <1>1, <2>1, ElementTypes DEF QueueInv, WireInv
  <2>4. \A t \in Task : Holds(t)' =>
          \A i \in 1..Len(wire') : wire'[i].task = t => wire'[i].id < msg'[t].id
    BY <2>1 DEF QueueInv, WireInv
  <2>5. QED
    BY <2>2, <2>3, <2>4 DEF WireInv
<1>5. FloorInv'
  <2> SUFFICES ASSUME NEW t \in Task
               PROVE  /\ floor'[t] <= accepted'
                      /\ pc'[t] \in Draining => \A i \in new : floor'[t] < ps_queue'[i].id
                      /\ Holds(t)' => floor'[t] < msg'[t].id
    BY DEF FloorInv, Draining, Online
  <2>1. floor'[t] <= floor[t] /\ floor'[t] \in Nat
    BY ElementTypes DEF Passive
  <2>2. floor'[t] <= accepted'
    BY <1>1, <2>1, ElementTypes DEF QueueInv, FloorInv
  <2>3. ASSUME pc'[t] \in Draining, NEW i \in new PROVE floor'[t] < ps_queue'[i].id
    <3>1. pc[t] \in Draining
      BY <2>3 DEF Passive
    <3>2. floor[t] <= accepted /\ \A k \in old : floor[t] < ps_queue[k].id
      BY <3>1 DEF QueueInv, FloorInv
    <3>3. floor[t] \in Nat /\ floor'[t] \in Nat /\ accepted \in Nat
      BY <2>1, ElementTypes
    <3>4. CASE i \in old /\ ps_queue'[i] = ps_queue[i]
      <4>1. ps_queue[i].id \in Nat /\ floor[t] < ps_queue[i].id
        BY <3>2, <3>4, ElementTypes
      <4>2. QED
        BY <2>1, <3>3, <3>4, <4>1
    <3>5. CASE ps_queue'[i].id = accepted + 1
      BY <2>1, <3>2, <3>3, <3>5
    <3>6. QED
      BY <1>1, <3>4, <3>5
  <2>4. ASSUME Holds(t)' PROVE floor'[t] < msg'[t].id
    <3>1. Holds(t) /\ msg'[t] = msg[t] /\ floor'[t] = floor[t]
      <4>1. pc'[t] \in Draining
        BY <2>4 DEF Holds, Draining, Online
      <4>2. QED
        BY <2>4, <4>1, Zenon DEF Holds, Passive
    <3>2. QED
      BY <3>1 DEF QueueInv, FloorInv
  <2>5. QED
    BY <2>2, <2>3, <2>4
<1>6. AtMostOnce' /\ TaskOrder'
  BY DEF QueueInv, AtMostOnce, TaskOrder, Passive
<1>7. QED
  BY <1>2, <1>3, <1>4, <1>5, <1>6 DEF QueueInv

LEMMA ResetQueue ==
  ASSUME TypeOK, QueueInv, NEW t \in Task, Reset(t)
  PROVE  QueueInv'
<1>1. /\ ps_queue' = <<>> /\ accepted' = accepted /\ wire' = wire /\ msg' = msg
      /\ \A u \in Task : /\ pc'[u] = IF u = t THEN "alias" ELSE pc[u]
                         /\ floor'[u] = IF u = t THEN accepted ELSE floor[u]
  BY DEF Reset, Goto, TypeOK, taskVars
<1>2. \A u \in Task : Holds(u)' => Holds(u) /\ u # t
  BY <1>1 DEF Holds
<1>3. 1..Len(ps_queue') = {}
  BY <1>1, EmptySeq
<1>4. QueueOrdered' /\ AtMostOnce' /\ TaskOrder'
  BY <1>1, <1>3 DEF QueueInv, QueueOrdered, AtMostOnce, TaskOrder
<1>5. HandInv' /\ WireInv'
  BY <1>1, <1>2, <1>3 DEF QueueInv, HandInv, WireInv
<1>6. FloorInv'
  <2> SUFFICES ASSUME NEW u \in Task
               PROVE  floor'[u] <= accepted' /\ (Holds(u)' => floor'[u] < msg'[u].id)
    BY <1>3 DEF FloorInv, Draining, Online
  <2>1. QED
    BY <1>1, <1>2, ElementTypes DEF QueueInv, FloorInv
<1>7. QED
  BY <1>4, <1>5, <1>6 DEF QueueInv

(* The message a task receives is older than all that stays queued and newer *)
(* than all that was written or is held.                                     *)
LEMMA ReadQueueQueue ==
  ASSUME TypeOK, QueueInv, NEW t \in Task, ReadQueue(t)
  PROVE  QueueInv'
<1> DEFINE new == 1..Len(ps_queue')
<1>1. /\ accepted' = accepted /\ wire' = wire /\ floor' = floor
      /\ Len(ps_queue) \in Nat \ {0}
      /\ \A i \in new : i \in Nat /\ i + 1 \in 1..Len(ps_queue) /\ i + 1 > 1
                       /\ ps_queue'[i] = ps_queue[i + 1]
  BY TailSeq DEF ReadQueue, TypeOK, sentVars
<1>2. \A u \in Task \ {t} : msg'[u] = msg[u] /\ pc'[u] = pc[u]
  BY DEF ReadQueue, TypeOK, Goto
<1>3. pc[t] = "read" /\ pc[t] \in Draining
  BY DEF ReadQueue, Draining, Online
<1>4. Holds(t)' => msg'[t] = ps_queue[1]
  BY TailSeq DEF ReadQueue, TypeOK, Goto, Holds
<1>5. /\ ps_queue[1].id \in Nat /\ ps_queue[1].id <= accepted
      /\ \A i \in new : ps_queue[1].id < ps_queue'[i].id
  BY <1>1, ElementTypes DEF QueueInv, QueueOrdered
<1>6. QueueOrdered'
  <2>1. \A i \in new : ps_queue'[i].id <= accepted'
    BY <1>1 DEF QueueInv, QueueOrdered
  <2>2. ASSUME NEW i \in new, NEW j \in new, i < j PROVE ps_queue'[i].id < ps_queue'[j].id
    <3>1. i + 1 < j + 1
      BY <1>1, <2>2
    <3>2. QED
      BY <1>1, <3>1 DEF QueueInv, QueueOrdered
  <2>3. QED
    BY <2>1, <2>2 DEF QueueOrdered
<1>7. HandInv'
  <2>1. ASSUME NEW u \in Task, Holds(u)'
        PROVE  /\ msg'[u].id <= accepted' /\ \A i \in new : msg'[u].id < ps_queue'[i].id
               /\ \A i \in 1..Len(wire') : wire'[i].id # msg'[u].id
    <3>1. CASE u = t
      <4>1. \A i \in 1..Len(wire) : wire[i].id \in Nat /\ wire[i].id < ps_queue[1].id
        BY <1>1, ElementTypes DEF QueueInv, WireInv
      <4>2. QED
        BY <1>1, <1>4, <1>5, <2>1, <3>1, <4>1
    <3>2. CASE u # t
      <4>1. Holds(u) /\ msg'[u] = msg[u]
        BY <1>2, <2>1, <3>2 DEF Holds
      <4>2. QED
        BY <1>1, <4>1 DEF QueueInv, HandInv
    <3>3. QED
      BY <3>1, <3>2
  <2>2. ASSUME NEW u \in Task \ {t}, Holds(u)', Holds(t)' PROVE msg'[u].id # msg'[t].id
    <3>1. Holds(u) /\ msg'[u] = msg[u]
      BY <1>2, <2>2 DEF Holds
    <3>2. msg[u].id < ps_queue[1].id
      BY <1>1, <3>1 DEF QueueInv, HandInv
    <3>3. QED
      BY <1>4, <1>5, <2>2, <3>1, <3>2, ElementTypes
  <2>3. ASSUME NEW u \in Task, NEW v \in Task \ {u}, Holds(u)', Holds(v)'
        PROVE  msg'[v].id # msg'[u].id
    <3>1. CASE u = t \/ v = t
      BY <2>2, <2>3, <3>1
    <3>2. CASE u # t /\ v # t
      BY <1>2, <2>3, <3>2 DEF QueueInv, HandInv, Holds
    <3>3. QED
      BY <3>1, <3>2
  <2>4. QED
    BY <2>1, <2>3 DEF HandInv
<1>8. WireInv'
  <2>1. /\ \A i \in 1..Len(wire') : wire'[i].id <= accepted'
        /\ \A i \in 1..Len(wire'), j \in new : wire'[i].id < ps_queue'[j].id
    BY <1>1 DEF QueueInv, WireInv
  <2>2. ASSUME NEW u \in Task, Holds(u)', NEW i \in 1..Len(wire'), wire'[i].task = u
        PROVE  wire'[i].id < msg'[u].id
    <3>1. CASE u = t
      BY <1>1, <1>4, <2>2, <3>1 DEF QueueInv, WireInv
    <3>2. CASE u # t
      BY <1>1, <1>2, <2>2, <3>2 DEF QueueInv, WireInv, Holds
    <3>3. QED
      BY <3>1, <3>2
  <2>3. QED
    BY <2>1, <2>2 DEF WireInv
<1>9. FloorInv'
  <2> SUFFICES ASSUME NEW u \in Task
               PROVE  /\ floor'[u] <= accepted'
                      /\ pc'[u] \in Draining => \A i \in new : floor'[u] < ps_queue'[i].id
                      /\ Holds(u)' => floor'[u] < msg'[u].id
    BY DEF FloorInv, Draining, Online
  <2>1. pc'[u] \in Draining => pc[u] \in Draining
    BY <1>2, <1>3
  <2>2. floor'[u] <= accepted'
    BY <1>1 DEF QueueInv, FloorInv
  <2>3. pc'[u] \in Draining => \A i \in new : floor'[u] < ps_queue'[i].id
    BY <1>1, <2>1 DEF QueueInv, FloorInv
  <2>4. ASSUME Holds(u)' PROVE floor'[u] < msg'[u].id
    <3>1. CASE u = t
      BY <1>1, <1>3, <1>4, <2>4, <3>1 DEF QueueInv, FloorInv
    <3>2. CASE u # t
      BY <1>1, <1>2, <2>4, <3>2 DEF QueueInv, FloorInv, Holds
    <3>3. QED
      BY <3>1, <3>2
  <2>5. QED
    BY <2>2, <2>3, <2>4
<1>10. AtMostOnce' /\ TaskOrder'
  BY <1>1 DEF QueueInv, AtMostOnce, TaskOrder
<1>11. QED
  BY <1>6, <1>7, <1>8, <1>9, <1>10 DEF QueueInv

(* What the end of a command does: the task lets go of its message, having   *)
(* written it or not.                                                        *)
Released(t) ==
  /\ pc[t] = "command" /\ Release(t)
  /\ \E label \in {"read", "yield"} : Goto(t, label)
  /\ ps_queue' = ps_queue /\ accepted' = accepted /\ floor' = floor

LEMMA CommandReleases ==
  ASSUME NEW t \in Task, CommandSucceeds(t) \/ CommandFails(t)
  PROVE  Released(t) /\ (wire' = wire \/ Transmit(t))
BY Zenon DEF CommandSucceeds, CommandFails, Released, queueVars

LEMMA TransmitWire ==
  ASSUME TypeOK, NEW t \in Task, Transmit(t)
  PROVE  /\ Len(wire') = Len(wire) + 1 /\ Len(wire) \in Nat
         /\ \A i \in 1..Len(wire) : wire'[i] = wire[i]
         /\ wire'[Len(wire')].id = msg[t].id /\ wire'[Len(wire')].task = t
         /\ \A i \in 1..Len(wire') : i \in 1..Len(wire) \/ i = Len(wire')
<1>1. [id |-> msg[t].id, task |-> t] \in Sent
  BY DEF TypeOK, PubSubQueueMsg, Sent
<1>2. /\ Len(wire') = Len(wire) + 1
      /\ \A i \in 1..Len(wire) : wire'[i] = wire[i]
      /\ wire'[Len(wire) + 1] = [id |-> msg[t].id, task |-> t]
  BY <1>1, AppendSeq DEF TypeOK, Transmit
<1>3. /\ [id |-> msg[t].id, task |-> t].id = msg[t].id
      /\ [id |-> msg[t].id, task |-> t].task = t
  OBVIOUS
<1>4. Len(wire) \in Nat
  BY LenProperties DEF TypeOK
<1>5. wire'[Len(wire')].id = msg[t].id /\ wire'[Len(wire')].task = t
  BY <1>2, <1>3, Zenon
<1>6. QED
  BY <1>2, <1>4, <1>5

LEMMA CommandQueue ==
  ASSUME TypeOK, QueueInv, NEW t \in Task, Released(t), wire' = wire \/ Transmit(t)
  PROVE  QueueInv'
<1>1. Holds(t) /\ ps_queue' = ps_queue /\ accepted' = accepted /\ floor' = floor
  BY DEF Released, Holds
<1>2. /\ ~Holds(t)'
      /\ \A u \in Task \ {t} : msg'[u] = msg[u] /\ pc'[u] = pc[u]
      /\ pc[t] \in Draining
  BY DEF Released, Release, Goto, Holds, TypeOK, Draining, Online
<1>3. \A u \in Task : Holds(u)' => u # t /\ Holds(u) /\ msg'[u] = msg[u]
  BY <1>2 DEF Holds
<1>4. \A i \in 1..Len(wire') :
        \/ i \in 1..Len(wire) /\ wire'[i] = wire[i]
        \/ /\ i = Len(wire') /\ wire'[i].id = msg[t].id /\ wire'[i].task = t
           /\ \A j \in 1..Len(wire) : j < i
  <2>1. CASE wire' = wire
    BY <2>1
  <2>2. CASE Transmit(t)
    BY <2>2, TransmitWire
  <2>3. QED
    BY <2>1, <2>2
<1>5. QueueOrdered'
  BY <1>1 DEF QueueInv, QueueOrdered
<1>6. HandInv'
  <2> SUFFICES ASSUME NEW u \in Task, Holds(u)'
               PROVE  /\ msg'[u].id <= accepted'
                      /\ \A i \in 1..Len(ps_queue') : msg'[u].id < ps_queue'[i].id
                      /\ \A i \in 1..Len(wire') : wire'[i].id # msg'[u].id
                      /\ \A v \in Task \ {u} : Holds(v)' => msg'[v].id # msg'[u].id
    BY DEF HandInv
  <2>1. u # t /\ Holds(u) /\ msg'[u] = msg[u] /\ msg[t].id # msg[u].id
    BY <1>1, <1>3 DEF QueueInv, HandInv
  <2>2. \A i \in 1..Len(wire') : wire'[i].id # msg'[u].id
    BY <1>4, <2>1 DEF QueueInv, HandInv
  <2>3. QED
    BY <1>1, <1>3, <2>1, <2>2 DEF QueueInv, HandInv
<1>7. WireInv'
  <2>1. msg[t].id <= accepted /\ \A i \in 1..Len(ps_queue) : msg[t].id < ps_queue[i].id
    BY <1>1 DEF QueueInv, HandInv
  <2>2. \A i \in 1..Len(wire') : wire'[i].id <= accepted'
    BY <1>1, <1>4, <2>1 DEF QueueInv, WireInv
  <2>3. \A i \in 1..Len(wire'), j \in 1..Len(ps_queue') : wire'[i].id < ps_queue'[j].id
    BY <1>1, <1>4, <2>1 DEF QueueInv, WireInv
  <2>4. ASSUME NEW u \in Task, Holds(u)', NEW i \in 1..Len(wire'), wire'[i].task = u
        PROVE  wire'[i].id < msg'[u].id
    BY <1>3, <1>4, <2>4 DEF QueueInv, WireInv
  <2>5. QED
    BY <2>2, <2>3, <2>4 DEF WireInv
<1>8. FloorInv'
  <2>1. \A u \in Task : pc'[u] \in Draining => pc[u] \in Draining
    BY <1>2
  <2>2. QED
    BY <1>1, <1>3, <2>1 DEF QueueInv, FloorInv, Draining, Online
<1>9. AtMostOnce'
  <2> SUFFICES ASSUME NEW i \in 1..Len(wire'), NEW j \in 1..Len(wire'),
                      wire'[i].id = wire'[j].id
               PROVE  i = j
    BY DEF AtMostOnce
  <2>1. \A k \in 1..Len(wire) : wire[k].id # msg[t].id
    BY <1>1 DEF QueueInv, HandInv
  <2>2. CASE i \in 1..Len(wire) /\ wire'[i] = wire[i]
    BY <1>4, <2>1, <2>2 DEF QueueInv, AtMostOnce
  <2>3. CASE i = Len(wire') /\ wire'[i].id = msg[t].id
    BY <1>4, <2>1, <2>3
  <2>4. QED
    BY <1>4, <2>2, <2>3
<1>10. TaskOrder'
  <2> SUFFICES ASSUME NEW i \in 1..Len(wire'), NEW j \in 1..Len(wire'),
                      i < j, wire'[i].task = wire'[j].task
               PROVE  wire'[i].id < wire'[j].id
    BY DEF TaskOrder
  <2>1. i \in 1..Len(wire) /\ wire'[i] = wire[i]
    BY <1>4, ElementTypes
  <2>2. \A k \in 1..Len(wire) : wire[k].task = t => wire[k].id < msg[t].id
    BY <1>1 DEF QueueInv, WireInv
  <2>3. QED
    BY <1>4, <2>1, <2>2 DEF QueueInv, TaskOrder
<1>11. QED
  BY <1>5, <1>6, <1>7, <1>8, <1>9, <1>10 DEF QueueInv

LEMMA StepQueue ==
  ASSUME TypeOK, TypeOK', QueueInv, [Next]_vars
  PROVE  QueueInv'
<1>1. CASE Passive /\ Grown
  BY <1>1, PassiveQueue
<1>2. ASSUME NEW t \in Task, Reset(t) PROVE QueueInv'
  BY <1>2, ResetQueue
<1>3. ASSUME NEW t \in Task, ReadQueue(t) PROVE QueueInv'
  BY <1>3, ReadQueueQueue
<1>4. ASSUME NEW t \in Task, CommandSucceeds(t) \/ CommandFails(t) PROVE QueueInv'
  BY <1>4, CommandReleases, CommandQueue
<1>5. QED
  BY <1>1, <1>2, <1>3, <1>4, PassiveSteps, GrownSteps

(* Only the end of a command writes, and it writes what the task held.       *)
LEMMA StepFresh ==
  ASSUME TypeOK, QueueInv, [Next]_vars, NEW t \in Task
  PROVE  FreshWrite(t)
<1>1. CASE wire' = wire
  BY <1>1 DEF FreshWrite
<1>2. CASE wire' # wire
  <2>1. PICK u \in Task : Released(u) /\ Transmit(u)
    <3>1. \A u \in Task : Reset(u) \/ ReadQueue(u) => wire' = wire
      BY Zenon DEF Reset, ReadQueue, sentVars
    <3>2. QED
      BY <1>2, <3>1, PassiveSteps, CommandReleases, Zenon DEF Passive
  <2>2. wire'[Len(wire')].id = msg[u].id /\ wire'[Len(wire')].task = u
    BY <2>1, TransmitWire
  <2>3. floor[u] < msg[u].id
    BY <2>1 DEF Released, QueueInv, FloorInv, Holds
  <2>4. QED
    BY <2>2, <2>3, ElementTypes DEF FreshWrite
<1>3. QED
  BY <1>1, <1>2

-----------------------------------------------------------------------------
(* The theorems.                                                           *)

Inv == TypeOK /\ HandleInv /\ OrphanBound /\ QueueInv

(* The invariant of Microgear.c holds before the first call of the API.      *)
THEOREM InitInv == Init => Inv
BY InitType, InitHandle, InitQueue DEF Inv

(* Every step of the API, of a task and of the wifi keeps it.                *)
THEOREM StepInv == Inv /\ [Next]_vars => Inv'
BY StepType, StepHandle, StepOrphan, StepQueue DEF Inv

(* So it holds always: types, handle, orphans and the order of the requests  *)
(* (Microgear.c:237-440).                                                    *)
THEOREM Invariance == Spec => []Inv
BY InitInv, StepInv, PTL DEF Spec

(* Every variable keeps its type: the queue never holds more than QueueLen   *)
(* messages (xQueueSend), for any number of tasks.                           *)
THEOREM TypeCorrect == Spec => []TypeOK
<1>1. Inv => TypeOK
  BY DEF Inv
<1>2. QED
  BY <1>1, Invariance, PTL

(* microgear_connect (Microgear.c:237) never refuses because of a task that  *)
(* is gone: a handle names a task that is still running.                     *)
THEOREM HandleSafe == Spec => []HandleLive
<1>1. Inv => HandleLive
  BY DEF Inv, HandleInv
<1>2. QED
  BY <1>1, Invariance, PTL

(* Each call of microgear_disconnect (Microgear.c:247) leaves at most one    *)
(* running task behind that no handle names.                                 *)
THEOREM OrphanSafe == Spec => []OrphanBound
<1>1. Inv => OrphanBound
  BY DEF Inv
<1>2. QED
  BY <1>1, Invariance, PTL

(* A request is written to the broker at most once, whatever tasks drain the *)
(* queue and whatever commands fail (Microgear.c:390-413).                   *)
THEOREM WrittenAtMostOnce == Spec => []AtMostOnce
<1>1. Inv => AtMostOnce
  BY DEF Inv, QueueInv
<1>2. QED
  BY <1>1, Invariance, PTL

(* One task writes requests in the order in which xQueueSend accepted them.  *)
THEOREM WrittenInOrder == Spec => []TaskOrder
<1>1. Inv => TaskOrder
  BY DEF Inv, QueueInv
<1>2. QED
  BY <1>1, Invariance, PTL

(* What was accepted before a task's xQueueReset (Microgear.c:379) is never  *)
(* written by that task afterwards.                                          *)
THEOREM NeverStale == Spec => NoStaleWrite
<1>1. Inv /\ [Next]_vars => [\A t \in Task : FreshWrite(t)]_vars
  BY StepFresh DEF Inv
<1>2. QED
  BY <1>1, Invariance, PTL DEF Spec, NoStaleWrite
-----------------------------------------------------------------------------
(* Who owns the socket and the shared client as long as disconnect was not   *)
(* called: for every number of tasks, of descriptors and of sessions.        *)

(* What the position of a task says of the fields it shares.                 *)
Owner(t) ==
  /\ pc[t] \notin {"none", "start", "delete"} => network = t
  /\ pc[t] \in Online \cup {"mqttconnect"} => ipstack = t
  /\ pc[t] \in Online => isconnected
  /\ pc[t] \in HoldsSocket => my_socket[t] \in open

(* What others hold and what is lost are open descriptors, and not the same. *)
Apart == others \cup leaked \subseteq open /\ others \cap leaked = {}
USE DEF Apart

Owned ==
  /\ \A t \in Task : Owner(t)
  /\ Apart /\ Ours = UNION {Held(t) : t \in Task}
OwnedInv == disconnects = 0 => Owned

(* The labels at which a task does not run, and the others.                  *)
Absent == {"none", "delete"}

USE DEF queueVars, clientVars, taskVars, socketVars, handleVars, sentVars, Goto

(* Without a call of disconnect at most one task runs, and none while        *)
(* connect is about to create one.                                           *)
LEMMA OneRunner ==
  ASSUME Inv, disconnects = 0
  PROVE  /\ \A t, u \in Task : pc[t] \notin Absent /\ pc[u] \notin Absent => t = u
         /\ api = "create" => \A t \in Task : pc[t] \in Absent
<1>1. IsFiniteSet(Running \ {mqtttask})
  BY RunningFinite, FS_Difference
<1>2. Cardinality(Running \ {mqtttask}) = 0
  BY <1>1, FS_CardinalityType DEF Inv, OrphanBound
<1>3. Running \subseteq {mqtttask}
  BY <1>1, <1>2, FS_EmptySet
<1>4. \A t \in Task : pc[t] \notin Absent => t = mqtttask
  BY <1>3 DEF Running, Absent
<1>5. QED
  BY <1>4, NoTaskAssumption DEF Inv, HandleInv

(* What a task holds at a label.                                             *)
HeldAt(label, own, http) ==
  IF label \in HoldsSocket THEN {own} ELSE IF label = "exchange" THEN {http} ELSE {}

LEMMA HeldByLabel ==
  \A t \in Task : /\ Held(t) = HeldAt(pc[t], my_socket[t], authclient[t])
                 /\ Held(t)' = HeldAt(pc'[t], my_socket'[t], authclient'[t])
<1> SUFFICES ASSUME NEW t \in Task
             PROVE  /\ Held(t) = HeldAt(pc[t], my_socket[t], authclient[t])
                    /\ Held(t)' = HeldAt(pc'[t], my_socket'[t], authclient'[t])
  OBVIOUS
<1>1. "exchange" \notin HoldsSocket
  BY DEF HoldsSocket, Online
<1>2. Held(t) = HeldAt(pc[t], my_socket[t], authclient[t])
  BY <1>1 DEF Held, HeldAt
<1>3. Held(t)' = HeldAt(pc'[t], my_socket'[t], authclient'[t])
  BY <1>1 DEF Held, HeldAt
<1>4. QED
  BY <1>2, <1>3

(* A step of the only task that runs has to be looked at for that task only. *)
LEMMA OnlyTask ==
  ASSUME TypeOK, NEW t \in Task, \A u \in Task \ {t} : pc[u] \in Absent,
         NEW label, pc' = [pc EXCEPT ![t] = label], Owner(t)',
         Apart',
         Ours' = HeldAt(label, my_socket'[t], authclient'[t])
  PROVE  Owned'
<1>1. \A u \in Task \ {t} : pc'[u] \in Absent
  BY DEF TypeOK
<1>2. \A u \in Task \ {t} : Owner(u)'
  BY <1>1 DEF Owner, Absent, Online, HoldsSocket
<1>3. pc'[t] = label
  BY DEF TypeOK
<1>4. \A u \in Task \ {t} : Held(u)' = {}
  BY <1>1, HeldByLabel DEF HeldAt, Absent, Online, HoldsSocket
<1>5. Held(t)' = Ours'
  BY <1>3, HeldByLabel
<1>6. UNION {Held(u)' : u \in Task} = Ours'
  BY <1>4, <1>5
<1>7. QED
  BY <1>2, <1>6 DEF Owned

(* What is known of the only task that runs, at label from.                  *)
LEMMA OnlyOpen ==
  ASSUME Owned, NEW t \in Task, \A u \in Task \ {t} : pc[u] \in Absent
  PROVE  /\ Owner(t) /\ Apart
         /\ Ours = HeldAt(pc[t], my_socket[t], authclient[t])
<1>1. \A u \in Task \ {t} : Held(u) = {}
  BY HeldByLabel DEF HeldAt, Absent, Online, HoldsSocket
<1>2. UNION {Held(u) : u \in Task} = Held(t)
  BY <1>1
<1>3. QED
  BY <1>2, HeldByLabel DEF Owned

-----------------------------------------------------------------------------
(* The steps of the only task that runs.                                     *)

(* A step from one label to another that touches no client and no socket: a  *)
(* session is not entered by it, and neither is what holds a socket.         *)
Quietly(t, from, to) ==
  /\ pc[t] = from /\ pc' = [pc EXCEPT ![t] = to]
  /\ UNCHANGED <<network, isconnected, ipstack, socketVars>>
  /\ from \notin Absent \cup {"start", "exchange"} /\ to \notin {"start", "exchange"}
  /\ to \in Online \cup {"mqttconnect"} => from \in Online
  /\ (from \in HoldsSocket) = (to \in HoldsSocket)

LEMMA QuietMove ==
  ASSUME TypeOK, Owned, NEW t \in Task, \A u \in Task \ {t} : pc[u] \in Absent,
         NEW from, NEW to, Quietly(t, from, to)
  PROVE  Owned'
<1>1. pc'[t] = to
  BY DEF Quietly, TypeOK
<1>2. Owner(t)'
  BY <1>1, OnlyOpen DEF Quietly, Owner, Absent, HoldsSocket, Online
<1>3. /\ Ours' = HeldAt(to, my_socket'[t], authclient'[t])
      /\ Apart'
  BY OnlyOpen DEF Quietly, Ours, HeldAt
<1>4. QED
  BY <1>2, <1>3, OnlyTask DEF Quietly

LEMMA QuietMoves ==
  ASSUME NEW t \in Task,
         \/ WaitForWifi(t) \/ TokenDone(t) \/ Refused(t) \/ Delay(t) \/ End(t)
         \/ Reset(t) \/ SetAlias(t) \/ Callback(t) \/ ReadQueue(t) \/ QueueEmpty(t)
         \/ CommandSucceeds(t) \/ CommandFails(t) \/ Yield(t)
  PROVE  \E from, to \in Label : Quietly(t, from, to)
<1> USE DEF Quietly, Absent, Online, HoldsSocket, Label
<1>1. CASE TokenDone(t)
  <2>1. /\ pc[t] = "token"
        /\ UNCHANGED <<network, isconnected, ipstack, socketVars>>
        /\ pc' = [pc EXCEPT ![t] = "dial"] \/ pc' = [pc EXCEPT ![t] = "end"]
    BY <1>1 DEF TokenDone
  <2>2. CASE pc' = [pc EXCEPT ![t] = "dial"]
    <3>1. Quietly(t, "token", "dial")
      BY <2>1, <2>2
    <3>2. QED
      BY <3>1
  <2>3. CASE pc' = [pc EXCEPT ![t] = "end"]
    <3>1. Quietly(t, "token", "end")
      BY <2>1, <2>3
    <3>2. QED
      BY <3>1
  <2>4. QED
    BY <2>1, <2>2, <2>3
<1>2. CASE Refused(t)
  BY <1>2 DEF Refused
<1>3. CASE Delay(t)
  <2>1. /\ pc[t] = "delay"
        /\ UNCHANGED <<network, isconnected, ipstack, socketVars>>
        /\ pc' = [pc EXCEPT ![t] = "wifi"] \/ pc' = [pc EXCEPT ![t] = "end"]
    BY <1>3 DEF Delay
  <2>2. CASE pc' = [pc EXCEPT ![t] = "wifi"]
    <3>1. Quietly(t, "delay", "wifi")
      BY <2>1, <2>2
    <3>2. QED
      BY <3>1
  <2>3. CASE pc' = [pc EXCEPT ![t] = "end"]
    <3>1. Quietly(t, "delay", "end")
      BY <2>1, <2>3
    <3>2. QED
      BY <3>1
  <2>4. QED
    BY <2>1, <2>2, <2>3
<1>4. CASE End(t)
  BY <1>4 DEF End
<1>5. CASE Reset(t)
  BY <1>5 DEF Reset
<1>6. CASE SetAlias(t)
  BY <1>6 DEF SetAlias
<1>7. CASE Callback(t)
  BY <1>7 DEF Callback
<1>8. CASE ReadQueue(t)
  BY <1>8 DEF ReadQueue
<1>9. CASE QueueEmpty(t)
  BY <1>9 DEF QueueEmpty
<1>10. CASE CommandSucceeds(t)
  BY <1>10 DEF CommandSucceeds
<1>11. CASE CommandFails(t)
  BY <1>11 DEF CommandFails
<1>12. CASE Yield(t)
  BY <1>12 DEF Yield
<1>13. CASE WaitForWifi(t)
  BY <1>13 DEF WaitForWifi
<1> QED
  BY <1>1, <1>2, <1>3, <1>4, <1>5, <1>6, <1>7, <1>8, <1>9, <1>10, <1>11, <1>12, <1>13

LEMMA SharedMoves ==
  ASSUME TypeOK, Owned, NEW t \in Task, \A u \in Task \ {t} : pc[u] \in Absent,
         TaskStart(t) \/ NewClient(t) \/ MqttConnect(t)
  PROVE  Owned'
<1> USE OnlyOpen DEF Owner, Absent, Online, HoldsSocket, HeldAt, Ours
<1>1. CASE TaskStart(t)
  <2>1. /\ pc' = [pc EXCEPT ![t] = "wifi"] /\ pc'[t] = "wifi" /\ network' = t
        /\ UNCHANGED <<open, others, leaked>> /\ Ours = {}
    BY <1>1 DEF TaskStart, TypeOK
  <2>2. QED
    BY <2>1, OnlyTask
<1>2. CASE NewClient(t)
  <2>1. /\ pc' = [pc EXCEPT ![t] = "mqttconnect"] /\ pc'[t] = "mqttconnect"
        /\ network' = t /\ ipstack' = t
        /\ UNCHANGED socketVars /\ Ours = {my_socket[t]}
    BY <1>2 DEF NewClient, TypeOK
  <2>2. QED
    BY <2>1, OnlyTask
<1>3. CASE MqttConnect(t)
  <2>1. PICK to \in {"reset", "refused"} :
          /\ pc' = [pc EXCEPT ![t] = to] /\ (to = "reset" => isconnected')
          /\ network' = t /\ ipstack' = t
          /\ UNCHANGED socketVars /\ Ours = {my_socket[t]}
    BY <1>3 DEF MqttConnect
  <2>2. pc'[t] = to
    BY <2>1 DEF TypeOK
  <2>3. QED
    BY <2>1, <2>2, OnlyTask
<1> QED
  BY <1>1, <1>2, <1>3

LEMMA SocketMoves ==
  ASSUME TypeOK, Owned, NEW t \in Task, \A u \in Task \ {t} : pc[u] \in Absent,
         Dial(t) \/ Close(t)
  PROVE  Owned'
<1> USE OnlyOpen DEF Owner, Absent, Online, HoldsSocket, HeldAt, Ours
<1>1. /\ network = t /\ UNCHANGED <<network, isconnected, ipstack, authclient, others, leaked>>
      /\ Apart
  BY DEF Dial, Close
<1>2. CASE Dial(t)
  <2>1. Ours = {}
    BY <1>2 DEF Dial
  <2>2. CASE open' = open /\ pc' = [pc EXCEPT ![t] = "delay"]
    <3>1. pc'[t] = "delay"
      BY <2>2 DEF TypeOK
    <3>2. QED
      BY <1>1, <2>1, <2>2, <3>1, OnlyTask
  <2>3. CASE \E fd \in Fd \ open :
               /\ my_socket' = [my_socket EXCEPT ![t] = fd]
               /\ open' = open \cup {fd} /\ pc' = [pc EXCEPT ![t] = "newclient"]
    <3>1. PICK fd \in Fd \ open :
               /\ my_socket' = [my_socket EXCEPT ![t] = fd]
               /\ open' = open \cup {fd} /\ pc' = [pc EXCEPT ![t] = "newclient"]
      BY <2>3
    <3>2. pc'[t] = "newclient" /\ my_socket'[t] = fd
      BY <3>1 DEF TypeOK
    <3>3. Ours' = {fd}
      BY <1>1, <2>1, <3>1
    <3>4. QED
      BY <1>1, <3>1, <3>2, <3>3, OnlyTask
  <2>4. QED
    BY <1>1, <1>2, <2>2, <2>3 DEF Dial
<1>3. CASE Close(t)
  <2>1. open' = open \ {my_socket[t]} /\ pc' = [pc EXCEPT ![t] = "delay"] /\ pc[t] = "close"
    BY <1>1, <1>3 DEF Close, SocketOf
  <2>2. pc'[t] = "delay"
    BY <2>1 DEF TypeOK
  <2>3. Ours = {my_socket[t]}
    BY <2>1
  <2>4. Ours' = {} /\ Apart'
    BY <1>1, <2>1, <2>3
  <2>5. QED
    BY <1>1, <2>1, <2>2, <2>4, OnlyTask
<1> QED
  BY <1>2, <1>3

LEMMA HttpMoves ==
  ASSUME TypeOK, Owned, NEW t \in Task, \A u \in Task \ {t} : pc[u] \in Absent,
         AuthConnects(t) \/ AuthFails(t) \/ AuthCloses(t)
  PROVE  Owned'
<1> USE DEF Owner, Absent, Online, HoldsSocket, HeldAt
<1>1. /\ network = t /\ UNCHANGED <<network, isconnected, ipstack, my_socket>>
      /\ Apart
      /\ Ours = HeldAt(pc[t], my_socket[t], authclient[t])
  BY OnlyOpen DEF AuthConnects, AuthFails, AuthCloses
<1>2. CASE AuthConnects(t)
  <2>1. PICK fd \in Fd \ open :
          open' = open \cup {fd} /\ authclient' = [authclient EXCEPT ![t] = fd]
    BY <1>2 DEF AuthConnects
  <2>2. /\ pc' = [pc EXCEPT ![t] = "exchange"] /\ pc'[t] = "exchange"
        /\ authclient'[t] = fd /\ Ours = {} /\ UNCHANGED <<others, leaked>>
    BY <1>1, <1>2, <2>1 DEF AuthConnects, TypeOK
  <2>3. Ours' = {fd} /\ Apart'
    BY <1>1, <2>1, <2>2 DEF Ours
  <2>4. QED
    BY <1>1, <2>2, <2>3, OnlyTask
<1>3. CASE AuthFails(t)
  <2>1. PICK fd \in Fd \ open : open' = open \cup {fd} /\ leaked' = leaked \cup {fd}
    BY <1>3 DEF AuthFails
  <2>2. /\ pc' = [pc EXCEPT ![t] = "token"] /\ pc'[t] = "token"
        /\ Ours = {} /\ others' = others
    BY <1>1, <1>3 DEF AuthFails, TypeOK
  <2>3. Ours' = {} /\ Apart'
    BY <1>1, <2>1, <2>2 DEF Ours
  <2>4. QED
    BY <1>1, <2>2, <2>3, OnlyTask
<1>4. CASE AuthCloses(t)
  <2>1. /\ pc' = [pc EXCEPT ![t] = "token"] /\ pc'[t] = "token"
        /\ Ours = {authclient[t]} /\ UNCHANGED <<others, leaked>>
        /\ open' = open \ {authclient[t]}
    BY <1>1, <1>4 DEF AuthCloses, TypeOK
  <2>2. Ours' = {} /\ Apart'
    BY <1>1, <2>1 DEF Ours
  <2>3. QED
    BY <1>1, <2>1, <2>2, OnlyTask
<1> QED
  BY <1>2, <1>3, <1>4

-----------------------------------------------------------------------------
(* The other steps.                                                          *)

LEMMA CreateMove ==
  ASSUME TypeOK, Owned, \A u \in Task : pc[u] \in Absent, NEW t \in Task, Create(t)
  PROVE  Owned'
<1>1. pc' = [pc EXCEPT ![t] = "start"] /\ pc'[t] = "start" /\ UNCHANGED socketVars
  BY DEF Create, TypeOK
<1>2. Ours = {} /\ Apart
  BY OnlyOpen DEF Absent, HoldsSocket, Online, HeldAt
<1>3. Owner(t)'
  BY <1>1 DEF Owner, Online, HoldsSocket
<1>4. Ours' = HeldAt("start", my_socket'[t], authclient'[t])
  BY <1>1, <1>2 DEF Ours, HeldAt, Online, HoldsSocket
<1>5. QED
  BY <1>1, <1>2, <1>3, <1>4, OnlyTask

(* Whatever changes, as long as what the tasks hold and what the others have *)
(* lost does not.                                                            *)
LEMMA SameHeld ==
  ASSUME Owned, \A t \in Task : Owner(t)' /\ Held(t)' = Held(t), Ours' = Ours,
         Apart'
  PROVE  Owned'
BY DEF Owned

LEMMA DeleteMove ==
  ASSUME TypeOK, Owned, NEW t \in Task, Delete(t)
  PROVE  Owned'
<1>1. /\ pc[t] = "delete" /\ pc' = [pc EXCEPT ![t] = "none"]
      /\ my_socket' = [my_socket EXCEPT ![t] = -1]
      /\ UNCHANGED <<network, isconnected, ipstack, authclient, open, others, leaked>>
  BY DEF Delete
<1>2. pc'[t] = "none" /\ \A u \in Task \ {t} : pc'[u] = pc[u] /\ my_socket'[u] = my_socket[u]
  BY <1>1 DEF TypeOK
<1>3. \A u \in Task : Owner(u)'
  BY <1>1, <1>2 DEF Owned, Owner, Online, HoldsSocket
<1>4. \A u \in Task : Held(u)' = Held(u)
  BY <1>1, <1>2, HeldByLabel DEF HeldAt, Online, HoldsSocket
<1>5. Ours' = Ours /\ Apart'
  BY <1>1 DEF Ours, Owned
<1>6. QED
  BY <1>3, <1>4, <1>5, SameHeld

(* A descriptor of another owner is nobody's that runs in a session.         *)
LEMMA OthersMove ==
  ASSUME Owned, Others
  PROVE  Owned'
<1>1. UNCHANGED <<pc, network, isconnected, ipstack, my_socket, authclient>>
  BY OthersMoves
<1>2. \A u \in Task : Held(u)' = Held(u)
  BY <1>1, HeldByLabel
<1>3. Ours' = Ours /\ Apart'
  <2>1. Apart
    BY DEF Owned
  <2>2. CASE OthersOpen
    BY <2>1, <2>2 DEF OthersOpen, Ours
  <2>3. CASE OthersClose
    <3>1. PICK fd \in others : open' = open \ {fd} /\ others' = others \ {fd}
      BY <2>3 DEF OthersClose
    <3>2. Ours' = Ours
      BY <2>1, <2>3, <3>1 DEF OthersClose, Ours
    <3>3. QED
      BY <2>1, <2>3, <3>1, <3>2 DEF OthersClose
  <2>4. CASE RevokeFails
    <3>1. PICK fd \in others : others' = others \ {fd} /\ leaked' = leaked \cup {fd}
      BY <2>4 DEF RevokeFails
    <3>2. others' \cup leaked' = others \cup leaked
      BY <3>1
    <3>3. QED
      BY <2>1, <2>4, <3>2 DEF RevokeFails, Ours
  <2>5. QED
    BY <2>2, <2>3, <2>4 DEF Others
<1>4. ASSUME NEW u \in Task PROVE Owner(u)'
  <2>1. pc[u] \in HoldsSocket => my_socket[u] \in Ours
    BY HeldByLabel DEF Owned, HeldAt
  <2>2. pc[u] \in HoldsSocket => my_socket[u] \in open'
    BY <1>3, <2>1 DEF Ours
  <2>3. QED
    BY <1>1, <2>2 DEF Owned, Owner
<1>5. QED
  BY <1>2, <1>3, <1>4, SameHeld

Untouched == UNCHANGED <<pc, network, isconnected, ipstack, socketVars>>

LEMMA UntouchedMove ==
  ASSUME Owned, Untouched
  PROVE  Owned'
<1>1. \A u \in Task : Held(u)' = Held(u) /\ Owner(u)'
  BY HeldByLabel DEF Untouched, Owned, Owner
<1>2. Ours' = Ours /\ Apart'
  BY DEF Untouched, Ours, Owned
<1>3. QED
  BY <1>1, <1>2, SameHeld

LEMMA ApiMoves ==
  ASSUME (\E type \in RequestType : Request(type)) \/ ConnectCheck \/ CreateFails
         \/ DisconnectSend \/ UNCHANGED vars
  PROVE  Untouched
BY DEF Request, ConnectCheck, CreateFails, DisconnectSend, vars, Untouched

LEMMA DisconnectsGrow ==
  ASSUME TypeOK, [Next]_vars
  PROVE  disconnects' = 0 => disconnects = 0 /\ ~DisconnectDetach
<1>1. CASE DisconnectDetach
  BY <1>1 DEF DisconnectDetach, TypeOK
<1>2. CASE Quiet \/ \E t \in Task : Create(t) \/ End(t)
  BY <1>2 DEF Quiet, Create, End, DisconnectDetach, TypeOK
<1>3. QED
  BY <1>1, <1>2, QuietSteps

LEMMA InitOwned == Init => OwnedInv
<1> SUFFICES ASSUME Init PROVE Owned
  BY DEF OwnedInv
<1>1. \A t \in Task : Held(t) = {} /\ Owner(t)
  BY HeldByLabel DEF Init, HeldAt, Owner, Online, HoldsSocket
<1>2. Ours = {} /\ Apart
  BY DEF Init, Ours
<1>3. QED
  BY <1>1, <1>2 DEF Owned

(* A task that takes a step, other than its last, is one that runs.          *)
LEMMA Acting ==
  ASSUME NEW t \in Task, TaskStep(t) \/ WifiAndToken(t), ~Delete(t)
  PROVE  pc[t] \notin Absent
BY DEF TaskStep, TaskStart, WifiAndToken, WaitForWifi, AuthConnects, AuthFails, AuthCloses,
       TokenDone, Dial, NewClient, MqttConnect, Refused, Close, Delay,
       End, Reset, SetAlias, Callback, ReadQueue, QueueEmpty, CommandSucceeds, CommandFails,
       Yield, Absent

LEMMA StepOwned ==
  ASSUME Inv, OwnedInv, [Next]_vars
  PROVE  OwnedInv'
<1> SUFFICES ASSUME disconnects' = 0 PROVE Owned'
  BY DEF OwnedInv
<1>1. TypeOK /\ disconnects = 0 /\ Owned /\ ~DisconnectDetach
  BY DisconnectsGrow DEF Inv, OwnedInv
<1>2. CASE \/ (\E type \in RequestType : Request(type)) \/ ConnectCheck \/ CreateFails
           \/ DisconnectSend \/ UNCHANGED vars
  BY <1>1, <1>2, ApiMoves, UntouchedMove
<1>3. ASSUME NEW t \in Task, Create(t) PROVE Owned'
  <2>1. \A u \in Task : pc[u] \in Absent
    BY <1>1, <1>3, OneRunner DEF Create
  <2>2. QED
    BY <1>1, <1>3, <2>1, CreateMove
<1>4. ASSUME NEW t \in Task, TaskStep(t) \/ WifiAndToken(t) PROVE Owned'
  <2>1. CASE Delete(t)
    BY <1>1, <2>1, DeleteMove
  <2>2. CASE ~Delete(t)
    <3>1. \A u \in Task \ {t} : pc[u] \in Absent
      BY <1>1, <1>4, <2>2, Acting, OneRunner
    <3>2. CASE TaskStart(t) \/ NewClient(t) \/ MqttConnect(t)
      BY <1>1, <3>1, <3>2, SharedMoves
    <3>3. CASE Dial(t) \/ Close(t)
      BY <1>1, <3>1, <3>3, SocketMoves
    <3>4. CASE AuthConnects(t) \/ AuthFails(t) \/ AuthCloses(t)
      BY <1>1, <3>1, <3>4, HttpMoves
    <3>5. CASE \/ WaitForWifi(t) \/ TokenDone(t) \/ Refused(t) \/ Delay(t) \/ End(t)
               \/ Reset(t) \/ SetAlias(t) \/ Callback(t) \/ ReadQueue(t) \/ QueueEmpty(t)
               \/ CommandSucceeds(t) \/ CommandFails(t) \/ Yield(t)
      BY <1>1, <3>1, <3>5, QuietMoves, QuietMove
    <3>6. QED
      BY <1>4, <2>2, <3>2, <3>3, <3>4, <3>5 DEF TaskStep, WifiAndToken
  <2>3. QED
    BY <2>1, <2>2
<1>5. CASE Others
  BY <1>1, <1>5, OthersMove
<1>6. QED
  BY <1>1, <1>2, <1>3, <1>4, <1>5 DEF Next, Api

LEMMA OwnedIntact ==
  ASSUME Inv, OwnedInv
  PROVE  SessionIntact
<1> SUFFICES ASSUME disconnects = 0, Owned PROVE SessionIntact
  BY DEF OwnedInv, SessionIntact
<1>1. \A t \in Task : pc[t] \in Online =>
        isconnected /\ ipstack = t /\ network = t /\ my_socket[t] \in open
  BY DEF Owned, Owner, Online, HoldsSocket
<1>2. Cardinality(Ours) <= 1
  <2>1. CASE \A t \in Task : pc[t] \in Absent
    <3>1. \A t \in Task : Held(t) = {}
      BY <2>1, HeldByLabel DEF HeldAt, Absent, Online, HoldsSocket
    <3>2. Ours = {}
      BY <3>1 DEF Owned
    <3>3. QED
      BY <3>2, FS_EmptySet
  <2>2. ASSUME NEW t \in Task, pc[t] \notin Absent PROVE Cardinality(Ours) <= 1
    <3>1. \A u \in Task \ {t} : pc[u] \in Absent
      BY <2>2, OneRunner
    <3>2. Ours = HeldAt(pc[t], my_socket[t], authclient[t])
      BY <3>1, OnlyOpen
    <3>3. CASE Ours = {}
      BY <3>3, FS_EmptySet
    <3>4. ASSUME NEW fd, Ours = {fd} PROVE Cardinality(Ours) <= 1
      <4>1. Cardinality({fd}) = 1
        BY FS_Singleton
      <4>2. QED
        BY <3>4, <4>1
    <3>5. QED
      BY <3>2, <3>3, <3>4 DEF HeldAt
  <2>3. QED
    BY <2>1, <2>2
<1>3. QED
  BY <1>1, <1>2 DEF SessionIntact, Owned

(* As long as microgear_disconnect was not called, an online task runs on    *)
(* its own open socket through the shared client, closes no descriptor of    *)
(* another owner, and the library owns no descriptor but the one of the task *)
(* between ConnectNetwork and DisconnectNetwork (Microgear.c:354-440) or in  *)
(* an HTTP exchange; all others it opened are those that connectAuthServer   *)
(* leaks when connect() fails (AuthClient.c:130-132).                        *)
THEOREM SessionSafe == Spec => []SessionIntact
<1>1. Inv /\ OwnedInv => SessionIntact
  BY OwnedIntact
<1>2. Inv /\ OwnedInv /\ [Next]_vars => OwnedInv'
  BY StepOwned
<1>3. QED
  BY <1>1, <1>2, InitOwned, Invariance, PTL DEF Spec
-----------------------------------------------------------------------------
(* A queued DISCONNECT ends the session step by step: for every length of    *)
(* the queue, whatever else is queued, and any number of other tasks.        *)

FirstAt(queue, i) ==
  /\ i \in 1..Len(queue) /\ queue[i].type = "PSQ_DISCONNECT"
  /\ \A j \in 1..(i - 1) : queue[j].type # "PSQ_DISCONNECT"

LEMMA OneFirst ==
  ASSUME NEW queue \in Seq(PubSubQueueMsg), NEW i, FirstAt(queue, i)
  PROVE  FirstDisconnect(queue) = i
<1>1. FirstAt(queue, FirstDisconnect(queue))
  <2>1. \E k \in 1..Len(queue) :
          /\ queue[k].type = "PSQ_DISCONNECT"
          /\ \A j \in 1..(k - 1) : queue[j].type # "PSQ_DISCONNECT"
    BY DEF FirstAt
  <2>2. QED
    BY <2>1, Zenon DEF FirstAt, FirstDisconnect
<1>2. \A k : FirstAt(queue, k) => ~(k < i) /\ ~(i < k)
  BY DEF FirstAt
<1>3. \A k : FirstAt(queue, k) => k \in Int
  BY DEF FirstAt
<1>4. QED
  BY <1>1, <1>2, <1>3

LEMMA SomeFirst ==
  ASSUME NEW queue \in Seq(PubSubQueueMsg),
         NEW k \in 1..Len(queue), queue[k].type = "PSQ_DISCONNECT"
  PROVE  FirstAt(queue, FirstDisconnect(queue))
<1> DEFINE R == {ss \in Nat \X Nat : ss[1] < ss[2]}
           T == {i \in 1..Len(queue) : queue[i].type = "PSQ_DISCONNECT"}
<1>1. IsWellFoundedOn(R, Nat)
  BY NatLessThanWellFounded DEF OpToRel
<1>2. T \in SUBSET Nat /\ T # {}
  OBVIOUS
<1>3. \E i \in T : \A m \in T : <<m, i>> \notin R
  <2> HIDE DEF R, T
  <2> QED
    BY <1>1, <1>2, WFMin
<1>4. PICK n \in T : \A m \in T : <<m, n>> \notin R
  BY <1>3
<1>5. n \in 1..Len(queue) /\ FirstAt(queue, n)
  <2>1. n \in 1..Len(queue) /\ queue[n].type = "PSQ_DISCONNECT"
    OBVIOUS
  <2>2. \A m \in T : ~(m < n)
    BY <1>2, <1>4
  <2>3. \A j \in 1..(n - 1) : j \in 1..Len(queue) /\ j < n
    BY <2>1
  <2>4. QED
    BY <2>1, <2>2, <2>3 DEF FirstAt
<1>6. QED
  BY <1>5, OneFirst

(* What is appended behind a DISCONNECT does not move it; taking another     *)
(* message off the front moves it one place.                                 *)
LEMMA AppendFirst ==
  ASSUME NEW queue \in Seq(PubSubQueueMsg), NEW m \in PubSubQueueMsg,
         NEW i, FirstAt(queue, i)
  PROVE  FirstAt(Append(queue, m), i)
<1>1. /\ Append(queue, m) \in Seq(PubSubQueueMsg)
      /\ Len(Append(queue, m)) = Len(queue) + 1
      /\ \A k \in 1..Len(queue) : Append(queue, m)[k] = queue[k]
  BY AppendSeq
<1>2. Len(queue) \in Nat
  BY LenProperties
<1>3. QED
  BY <1>1, <1>2 DEF FirstAt

LEMMA TailFirst ==
  ASSUME NEW queue \in Seq(PubSubQueueMsg), queue # <<>>,
         Head(queue).type # "PSQ_DISCONNECT", NEW i, FirstAt(queue, i)
  PROVE  FirstAt(Tail(queue), i - 1)
<1>1. /\ Len(queue) \in Nat \ {0} /\ Len(Tail(queue)) = Len(queue) - 1
      /\ Head(queue) = queue[1]
      /\ \A k \in 1..Len(Tail(queue)) : Tail(queue)[k] = queue[k + 1]
  BY TailSeq
<1>2. i \in 1..Len(queue) /\ i # 1
  BY <1>1 DEF FirstAt
<1>3. i - 1 \in 1..Len(Tail(queue)) /\ Tail(queue)[i - 1] = queue[i]
  <2>1. i - 1 \in 1..Len(Tail(queue)) /\ (i - 1) + 1 = i
    BY <1>1, <1>2
  <2>2. QED
    BY <1>1, <2>1
<1>4. ASSUME NEW j \in 1..((i - 1) - 1)
      PROVE  Tail(queue)[j].type # "PSQ_DISCONNECT"
  <2>1. j \in 1..Len(Tail(queue)) /\ j + 1 \in 1..(i - 1)
    BY <1>1, <1>2
  <2>2. Tail(queue)[j] = queue[j + 1]
    BY <1>1, <2>1
  <2>3. QED
    BY <2>1, <2>2 DEF FirstAt
<1>5. QED
  BY <1>3, <1>4 DEF FirstAt

(* Before and after a step: where the first DISCONNECT is.                   *)
LEMMA QueuedFirst ==
  ASSUME TypeOK, DisconnectQueued
  PROVE  /\ FirstAt(ps_queue, FirstDisconnect(ps_queue))
         /\ FirstDisconnect(ps_queue) \in 1..QueueLen
<1>1. ps_queue \in Seq(PubSubQueueMsg) /\ Len(ps_queue) \in Nat /\ Len(ps_queue) <= QueueLen
  BY LenProperties DEF TypeOK
<1>2. FirstAt(ps_queue, FirstDisconnect(ps_queue))
  BY <1>1, SomeFirst DEF DisconnectQueued
<1>3. QED
  BY <1>1, <1>2 DEF FirstAt

LEMMA FirstAfter ==
  ASSUME TypeOK', NEW i, FirstAt(ps_queue', i)
  PROVE  DisconnectQueued' /\ FirstDisconnect(ps_queue)' = i
<1>1. ps_queue' \in Seq(PubSubQueueMsg)
  BY DEF TypeOK
<1>2. FirstDisconnect(ps_queue') = i
  BY <1>1, OneFirst
<1>3. FirstDisconnect(ps_queue)' = FirstDisconnect(ps_queue')
  BY DEF FirstDisconnect
<1>4. QED
  BY <1>2, <1>3 DEF DisconnectQueued, FirstAt

(* A DISCONNECT stays where it is in a queue that is left alone or grows.    *)
Longer == ps_queue' = ps_queue \/ \E m \in PubSubQueueMsg : ps_queue' = Append(ps_queue, m)

LEMMA LongerFirst ==
  ASSUME TypeOK, TypeOK', Longer, DisconnectQueued
  PROVE  DisconnectQueued' /\ FirstDisconnect(ps_queue)' = FirstDisconnect(ps_queue)
<1>1. FirstAt(ps_queue, FirstDisconnect(ps_queue)) /\ ps_queue \in Seq(PubSubQueueMsg)
  BY QueuedFirst DEF TypeOK
<1>2. FirstAt(ps_queue', FirstDisconnect(ps_queue))
  BY <1>1, AppendFirst DEF Longer
<1>3. QED
  BY <1>2, FirstAfter

LEMMA EnqueueLonger ==
  ASSUME TypeOK, NEW type \in RequestType \cup {"PSQ_DISCONNECT", "PSQ_PUBLISH"}, Enqueue(type)
  PROVE  Longer
<1>1. [type |-> type, id |-> accepted + 1] \in PubSubQueueMsg
  BY DEF TypeOK, PubSubQueueMsg
<1>2. QED
  BY <1>1 DEF Enqueue, Longer

(* A step that leaves the task where it is sets nothing back.                *)
LEMMA KeptEnding ==
  ASSUME TypeOK, TypeOK', NEW t \in Task, Ending(t), Longer,
         pc'[t] = pc[t], activeTask'[t] = activeTask[t]
  PROVE  Ending(t)' /\ StepsToEnd(t)' = StepsToEnd(t)
<1>1. CASE pc[t] \in {"close", "delay", "end", "delete"}
  BY <1>1 DEF Ending, StepsToEnd
<1>2. CASE pc[t] = "yield" /\ ~activeTask[t]
  BY <1>2 DEF Ending, StepsToEnd
<1>3. CASE /\ pc[t] \in Draining /\ DisconnectQueued
           /\ ~(pc[t] = "yield" /\ ~activeTask[t])
  <2>1. DisconnectQueued' /\ FirstDisconnect(ps_queue)' = FirstDisconnect(ps_queue)
    BY <1>3, LongerFirst
  <2>2. pc[t] \in {"alias", "callback", "read", "command", "yield"}
    BY <1>3 DEF Draining, Online
  <2>3. QED
    BY <1>3, <2>1, <2>2 DEF Ending, StepsToEnd, Draining
<1>4. QED
  BY <1>1, <1>2, <1>3 DEF Ending

(* What the API does, and what tasks outside a session do.                   *)
LEMMA ApiEnding ==
  ASSUME TypeOK, NEW t \in Task, Ending(t), Api
  PROVE  Longer /\ pc'[t] = pc[t] /\ activeTask'[t] = activeTask[t]
<1>1. pc[t] # "none"
  BY DEF Ending, Draining, Online
<1>2. ASSUME NEW type \in RequestType, Request(type)
      PROVE  Longer /\ pc' = pc /\ activeTask' = activeTask
  BY <1>2, EnqueueLonger DEF Request
<1>3. ASSUME DisconnectSend
      PROVE  Longer /\ pc' = pc /\ activeTask' = activeTask
  BY <1>3, EnqueueLonger DEF DisconnectSend
<1>4. ASSUME ConnectCheck \/ CreateFails \/ DisconnectDetach
      PROVE  Longer /\ pc' = pc /\ activeTask' = activeTask
  BY <1>4 DEF Longer, ConnectCheck, CreateFails, DisconnectDetach
<1>5. ASSUME NEW u \in Task, Create(u)
      PROVE  Longer /\ pc'[t] = pc[t] /\ activeTask' = activeTask
  <2>1. pc' = [pc EXCEPT ![u] = "start"] /\ u # t
    BY <1>1, <1>5 DEF Create
  <2>2. QED
    BY <1>5, <2>1 DEF Longer, Create, TypeOK
<1>6. QED
  BY <1>2, <1>3, <1>4, <1>5 DEF Api

LEMMA OtherEnding ==
  ASSUME TypeOK, NEW t \in Task, NEW u \in Task \ {t}, pc[u] \notin Online,
         TaskStep(u) \/ WifiAndToken(u)
  PROVE  Longer /\ pc'[t] = pc[t] /\ activeTask'[t] = activeTask[t]
<1>1. ps_queue' = ps_queue
  <2>1. TaskStart(u) \/ WifiAndToken(u) \/ Dial(u) \/ NewClient(u) \/ MqttConnect(u)
        \/ Refused(u) \/ Close(u) \/ Delay(u) \/ End(u) \/ Delete(u)
    BY DEF TaskStep, Online, Reset, SetAlias, Callback, ReadQueue, QueueEmpty,
           CommandSucceeds, CommandFails, Yield
  <2>2. QED
    BY <2>1, TokenMoves DEF TaskStart, Dial, NewClient, MqttConnect, Refused, Close,
                            Delay, End, Delete
<1>2. \E label \in Label : pc' = [pc EXCEPT ![u] = label]
  BY TokenMoves
     DEF Label, TaskStep, TaskStart, Dial, NewClient, MqttConnect, Refused,
         Close, Delay, End, Delete, Reset, SetAlias, Callback, ReadQueue, QueueEmpty,
         CommandSucceeds, CommandFails, Yield
<1>3. activeTask' = activeTask \/ \E b \in BOOLEAN : activeTask' = [activeTask EXCEPT ![u] = b]
  BY TokenMoves
     DEF TaskStep, TaskStart, Dial, NewClient, MqttConnect, Refused,
         Close, Delay, End, Delete, Reset, SetAlias, Callback, ReadQueue, QueueEmpty,
         CommandSucceeds, CommandFails, Yield
<1>4. QED
  BY <1>1, <1>2, <1>3 DEF Longer, TypeOK

(* The task's own steps.                                                     *)
Down(t) ==
  \/ pc'[t] \in {"none", "wifi"}
  \/ Ending(t)' /\ StepsToEnd(t)' < StepsToEnd(t) /\ StepsToEnd(t)' \in Int

LEMMA LeavingDown ==
  ASSUME TypeOK, NEW t \in Task, Close(t) \/ Delay(t) \/ End(t) \/ Delete(t)
  PROVE  Down(t)
<1>1. CASE Close(t)
  <2>1. pc[t] = "close" /\ pc'[t] = "delay"
    BY <1>1 DEF Close, TypeOK
  <2>2. QED
    BY <2>1 DEF Down, Ending, StepsToEnd
<1>2. CASE Delay(t)
  <2>1. pc[t] = "delay" /\ pc'[t] \in {"wifi", "end"}
    BY <1>2 DEF Delay, TypeOK
  <2>2. QED
    BY <2>1 DEF Down, Ending, StepsToEnd
<1>3. CASE End(t)
  <2>1. pc[t] = "end" /\ pc'[t] = "delete"
    BY <1>3 DEF End, TypeOK
  <2>2. QED
    BY <2>1 DEF Down, Ending, StepsToEnd
<1>4. CASE Delete(t)
  BY <1>4 DEF Delete, TypeOK, Down
<1>5. QED
  BY <1>1, <1>2, <1>3, <1>4

(* A step that leaves the first DISCONNECT where it is.                      *)
LEMMA WaitingDown ==
  ASSUME TypeOK, TypeOK', NEW t \in Task, DisconnectQueued,
         SetAlias(t) \/ Callback(t) \/ CommandSucceeds(t) \/ CommandFails(t)
  PROVE  Down(t)
<1>1. Longer
  <2>1. CASE SetAlias(t)
    BY <2>1, EnqueueLonger DEF SetAlias, Longer
  <2>2. CASE Callback(t) \/ CommandSucceeds(t) \/ CommandFails(t)
    BY <2>2 DEF Longer, Callback, CommandSucceeds, CommandFails
  <2>3. QED
    BY <2>1, <2>2
<1>2. /\ DisconnectQueued' /\ FirstDisconnect(ps_queue)' = FirstDisconnect(ps_queue)
      /\ FirstDisconnect(ps_queue) \in Nat \ {0}
  BY <1>1, LongerFirst, QueuedFirst
<1>3. CASE SetAlias(t)
  <2>1. pc[t] = "alias" /\ pc'[t] = "callback"
    BY <1>3 DEF SetAlias, TypeOK
  <2>2. QED
    BY <1>2, <2>1 DEF Down, Ending, StepsToEnd, Draining, Online
<1>4. CASE Callback(t)
  <2>1. pc[t] = "callback" /\ pc'[t] = "read"
    BY <1>4 DEF Callback, TypeOK
  <2>2. QED
    BY <1>2, <2>1 DEF Down, Ending, StepsToEnd, Draining, Online
<1>5. CASE CommandSucceeds(t)
  <2>1. pc[t] = "command" /\ pc'[t] = "read"
    BY <1>5 DEF CommandSucceeds, TypeOK
  <2>2. QED
    BY <1>2, <2>1 DEF Down, Ending, StepsToEnd, Draining, Online
<1>6. CASE CommandFails(t)
  <2>1. pc[t] = "command" /\ pc'[t] = "yield" /\ activeTask' = activeTask
    BY <1>6 DEF CommandFails, TypeOK
  <2>2. activeTask[t] \in BOOLEAN /\ activeTask'[t] = activeTask[t]
    BY <2>1 DEF TypeOK
  <2>3. CASE activeTask[t]
    BY <1>2, <2>1, <2>2, <2>3 DEF Down, Ending, StepsToEnd, Draining, Online
  <2>4. CASE ~activeTask[t]
    BY <1>2, <2>1, <2>2, <2>4 DEF Down, Ending, StepsToEnd, Draining, Online
  <2>5. QED
    BY <2>2, <2>3, <2>4
<1>7. QED
  BY <1>3, <1>4, <1>5, <1>6

(* A receive takes the DISCONNECT, or one message from before it.            *)
LEMMA ReadDown ==
  ASSUME TypeOK, TypeOK', NEW t \in Task, DisconnectQueued, ReadQueue(t) \/ QueueEmpty(t)
  PROVE  Down(t)
<1> DEFINE p == FirstDisconnect(ps_queue)
<1>1. FirstAt(ps_queue, p) /\ p \in Nat \ {0} /\ ps_queue \in Seq(PubSubQueueMsg)
  <2>1. FirstAt(ps_queue, p) /\ p \in 1..QueueLen
    BY QueuedFirst
  <2>2. p \in Nat \ {0}
    <3> HIDE DEF p
    <3> QED
      BY <2>1
  <2>3. QED
    BY <2>1, <2>2 DEF TypeOK
<1>2. ps_queue # <<>> /\ pc[t] = "read" /\ ReadQueue(t)
  BY DEF DisconnectQueued, ReadQueue, QueueEmpty
<1>3. StepsToEnd(t) = 3 * p + 3
  BY <1>2 DEF StepsToEnd
<1>4. CASE Head(ps_queue).type = "PSQ_DISCONNECT"
  <2>1. pc'[t] = "yield" /\ ~activeTask'[t]
    BY <1>2, <1>4 DEF ReadQueue, TypeOK
  <2>2. Ending(t)' /\ StepsToEnd(t)' = 5
    BY <2>1 DEF Ending, StepsToEnd
  <2>3. QED
    BY <1>1, <1>3, <2>2 DEF Down
<1>5. CASE Head(ps_queue).type # "PSQ_DISCONNECT"
  <2>1. pc'[t] = "command" /\ ps_queue' = Tail(ps_queue)
    BY <1>2, <1>5 DEF ReadQueue, TypeOK
  <2>2. FirstAt(ps_queue', p - 1)
    <3> HIDE DEF p
    <3> QED
      BY <1>1, <1>2, <1>5, <2>1, TailFirst
  <2>3. DisconnectQueued' /\ FirstDisconnect(ps_queue)' = p - 1
    BY <2>2, FirstAfter
  <2>4. Ending(t)' /\ StepsToEnd(t)' = 3 * (p - 1) + 5
    BY <2>1, <2>3 DEF Ending, StepsToEnd, Draining, Online
  <2>5. QED
    <3> HIDE DEF p
    <3> QED
      BY <1>1, <1>3, <2>4 DEF Down
<1>6. QED
  BY <1>4, <1>5

LEMMA YieldDown ==
  ASSUME TypeOK, TypeOK', NEW t \in Task, Ending(t), Yield(t)
  PROVE  Down(t)
<1>1. /\ pc[t] = "yield" /\ (pc'[t] = "close" \/ (activeTask[t] /\ pc'[t] = "read"))
      /\ ps_queue' = ps_queue /\ activeTask[t] \in BOOLEAN
  BY DEF Yield, TypeOK
<1>2. CASE ~activeTask[t]
  BY <1>1, <1>2 DEF Down, Ending, StepsToEnd
<1>3. CASE activeTask[t]
  <2>1. DisconnectQueued
    BY <1>1, <1>3 DEF Ending
  <2>2. /\ DisconnectQueued' /\ FirstDisconnect(ps_queue)' = FirstDisconnect(ps_queue)
        /\ FirstDisconnect(ps_queue) \in Nat \ {0}
    BY <1>1, <2>1, LongerFirst, QueuedFirst DEF Longer
  <2>3. QED
    BY <1>1, <1>3, <2>2 DEF Down, Ending, StepsToEnd, Draining, Online
<1>4. QED
  BY <1>1, <1>2, <1>3

LEMMA OwnEnding ==
  ASSUME TypeOK, TypeOK', NEW t \in Task, Ending(t), TaskStep(t)
  PROVE  Down(t)
<1>1. \/ Close(t) \/ Delay(t) \/ End(t) \/ Delete(t) \/ SetAlias(t) \/ Callback(t)
      \/ ReadQueue(t) \/ QueueEmpty(t) \/ CommandSucceeds(t) \/ CommandFails(t) \/ Yield(t)
  BY DEF TaskStep, Ending, Draining, Online, TaskStart, Dial, NewClient, MqttConnect,
         Refused, Reset
<1>2. CASE Close(t) \/ Delay(t) \/ End(t) \/ Delete(t)
  BY <1>2, LeavingDown
<1>3. CASE SetAlias(t) \/ Callback(t) \/ CommandSucceeds(t) \/ CommandFails(t)
  <2>1. DisconnectQueued
    BY <1>3 DEF Ending, SetAlias, Callback, CommandSucceeds, CommandFails
  <2>2. QED
    BY <1>3, <2>1, WaitingDown
<1>4. CASE ReadQueue(t) \/ QueueEmpty(t)
  <2>1. DisconnectQueued
    BY <1>4 DEF Ending, ReadQueue, QueueEmpty
  <2>2. QED
    BY <1>4, <2>1, ReadDown
<1>5. CASE Yield(t)
  BY <1>5, YieldDown
<1>6. QED
  BY <1>1, <1>2, <1>3, <1>4, <1>5

LEMMA StepsNumber ==
  ASSUME TypeOK, NEW t \in Task, Ending(t)
  PROVE  StepsToEnd(t) \in 1..(3 * QueueLen + 5)
<1>1. CASE pc[t] \in {"close", "delay", "end", "delete"}
  BY <1>1 DEF StepsToEnd
<1>2. CASE pc[t] = "yield" /\ ~activeTask[t]
  BY <1>2 DEF StepsToEnd
<1>3. CASE /\ pc[t] \in Draining /\ DisconnectQueued
           /\ ~(pc[t] = "yield" /\ ~activeTask[t])
  <2>1. FirstDisconnect(ps_queue) \in 1..QueueLen
    BY <1>3, QueuedFirst
  <2>2. pc[t] \in {"alias", "callback", "read", "command", "yield"}
    BY <1>3 DEF Draining, Online
  <2>3. \E k \in 3..5 : StepsToEnd(t) = 3 * FirstDisconnect(ps_queue) + k
    BY <1>3, <2>2 DEF StepsToEnd
  <2>4. QED
    BY <2>1, <2>3
<1>4. QED
  BY <1>1, <1>2, <1>3 DEF Ending

LEMMA AllStepsNumber ==
  TypeOK => \A t \in Task : Ending(t) => StepsToEnd(t) \in 1..(3 * QueueLen + 5)
BY StepsNumber

LEMMA StepEnding ==
  ASSUME TypeOK, TypeOK', Next, NEW t \in Task, Ending(t), Alone(t)
  PROVE  EndNearer(t)
<1>1. CASE TaskStep(t)
  <2>1. Down(t)
    BY <1>1, OwnEnding
  <2>2. CASE pc'[t] \in {"none", "wifi"}
    BY <2>2 DEF EndNearer
  <2>3. CASE Ending(t)' /\ StepsToEnd(t)' < StepsToEnd(t) /\ StepsToEnd(t)' \in Int
    <3>1. StepsToEnd(t) \in Int
      BY StepsNumber
    <3>2. QED
      BY <2>3, <3>1 DEF EndNearer
  <2>4. QED
    BY <2>1, <2>2, <2>3 DEF Down
<1>2. CASE ~TaskStep(t)
  <2>1. ~WifiAndToken(t)
    BY TokenMoves DEF Ending, Draining, Online
  <2>2. Longer /\ pc'[t] = pc[t] /\ activeTask'[t] = activeTask[t]
    <3>1. CASE Api
      BY <3>1, ApiEnding
    <3>2. CASE \E u \in Task : TaskStep(u) \/ WifiAndToken(u)
      BY <1>2, <2>1, <3>2, OtherEnding DEF Alone
    <3>3. CASE Others
      BY <3>3, OthersMoves DEF Longer
    <3>4. QED
      BY <3>1, <3>2, <3>3 DEF Next
  <2>3. Ending(t)' /\ StepsToEnd(t)' = StepsToEnd(t) /\ StepsToEnd(t) \in Int
    BY <2>2, KeptEnding, StepsNumber
  <2>4. QED
    BY <1>2, <2>3 DEF EndNearer
<1>3. QED
  BY <1>1, <1>2

(* While no other task is in a session every step of a task that must end    *)
(* brings it nearer to its end (the reading loop, Microgear.c:387-424, and   *)
(* what follows it), and no other step sets it back.                         *)
THEOREM EndComesNearer == Spec => EndsNearer
<1>1. Inv /\ Inv' /\ [Next]_vars
        => [\A t \in Task : Ending(t) /\ Alone(t) => EndNearer(t)]_vars
  BY StepEnding DEF Inv
<1>2. QED
  BY <1>1, Invariance, PTL DEF Spec, EndsNearer

(* And there are at most three steps for each place of the queue and five    *)
(* more until the session has ended.                                         *)
THEOREM EndIsNear == Spec => [](\A t \in Task : Ending(t) => StepsToEnd(t) \in 1..(3 * QueueLen + 5))
BY AllStepsNumber, TypeCorrect, PTL
=============================================================================
