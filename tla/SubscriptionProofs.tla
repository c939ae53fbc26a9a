--------------------------- MODULE SubscriptionProofs ---------------------------
(***************************************************************************)
(* As long as disconnect is never called Microgear implements LossyFifo,   *)
(* for every number of tasks, every length of the queue and every bound;   *)
(* and so does Subscriptions, in which in addition the last word of the    *)
(* application decides what is subscribed.                                 *)
(***************************************************************************)
EXTENDS MicrogearProofs, Subscriptions, Induction

USE QueueLenAssumption DEF queueVars, clientVars, taskVars, socketVars, handleVars, sentVars, Goto

-----------------------------------------------------------------------------
(* The numbers of a sequence of messages.                                  *)

Ids(s) == [i \in 1..Len(s) |-> s[i].id]

LEMMA IdsSeq ==
  ASSUME NEW S, NEW s \in Seq(S), \A e \in S : e.id \in Nat
  PROVE  /\ Ids(s) \in Seq(Nat) /\ Len(Ids(s)) = Len(s)
         /\ \A i \in 1..Len(s) : Ids(s)[i] = s[i].id
<1>1. Len(s) \in Nat
  BY LenProperties
<1>2. \A i \in 1..Len(s) : s[i].id \in Nat
  BY ElementOfSeq
<1>3. QED
  BY <1>1, <1>2 DEF Ids

LEMMA IdsAppend ==
  ASSUME NEW S, NEW s \in Seq(S), NEW e \in S, \A x \in S : x.id \in Nat
  PROVE  Ids(Append(s, e)) = Append(Ids(s), e.id)
<1>1. /\ Append(s, e) \in Seq(S) /\ Len(Append(s, e)) = Len(s) + 1
      /\ \A i \in 1..Len(s) : Append(s, e)[i] = s[i]
      /\ Append(s, e)[Len(s) + 1] = e
  BY AppendSeq
<1>2. Len(s) \in Nat
  BY LenProperties
<1>3. /\ Ids(s) \in Seq(Nat) /\ Len(Ids(s)) = Len(s)
      /\ \A i \in 1..Len(s) : Ids(s)[i] = s[i].id
  BY IdsSeq
<1>4. /\ Ids(Append(s, e)) \in Seq(Nat) /\ Len(Ids(Append(s, e))) = Len(s) + 1
      /\ \A i \in 1..(Len(s) + 1) : Ids(Append(s, e))[i] = Append(s, e)[i].id
  BY <1>1, IdsSeq
<1>5. /\ Append(Ids(s), e.id) \in Seq(Nat) /\ Len(Append(Ids(s), e.id)) = Len(s) + 1
      /\ \A i \in 1..Len(s) : Append(Ids(s), e.id)[i] = s[i].id
      /\ Append(Ids(s), e.id)[Len(s) + 1] = e.id
  BY <1>3, AppendSeq
<1>6. ASSUME NEW i \in 1..(Len(s) + 1)
      PROVE  Ids(Append(s, e))[i] = Append(Ids(s), e.id)[i]
  <2>1. CASE i \in 1..Len(s)
    BY <1>1, <1>4, <1>5, <2>1
  <2>2. CASE i = Len(s) + 1
    BY <1>1, <1>4, <1>5, <2>2
  <2>3. i \in 1..Len(s) \/ i = Len(s) + 1
    BY <1>2
  <2>4. QED
    BY <2>1, <2>2, <2>3, Zenon
<1>7. QED
  BY <1>4, <1>5, <1>6, SeqEqual

LEMMA IdsTail ==
  ASSUME NEW S, NEW s \in Seq(S), s # <<>>, \A x \in S : x.id \in Nat
  PROVE  Ids(s) # <<>> /\ Head(Ids(s)) = Head(s).id /\ Tail(Ids(s)) = Ids(Tail(s))
<1>1. /\ Tail(s) \in Seq(S) /\ Len(s) \in Nat \ {0} /\ Len(Tail(s)) = Len(s) - 1
      /\ Head(s) = s[1] /\ \A i \in 1..Len(Tail(s)) : Tail(s)[i] = s[i + 1]
  BY TailSeq
<1>2. /\ Ids(s) \in Seq(Nat) /\ Len(Ids(s)) = Len(s)
      /\ \A i \in 1..Len(s) : Ids(s)[i] = s[i].id
  BY IdsSeq
<1>3. Ids(s) # <<>>
  BY <1>1, <1>2, EmptySeq
<1>4. /\ Tail(Ids(s)) \in Seq(Nat) /\ Len(Tail(Ids(s))) = Len(s) - 1
      /\ Head(Ids(s)) = Ids(s)[1]
      /\ \A i \in 1..(Len(s) - 1) : Tail(Ids(s))[i] = Ids(s)[i + 1]
  BY <1>2, <1>3, TailSeq
<1>5. /\ Ids(Tail(s)) \in Seq(Nat) /\ Len(Ids(Tail(s))) = Len(s) - 1
      /\ \A i \in 1..(Len(s) - 1) : Ids(Tail(s))[i] = Tail(s)[i].id
  BY <1>1, IdsSeq
<1>6. ASSUME NEW i \in 1..(Len(s) - 1)
      PROVE  Tail(Ids(s))[i] = Ids(Tail(s))[i]
  <2>1. i + 1 \in 1..Len(s)
    BY <1>1
  <2>2. Tail(Ids(s))[i] = Ids(s)[i + 1] /\ Ids(s)[i + 1] = s[i + 1].id
    BY <1>2, <1>4, <2>1
  <2>3. Ids(Tail(s))[i] = Tail(s)[i].id /\ Tail(s)[i] = s[i + 1]
    BY <1>1, <1>5
  <2>4. QED
    BY <2>2, <2>3
<1>7. Tail(Ids(s)) = Ids(Tail(s))
  BY <1>4, <1>5, <1>6, SeqEqual
<1>8. 1 \in 1..Len(s) /\ Ids(s)[1] = s[1].id
  BY <1>1, <1>2
<1>9. QED
  BY <1>1, <1>3, <1>4, <1>7, <1>8

LEMMA Pushed ==
  ASSUME NEW n \in Nat, NEW s \in Seq(Nat)
  PROVE  <<n>> \o s # <<>> /\ Head(<<n>> \o s) = n /\ Tail(<<n>> \o s) = s
OBVIOUS

LEMMA Popped ==
  ASSUME NEW s \in Seq(Nat), s # <<>>
  PROVE  <<Head(s)>> \o Tail(s) = s
OBVIOUS

LEMMA PushedAppend ==
  ASSUME NEW h \in Seq(Nat), NEW s \in Seq(Nat), NEW n \in Nat
  PROVE  h \o Append(s, n) = Append(h \o s, n)
OBVIOUS

-----------------------------------------------------------------------------
(* What waits, as the refinement maps it.                                    *)

Waiting == HandIds \o QueueIds

LEMMA QueueIdsAre == QueueIds = Ids(ps_queue) /\ QueueIds' = Ids(ps_queue')
BY DEF QueueIds, Ids

LEMMA WireIdsAre == WireIds = Ids(wire) /\ WireIds' = Ids(wire')
BY DEF WireIds, Ids

LEMMA IdTypes == /\ \A e \in PubSubQueueMsg : e.id \in Nat
                 /\ \A e \in Sent : e.id \in Nat
BY DEF PubSubQueueMsg, Sent

LEMMA WaitingTypes ==
  ASSUME TypeOK
  PROVE  /\ QueueIds \in Seq(Nat) /\ Len(QueueIds) = Len(ps_queue)
         /\ WireIds \in Seq(Nat)
         /\ \A t \in Task : msg[t].id \in Nat
BY QueueIdsAre, WireIdsAre, IdTypes, IdsSeq DEF TypeOK

(* The hands of the task that runs, before and after a step.                 *)
LEMMA FullHand ==
  ASSUME NEW t \in Task, Hand = {t}
  PROVE  HandIds = <<msg[t].id>>
BY DEF HandIds

LEMMA EmptyHand ==
  ASSUME \A t \in Task : pc[t] # "command"
  PROVE  HandIds = <<>>
BY DEF HandIds, Hand

LEMMA FullHandNext ==
  ASSUME NEW t \in Task, Hand' = {t}
  PROVE  HandIds' = <<msg'[t].id>>
BY DEF HandIds

LEMMA EmptyHandNext ==
  ASSUME \A t \in Task : pc'[t] # "command"
  PROVE  HandIds' = <<>>
BY DEF HandIds, Hand

LEMMA SameHand ==
  ASSUME Hand' = Hand, msg' = msg
  PROVE  HandIds' = HandIds
BY DEF HandIds

LEMMA MovedHand ==
  ASSUME TypeOK, NEW t \in Task, NEW label, pc' = [pc EXCEPT ![t] = label],
         pc[t] # "command", label # "command", msg' = msg
  PROVE  HandIds' = HandIds
<1>1. Hand' = Hand
  BY DEF Hand, TypeOK
<1>2. QED
  BY <1>1, SameHand

LEMMA HandSize ==
  ASSUME Inv, disconnects = 0
  PROVE  HandIds \in Seq(Nat) /\ Len(HandIds) <= 1
<1>1. CASE \A t \in Task : pc[t] # "command"
  <2>1. <<>> \in Seq(Nat) /\ Len(<<>>) = 0
    BY EmptySeq
  <2>2. HandIds = <<>>
    BY <1>1, EmptyHand
  <2>3. QED
    BY <2>1, <2>2
<1>2. ASSUME NEW t \in Task, pc[t] = "command"
      PROVE  HandIds \in Seq(Nat) /\ Len(HandIds) <= 1
  <2>1. Hand = {t}
    BY <1>2, OneRunner DEF Hand, Absent
  <2>2. HandIds = <<msg[t].id>> /\ msg[t].id \in Nat
    BY <2>1, FullHand, WaitingTypes DEF Inv
  <2>3. <<msg[t].id>> \in Seq(Nat) /\ Len(<<msg[t].id>>) = 1
    BY <2>2
  <2>4. QED
    BY <2>2, <2>3
<1>3. QED
  BY <1>1, <1>2

-----------------------------------------------------------------------------
(* The steps of the lossy FIFO.                                              *)

FifoStep == Fifo!Next \/ UNCHANGED Fifo!vars

LEMMA Stutters ==
  ASSUME accepted' = accepted, HandIds' = HandIds, ps_queue' = ps_queue, wire' = wire
  PROVE  FifoStep
BY QueueIdsAre, WireIdsAre DEF FifoStep, Fifo!vars

LEMMA Accepts ==
  ASSUME Len(Waiting) < QueueLen + 1, accepted' = accepted + 1,
         Waiting' = Append(Waiting, accepted + 1), wire' = wire
  PROVE  FifoStep
BY WireIdsAre DEF FifoStep, Fifo!Next, Fifo!Accept, Waiting

LEMMA Writes ==
  ASSUME Waiting # <<>>, WireIds' = Append(WireIds, Head(Waiting)),
         Waiting' = Tail(Waiting), accepted' = accepted
  PROVE  FifoStep
BY DEF FifoStep, Fifo!Next, Fifo!Write, Waiting

LEMMA Loses ==
  ASSUME Waiting # <<>>, Waiting' = Tail(Waiting), wire' = wire, accepted' = accepted
  PROVE  FifoStep
BY WireIdsAre DEF FifoStep, Fifo!Next, Fifo!Lose, Waiting

LEMMA Discards ==
  ASSUME Waiting' = <<>>, wire' = wire, accepted' = accepted
  PROVE  FifoStep
BY WireIdsAre DEF FifoStep, Fifo!Next, Fifo!Forget, Waiting

-----------------------------------------------------------------------------
(* Every step of Microgear is one of them, or a stutter.                     *)

(* A step that leaves the queue and what was written alone, with no task at  *)
(* a command before it or after it.                                          *)
Aside(t, label) ==
  /\ pc' = [pc EXCEPT ![t] = label] /\ pc[t] # "command" /\ label # "command"
  /\ UNCHANGED <<msg, accepted, ps_queue, wire>>

LEMMA AsideMove ==
  ASSUME TypeOK, NEW t \in Task, NEW label, Aside(t, label)
  PROVE  FifoStep
BY MovedHand, Stutters DEF Aside

LEMMA AsideMoves ==
  ASSUME TypeOK, NEW t \in Task,
         \/ Create(t) \/ TaskStart(t) \/ WifiAndToken(t) \/ Dial(t) \/ NewClient(t)
         \/ MqttConnect(t) \/ Refused(t) \/ Close(t) \/ Delay(t) \/ End(t) \/ Delete(t)
         \/ Callback(t) \/ QueueEmpty(t) \/ Yield(t) \/ (SetAlias(t) /\ ~HasAlias)
  PROVE  \E label \in Label : Aside(t, label)
<1> USE DEF Aside, Label
<1>1. CASE Create(t)
  BY <1>1 DEF Create
<1>2. CASE TaskStart(t)
  BY <1>2 DEF TaskStart
<1>3. CASE WifiAndToken(t)
  BY <1>3, TokenMoves
<1>4. CASE Dial(t)
  BY <1>4 DEF Dial
<1>5. CASE NewClient(t)
  BY <1>5 DEF NewClient
<1>6. CASE MqttConnect(t)
  BY <1>6 DEF MqttConnect
<1>7. CASE Refused(t)
  BY <1>7 DEF Refused
<1>8. CASE Close(t)
  BY <1>8 DEF Close
<1>9. CASE Delay(t)
  BY <1>9 DEF Delay
<1>10. CASE End(t)
  BY <1>10 DEF End
<1>11. CASE Delete(t)
  BY <1>11 DEF Delete
<1>12. CASE Callback(t)
  BY <1>12 DEF Callback
<1>13. CASE QueueEmpty(t)
  BY <1>13 DEF QueueEmpty
<1>14. CASE Yield(t)
  BY <1>14 DEF Yield
<1>15. CASE SetAlias(t) /\ ~HasAlias
  BY <1>15 DEF SetAlias
<1> QED
  BY <1>1, <1>2, <1>3, <1>4, <1>5, <1>6, <1>7, <1>8, <1>9, <1>10, <1>11, <1>12,
     <1>13, <1>14, <1>15

LEMMA EnqueueStep ==
  ASSUME Inv, disconnects = 0, HandIds' = HandIds, wire' = wire,
         NEW type \in RequestType \cup {"PSQ_PUBLISH", "PSQ_SUBSCRIBE"}, Enqueue(type)
  PROVE  FifoStep
<1> DEFINE m == [type |-> type, id |-> accepted + 1]
<1>1. TypeOK /\ accepted \in Nat /\ m \in PubSubQueueMsg /\ m.id = accepted + 1
  BY RequestTypeAssumption DEF Inv, TypeOK, PubSubQueueMsg
<1>2. /\ QueueIds \in Seq(Nat) /\ Len(QueueIds) = Len(ps_queue)
      /\ HandIds \in Seq(Nat) /\ Len(HandIds) <= 1
  BY <1>1, WaitingTypes, HandSize
<1>3. CASE Len(ps_queue) < QueueLen
  <2>1. ps_queue' = Append(ps_queue, m) /\ accepted' = accepted + 1
    BY <1>3 DEF Enqueue
  <2>2. QueueIds' = Append(QueueIds, accepted + 1)
    BY <1>1, <2>1, QueueIdsAre, IdTypes, IdsAppend DEF TypeOK
  <2>3. Waiting' = Append(Waiting, accepted + 1)
    BY <1>1, <1>2, <2>2, PushedAppend DEF Waiting
  <2>4. Len(Waiting) < QueueLen + 1
    <3>1. Len(Waiting) = Len(HandIds) + Len(QueueIds)
      BY <1>2, ConcatProperties DEF Waiting
    <3>2. Len(HandIds) \in Nat /\ Len(QueueIds) \in Nat
      BY <1>2, LenProperties
    <3>3. QED
      BY <1>2, <1>3, <3>1, <3>2
  <2>5. QED
    BY <2>1, <2>3, <2>4, Accepts
<1>4. CASE ~(Len(ps_queue) < QueueLen)
  BY <1>4, Stutters DEF Enqueue, queueVars
<1>5. QED
  BY <1>3, <1>4

LEMMA RequestStep ==
  ASSUME Inv, disconnects = 0, NEW type \in RequestType, Request(type)
  PROVE  FifoStep
<1>1. HandIds' = HandIds
  <2>1. Hand' = Hand /\ msg' = msg
    BY DEF Request, Hand
  <2>2. QED
    BY <2>1, SameHand
<1>2. wire' = wire /\ Enqueue(type)
  BY DEF Request
<1>3. QED
  BY <1>1, <1>2, EnqueueStep

LEMMA AliasStep ==
  ASSUME Inv, disconnects = 0, NEW t \in Task, SetAlias(t), HasAlias
  PROVE  FifoStep
<1>1. HandIds' = HandIds
  BY MovedHand DEF SetAlias, Inv
<1>2. wire' = wire /\ Enqueue("PSQ_PUBLISH")
  BY DEF SetAlias
<1>3. QED
  BY <1>1, <1>2, EnqueueStep

(* The other tasks of a step at which t runs hold no message.                *)
LEMMA OthersIdle ==
  ASSUME Inv, disconnects = 0, NEW t \in Task, pc[t] \notin Absent
  PROVE  \A u \in Task \ {t} : pc[u] # "command"
BY OneRunner DEF Absent

LEMMA ResetStep ==
  ASSUME Inv, disconnects = 0, NEW t \in Task, Reset(t)
  PROVE  FifoStep
<1>1. \A u \in Task \ {t} : pc[u] # "command"
  BY OthersIdle DEF Reset, Absent
<1>2. /\ ps_queue' = <<>> /\ wire' = wire /\ accepted' = accepted
      /\ pc' = [pc EXCEPT ![t] = "alias"]
  BY DEF Reset
<1>3. HandIds' = <<>>
  BY <1>1, <1>2, EmptyHandNext DEF Inv, TypeOK
<1>4. QueueIds' = <<>>
  BY <1>2 DEF QueueIds
<1>5. Waiting' = <<>>
  BY <1>3, <1>4, EmptySeq, ConcatEmptySeq DEF Waiting
<1>6. QED
  BY <1>2, <1>5, Discards

LEMMA ReadStep ==
  ASSUME Inv, disconnects = 0, NEW t \in Task, ReadQueue(t)
  PROVE  FifoStep
<1>1. TypeOK /\ pc[t] = "read" /\ ps_queue # <<>>
  BY DEF Inv, ReadQueue
<1>2. \A u \in Task \ {t} : pc[u] # "command"
  BY <1>1, OthersIdle DEF Absent
<1>3. HandIds = <<>>
  BY <1>1, <1>2, EmptyHand
<1>4. /\ QueueIds \in Seq(Nat) /\ QueueIds # <<>>
      /\ Head(QueueIds) = Head(ps_queue).id /\ QueueIds' = Tail(QueueIds)
      /\ QueueIds' \in Seq(Nat)
  <2>1. ps_queue' = Tail(ps_queue) /\ ps_queue \in Seq(PubSubQueueMsg)
    BY <1>1 DEF ReadQueue, TypeOK
  <2>2. /\ Ids(ps_queue) # <<>> /\ Head(Ids(ps_queue)) = Head(ps_queue).id
        /\ Tail(Ids(ps_queue)) = Ids(Tail(ps_queue))
    BY <1>1, <2>1, IdTypes, IdsTail
  <2>3. Ids(ps_queue) \in Seq(Nat)
    BY <1>1, WaitingTypes, QueueIdsAre
  <2>4. Tail(Ids(ps_queue)) \in Seq(Nat)
    BY <2>2, <2>3, TailSeq
  <2>5. QED
    BY <2>1, <2>2, <2>3, <2>4, QueueIdsAre
<1>5. Waiting = QueueIds
  BY <1>3, <1>4, ConcatEmptySeq DEF Waiting
<1>6. wire' = wire /\ accepted' = accepted
  BY DEF ReadQueue, sentVars
<1>7. CASE Head(ps_queue).type = "PSQ_DISCONNECT"
  <2>1. pc' = [pc EXCEPT ![t] = "yield"]
    BY <1>7 DEF ReadQueue, Goto
  <2>2. HandIds' = <<>>
    BY <1>1, <1>2, <2>1, EmptyHandNext DEF TypeOK
  <2>3. Waiting' = QueueIds'
    BY <1>4, <2>2, ConcatEmptySeq DEF Waiting
  <2>4. QED
    BY <1>4, <1>5, <1>6, <2>3, Loses
<1>8. CASE Head(ps_queue).type # "PSQ_DISCONNECT"
  <2>1. pc' = [pc EXCEPT ![t] = "command"] /\ msg' = [msg EXCEPT ![t] = Head(ps_queue)]
    BY <1>8 DEF ReadQueue, Goto
  <2>2. Hand' = {t} /\ msg'[t] = Head(ps_queue)
    BY <1>1, <1>2, <2>1 DEF Hand, TypeOK
  <2>3. HandIds' = <<Head(QueueIds)>>
    BY <1>4, <2>2, FullHandNext
  <2>4. Waiting' = Waiting
    BY <1>4, <1>5, <2>3, Popped DEF Waiting
  <2>5. QED
    BY <1>6, <2>4, WireIdsAre DEF FifoStep, Fifo!vars, Waiting
<1>9. QED
  BY <1>7, <1>8

LEMMA CommandStep ==
  ASSUME Inv, disconnects = 0, NEW t \in Task, Released(t), wire' = wire \/ Transmit(t)
  PROVE  FifoStep
<1>1. /\ TypeOK /\ pc[t] = "command" /\ ps_queue' = ps_queue /\ accepted' = accepted
      /\ \E label \in {"read", "yield"} : pc' = [pc EXCEPT ![t] = label]
  BY DEF Inv, Released, Goto
<1>2. \A u \in Task \ {t} : pc[u] # "command"
  BY <1>1, OthersIdle DEF Absent
<1>3. Hand = {t} /\ HandIds = <<msg[t].id>> /\ msg[t].id \in Nat
  <2>1. Hand = {t}
    BY <1>1, <1>2 DEF Hand
  <2>2. QED
    BY <1>1, <2>1, FullHand, WaitingTypes
<1>4. HandIds' = <<>>
  BY <1>1, <1>2, EmptyHandNext DEF TypeOK
<1>5. QueueIds \in Seq(Nat) /\ QueueIds' = QueueIds
  BY <1>1, WaitingTypes, QueueIdsAre
<1>6. Waiting # <<>> /\ Head(Waiting) = msg[t].id /\ Waiting' = Tail(Waiting)
  <2>1. Waiting # <<>> /\ Head(Waiting) = msg[t].id /\ Tail(Waiting) = QueueIds
    BY <1>3, <1>5, Pushed DEF Waiting
  <2>2. Waiting' = QueueIds
    BY <1>4, <1>5, ConcatEmptySeq DEF Waiting
  <2>3. QED
    BY <2>1, <2>2
<1>7. CASE wire' = wire
  BY <1>1, <1>6, <1>7, Loses
<1>8. CASE Transmit(t)
  <2>1. /\ [id |-> msg[t].id, task |-> t] \in Sent
        /\ [id |-> msg[t].id, task |-> t].id = msg[t].id
    BY <1>3 DEF Sent
  <2>2. WireIds' = Append(WireIds, msg[t].id)
    BY <1>1, <1>8, <2>1, WireIdsAre, IdTypes, IdsAppend DEF TypeOK, Transmit
  <2>3. QED
    BY <1>1, <1>6, <2>2, Writes
<1>9. QED
  BY <1>7, <1>8

-----------------------------------------------------------------------------
(* Without a call of disconnect the handle is never cleared by one.          *)
NeverDetached == disconnects = 0 /\ api # "detach"

(* Only the API moves the thread that connects and disconnects.              *)
LEMMA TaskKeepsApi ==
  ASSUME TypeOK, NEW t \in Task, TaskStep(t) \/ WifiAndToken(t)
  PROVE  api' = api
BY TokenMoves
   DEF TaskStep, TaskStart, Dial, NewClient, MqttConnect, Refused, Close, Delay, End, Delete,
   Reset, SetAlias, Callback, ReadQueue, QueueEmpty, CommandSucceeds, CommandFails, Yield

LEMMA ApiKept ==
  ASSUME TypeOK, [Next]_vars, ~DisconnectSend, ~DisconnectDetach
  PROVE  api' \in {api, "idle", "create"}
<1>1. CASE Api
  BY <1>1 DEF Api, Request, ConnectCheck, Create, CreateFails
<1>2. ASSUME NEW t \in Task, TaskStep(t) \/ WifiAndToken(t) PROVE api' = api
  BY <1>2, TaskKeepsApi
<1>3. CASE Others \/ UNCHANGED vars
  BY <1>3, OthersMoves DEF vars
<1>4. QED
  BY <1>1, <1>2, <1>3 DEF Next

LEMMA StepDetached ==
  ASSUME MaxDisconnect = 0, NeverDetached, TypeOK, [Next]_vars
  PROVE  NeverDetached' /\ ~DisconnectSend /\ ~DisconnectDetach
<1>1. ~DisconnectSend /\ ~DisconnectDetach
  BY DEF DisconnectSend, DisconnectDetach, NeverDetached
<1>2. disconnects' = disconnects
  BY <1>1, QuietSteps DEF Quiet, Create, End
<1>3. QED
  BY <1>1, <1>2, ApiKept DEF NeverDetached

LEMMA StepFifo ==
  ASSUME Inv, disconnects = 0, [Next]_vars, ~DisconnectSend, ~DisconnectDetach
  PROVE  FifoStep
<1>1. ASSUME NEW type \in RequestType, Request(type) PROVE FifoStep
  BY <1>1, RequestStep
<1>2. CASE ConnectCheck \/ CreateFails \/ UNCHANGED vars
  <2>1. Hand' = Hand /\ UNCHANGED <<msg, accepted, ps_queue, wire>>
    BY <1>2 DEF ConnectCheck, CreateFails, vars, Hand
  <2>2. QED
    BY <2>1, SameHand, Stutters
<1>3. ASSUME NEW t \in Task, Create(t) PROVE FifoStep
  BY <1>3, AsideMoves, AsideMove DEF Inv
<1>4. ASSUME NEW t \in Task, TaskStep(t) \/ WifiAndToken(t) PROVE FifoStep
  <2>1. CASE Reset(t)
    BY <2>1, ResetStep
  <2>2. CASE ReadQueue(t)
    BY <2>2, ReadStep
  <2>3. CASE CommandSucceeds(t) \/ CommandFails(t)
    BY <2>3, CommandReleases, CommandStep
  <2>4. CASE SetAlias(t) /\ HasAlias
    BY <2>4, AliasStep
  <2>5. CASE \/ TaskStart(t) \/ WifiAndToken(t) \/ Dial(t) \/ NewClient(t)
             \/ MqttConnect(t) \/ Refused(t) \/ Close(t) \/ Delay(t) \/ End(t) \/ Delete(t)
             \/ Callback(t) \/ QueueEmpty(t) \/ Yield(t) \/ (SetAlias(t) /\ ~HasAlias)
    BY <2>5, AsideMoves, AsideMove DEF Inv
  <2>6. QED
    BY <1>4, <2>1, <2>2, <2>3, <2>4, <2>5 DEF TaskStep
<1>5. CASE Others
  <2>1. Hand' = Hand /\ UNCHANGED <<msg, accepted, ps_queue, wire>>
    BY <1>5, OthersMoves DEF Hand
  <2>2. QED
    BY <2>1, SameHand, Stutters
<1>6. QED
  BY <1>1, <1>2, <1>3, <1>4, <1>5 DEF Next, Api

LEMMA InitFifo == Init => Fifo!Init /\ NeverDetached
<1> SUFFICES ASSUME Init PROVE Fifo!Init /\ NeverDetached
  OBVIOUS
<1>1. HandIds = <<>>
  BY EmptyHand DEF Init
<1>2. QueueIds = <<>> /\ WireIds = <<>>
  BY DEF Init, QueueIds, WireIds
<1>3. HandIds \o QueueIds = <<>>
  BY <1>1, <1>2, EmptySeq, ConcatEmptySeq
<1>4. QED
  BY <1>2, <1>3 DEF Init, Fifo!Init, NeverDetached

(* As long as microgear_disconnect is never called, ps_queue and the task    *)
(* that drains it (Microgear.c:376-425) are a lossy FIFO: a request that was *)
(* accepted is written after those accepted before it, or lost as the oldest *)
(* (its command failed), or forgotten with all that wait (a new session); at *)
(* most PUBSUBQUEUE_LENGTH + 1 wait.                                         *)
THEOREM ImplementsFifo ==
  ASSUME MaxDisconnect = 0
  PROVE  Spec => FifoSpec
<1>1. Inv /\ NeverDetached /\ [Next]_vars => NeverDetached' /\ [Fifo!Next]_(Fifo!vars)
  BY StepDetached, StepFifo DEF Inv, NeverDetached, FifoStep
<1>2. QED
  BY <1>1, InitFifo, Invariance, PTL DEF Spec, FifoSpec, Fifo!Spec

-----------------------------------------------------------------------------
(* The composed specification: every step of Subscriptions is a step of      *)
(* Microgear that does not call disconnect, or a request.                    *)

(* A request, whoever makes it and however many were made.                   *)
Made(type) ==
  Enqueue(type) /\ UNCHANGED <<clientVars, taskVars, socketVars, handleVars, sentVars, pc>>

Requested == \E type \in RequestType \cup {"PSQ_SUBSCRIBE"} : Made(type)

Foreground == [Next]_vars /\ ~DisconnectSend /\ ~DisconnectDetach

Free == Inv /\ OwnedInv /\ NeverDetached

LEMMA RequestMade ==
  ASSUME NEW type, Request(type)
  PROVE  Made(type)
BY DEF Request, Made

LEMMA MadeFree ==
  ASSUME Free, NEW type \in RequestType \cup {"PSQ_SUBSCRIBE"}, Made(type)
  PROVE  Free' /\ FifoStep
<1>1. TypeOK /\ Enqueue(type) /\ disconnects = 0 /\ disconnects' = 0 /\ api' = api
  BY DEF Free, Inv, Made, NeverDetached
<1>2. UNCHANGED <<pc, network, isconnected, ipstack, socketVars, msg, wire, floor>>
  BY DEF Made
<1>3. TypeOK'
  BY <1>1, EnqueueType DEF Made, TypeOK
<1>4. Quiet
  BY DEF Made, Quiet, Running
<1>5. HandleInv' /\ OrphanBound'
  BY <1>4 DEF Quiet, HandleInv, HandleLive, OrphanBound, Free, Inv
<1>6. QueueInv'
  <2>1. Passive
    BY <1>2, StillPassive
  <2>2. Grown
    BY <1>1, EnqueueGrows
  <2>3. QED
    BY <1>1, <1>3, <2>1, <2>2, PassiveQueue DEF Free, Inv
<1>7. OwnedInv'
  BY <1>1, <1>2, UntouchedMove DEF Untouched, Free, OwnedInv
<1>8. HandIds' = HandIds
  <2>1. Hand' = Hand
    BY <1>2 DEF Hand
  <2>2. QED
    BY <1>2, <2>1, SameHand
<1>9. FifoStep
  BY <1>1, <1>2, <1>8, EnqueueStep DEF Free
<1>10. NeverDetached'
  BY <1>1 DEF Free, NeverDetached
<1>11. QED
  BY <1>3, <1>5, <1>6, <1>7, <1>9, <1>10 DEF Free, Inv

LEMMA ForegroundFree ==
  ASSUME Free, Foreground
  PROVE  Free' /\ FifoStep
<1>1. Inv' /\ OwnedInv'
  BY StepInv, StepOwned DEF Free, Foreground
<1>2. FifoStep
  BY StepFifo DEF Free, Foreground, NeverDetached
<1>3. disconnects' = disconnects
  BY QuietSteps DEF Quiet, Create, End, Free, Inv, Foreground
<1>4. api' \in {api, "idle", "create"}
  BY ApiKept DEF Foreground, Free, Inv
<1>5. NeverDetached'
  BY <1>3, <1>4 DEF Free, NeverDetached
<1>6. QED
  BY <1>1, <1>2, <1>5 DEF Free

(* The labels the tasks' steps start from: none of them is a call of the API. *)
LEMMA TaskForeground ==
  ASSUME TypeOK, NeverDetached, NEW t \in Task, TaskStep(t) \/ WifiAndToken(t)
  PROVE  Foreground
<1>1. api' = api
  BY TaskKeepsApi
<1>2. ~DisconnectSend /\ ~DisconnectDetach
  BY <1>1 DEF DisconnectSend, DisconnectDetach, NeverDetached
<1>3. QED
  BY <1>2 DEF Foreground, Next

LEMMA StillForeground ==
  ASSUME TypeOK, NeverDetached, Others \/ UNCHANGED vars
  PROVE  Foreground
<1>1. api' = api
  BY OthersMoves DEF vars
<1>2. QED
  BY <1>1 DEF Foreground, Next, DisconnectSend, DisconnectDetach, NeverDetached

LEMMA ComposedSteps ==
  ASSUME TypeOK, NeverDetached, [SNext]_allVars
  PROVE  Foreground \/ Requested
<1>1. ASSUME NEW type \in RequestType, NEW topic \in Topic, Ask(type, topic)
      PROVE  Requested
  BY <1>1, RequestMade DEF Ask, Requested
<1>2. ASSUME NEW event \in Event, On(event) PROVE Foreground \/ Requested
  <2>1. CASE Request("PSQ_SUBSCRIBE")
    BY <2>1, RequestMade DEF Requested
  <2>2. CASE UNCHANGED vars
    BY <2>2, StillForeground
  <2>3. QED
    BY <1>2, <2>1, <2>2 DEF On
<1>3. CASE Connecting
  <2>1. Next /\ api' # "detach"
    BY <1>3 DEF Connecting, Next, Api, ConnectCheck, Create, CreateFails
  <2>2. ~DisconnectDetach
    BY DEF DisconnectDetach, NeverDetached
  <2>3. QED
    BY <2>1, <2>2 DEF Foreground, DisconnectSend
<1>4. ASSUME NEW t \in Task, STaskStep(t) \/ Waits(t) PROVE Foreground \/ Requested
  <2>1. CASE CallbackAsks(t)
    <3>1. Made("PSQ_SUBSCRIBE")
      BY <2>1 DEF CallbackAsks, Made
    <3>2. QED
      BY <3>1 DEF Requested
  <2>2. CASE Sends(t) \/ Drops(t)
    BY <2>2, StillForeground DEF Sends, Drops
  <2>3. CASE ~(CallbackAsks(t) \/ Sends(t) \/ Drops(t))
    <3>1. TaskStep(t) \/ WifiAndToken(t)
      BY <1>4, <2>3 DEF STaskStep, Waits, TaskStep, Alias, CallbackReturns, Forgets,
         Succeeds, Denied, Fails, Closes, Other
    <3>2. QED
      BY <3>1, TaskForeground
  <2>4. QED
    BY <2>1, <2>2, <2>3
<1>5. CASE Elsewhere \/ BrokerHandles \/ UNCHANGED allVars
  BY <1>5, StillForeground DEF Elsewhere, BrokerHandles, allVars
<1>6. QED
  BY <1>1, <1>2, <1>3, <1>4, <1>5 DEF SNext

LEMMA ComposedFree == Free /\ [SNext]_allVars => Free' /\ FifoStep
BY ComposedSteps, MadeFree, ForegroundFree DEF Free, Inv, Requested

LEMMA InitFree == Init => Free
BY InitInv, InitOwned, InitFifo DEF Free

LEMMA ComposedInvariance == SSafe => []Free
<1>1. SInit => Free
  BY InitFree DEF SInit
<1>2. QED
  BY <1>1, ComposedFree, PTL DEF SSafe

(* With the callback's requests and those of microgear_on too, an online     *)
(* task runs on its own open socket, and of the descriptors that are open    *)
(* the library owns at most this one (Microgear.c:354-440); those that       *)
(* connectAuthServer leaked (AuthClient.c:130-132) are nobody's.             *)
THEOREM ComposedSession == SSafe => []SessionIntact
<1>1. Free => SessionIntact
  BY OwnedIntact DEF Free
<1>2. QED
  BY <1>1, ComposedInvariance, PTL

(* The requests of the API, of the alias, of microgear_on and of the         *)
(* CONNECTED callback together pass through one lossy FIFO                   *)
(* (Microgear.c:376-425).                                                    *)
THEOREM ComposedFifo == SSafe => FifoSpec
<1>1. SInit => Fifo!Init
  BY InitFifo DEF SInit
<1>2. Free /\ [SNext]_allVars => [Fifo!Next]_(Fifo!vars)
  BY ComposedFree DEF FifoStep
<1>3. QED
  BY <1>1, <1>2, ComposedInvariance, PTL DEF SSafe, FifoSpec, Fifo!Spec

-----------------------------------------------------------------------------
(* The last word.  The numbers in the queue are the last ones that were      *)
(* given, without a gap, and the task holds the one before them: so what has *)
(* left the queue since the reset is an interval.                            *)

AskedType == {"PSQ_PUBLISH", "PSQ_SUBSCRIBE", "PSQ_UNSUBSCRIBE"}
AskedTopic == Topic \cup {"present", "absent", "@setalias", "forgotten"}
AskedMsg == [type : AskedType, topic : AskedTopic]

\* The number of requests that left the queue.
Taken == accepted - Len(ps_queue)

NumberedInv ==
  /\ asked \in Seq(AskedMsg) /\ Len(asked) = accepted
  /\ \A i \in 1..Len(ps_queue) :
       ps_queue[i].id = Taken + i /\ ps_queue[i].type # "PSQ_DISCONNECT"
  /\ \A t \in Task : msg[t].id = IF pc[t] = "command" THEN Taken ELSE 0

\* From the reset of the queue to the end of the connection.
InSession == Draining \cup {"close"}
CleanInv ==
  (\A t \in Task : pc[t] \notin InSession)
    => subs = {} /\ pending = {} /\ answers = {} /\ misled = {} /\ ~awaits

Concerns(k, topic) == asked[k].topic = topic /\ asked[k].type # "PSQ_PUBLISH"
Upto(t) == IF pc[t] = "command" THEN Taken - 1 ELSE Taken
Subject == Topic \cup {"present", "absent"}

(* The requests that were sent are among the task's, and are carried out and *)
(* answered in order; what is settled and neither failed nor misled comes    *)
(* before all that are on their way; and unless a command ended without its  *)
(* answer, only the one in hand is.                                          *)
Reached(t) == IF awaits THEN Taken ELSE Upto(t)
Lost == failed \cup misled
Done(k) == \A topic \in Subject :
             Concerns(k, topic) => ((topic \in subs) = (asked[k].type = "PSQ_SUBSCRIBE"))
OrderInv ==
  /\ \A a \in answers, n \in pending : a.n < n
  /\ \A a, b \in answers : a.n = b.n => a = b
ReachInv(t) ==
  /\ pending \subseteq (floor[t] + 1)..Reached(t)
  /\ \A a \in answers : a.n \in (floor[t] + 1)..Reached(t)
CarriedInv(t) ==
  /\ \A f \in (floor[t] + 1)..Upto(t) :
       asked[f].type # "PSQ_PUBLISH" /\ f \notin Lost => \A n \in pending : f < n
  /\ \A a \in answers : awaits /\ a.n = Taken /\ a.type # "SUBFAIL" => Done(Taken)
AnsweredInv ==
  ~unanswered => /\ misled = {}
                 /\ \A n \in pending : awaits /\ n = Taken
                 /\ \A a \in answers : awaits /\ a.n = Taken
AwaitInv == awaits => \E t \in Task : pc[t] = "command" /\ ~Publishing(t)

Channel(t) == OrderInv /\ ReachInv(t) /\ CarriedInv(t) /\ AnsweredInv
ChannelInv == AwaitInv /\ \A t \in Task : pc[t] \in Draining => Channel(t)

LastInv == Free /\ NumberedInv /\ CleanInv /\ ChannelInv /\ LastWordWins
LastNext == LastWordWins' /\ NumberedInv' /\ CleanInv' /\ ChannelInv'

SettledFact ==
  \A t \in Task, topic \in Subject :
    Settled(t, topic) = {k \in (floor[t] + 1)..Upto(t) : Concerns(k, topic)}

LEMMA NumberTypes ==
  TypeOK => /\ Len(ps_queue) \in Nat /\ accepted \in Nat /\ Taken \in Int
            /\ \A t \in Task : floor[t] \in Nat
BY ElementTypes DEF Taken

LEMMA SettledForm == TypeOK /\ NumberedInv => SettledFact
<1> SUFFICES ASSUME TypeOK, NumberedInv, NEW t \in Task, NEW topic \in Subject
             PROVE  Settled(t, topic) = {k \in (floor[t] + 1)..Upto(t) : Concerns(k, topic)}
  BY DEF SettledFact
<1> DEFINE n == Len(ps_queue)
<1>1. /\ n \in Nat /\ accepted \in Nat /\ Taken \in Int /\ Taken = accepted - n
      /\ floor[t] \in Nat
  BY NumberTypes DEF Taken
<1>2. \A i \in 1..n : ps_queue[i].id = Taken + i
  BY DEF NumberedInv
<1>3. ASSUME NEW k \in (floor[t] + 1)..accepted
      PROVE  Queued(k) <=> k > Taken
  <2>1. ASSUME Queued(k) PROVE k > Taken
    BY <1>1, <1>2, <2>1 DEF Queued
  <2>2. ASSUME k > Taken PROVE Queued(k)
    <3>1. k - Taken \in 1..n
      BY <1>1, <2>2
    <3>2. ps_queue[k - Taken].id = k
      BY <1>1, <1>2, <3>1
    <3>3. QED
      BY <3>1, <3>2 DEF Queued
  <2>3. QED
    BY <2>1, <2>2
<1>4. msg[t].id = IF pc[t] = "command" THEN Taken ELSE 0
  BY DEF NumberedInv
<1>5. ASSUME NEW k \in (floor[t] + 1)..accepted
      PROVE  ~Queued(k) /\ msg[t].id # k <=> k <= Upto(t)
  BY <1>1, <1>3, <1>4 DEF Upto
<1>6. Upto(t) \in Int /\ Upto(t) <= accepted
  BY <1>1 DEF Upto
<1>7. QED
  BY <1>1, <1>5, <1>6 DEF Settled, Concerns

LEMMA FinalIs ==
  ASSUME NEW S \in SUBSET Int, NEW k \in S, \A j \in S : j <= k
  PROVE  Final(S) = k
<1>1. Final(S) \in S /\ \A j \in S : j <= Final(S)
  BY DEF Final
<1>2. Final(S) <= k /\ k <= Final(S) /\ Final(S) \in Int
  BY <1>1
<1>3. QED
  BY <1>2

(* What the broker has of a topic, for one task and topic.                   *)
Decided(t, topic) ==
  LET S == Settled(t, topic) IN
  IF S = {} THEN topic \notin subs
  ELSE Final(S) \in Lost \/ (topic \in subs) = (asked[Final(S)].type = "PSQ_SUBSCRIBE")
Word(t, topic) == ~Unsettled(t, topic) => Decided(t, topic)

LEMMA Words ==
  LastWordWins <=> \A t \in Task : pc[t] \in Draining =>
                     /\ misled # {} => unanswered
                     /\ \A topic \in Subject : Word(t, topic)
BY Zenon DEF LastWordWins, Decided, Word, Subject, Lost

LEMMA FinalOf ==
  ASSUME NEW n \in Nat, NEW S \in SUBSET (1..n), S # {}
  PROVE  Final(S) \in S /\ \A j \in S : j <= Final(S)
<1>1. S \in SUBSET (0..n)
  OBVIOUS
<1>2. PICK k \in S : \A j \in S : j <= k
  BY <1>1, GreatestOf
<1>3. Final(S) = k
  BY <1>1, <1>2, FinalIs
<1>4. QED
  BY <1>2, <1>3

(* A step that settles nothing of the topic and leaves it as it was.         *)
LEMMA SameWord ==
  ASSUME NEW t \in Task, NEW topic \in Subject, Decided(t, topic),
         Settled(t, topic) \subseteq 1..accepted, accepted \in Nat,
         Settled(t, topic)' = Settled(t, topic),
         \A k \in 1..accepted : asked'[k] = asked[k],
         (topic \in subs') = (topic \in subs), Lost \subseteq Lost'
  PROVE  Decided(t, topic)'
<1> DEFINE S == Settled(t, topic)
<1>1. CASE S = {}
  BY <1>1 DEF Decided
<1>2. CASE S # {}
  <2>1. Final(S) \in S
    <3> HIDE DEF S
    <3> QED
      BY <1>2, FinalOf DEF S
  <2>2. asked'[Final(S)] = asked[Final(S)]
    BY <2>1
  <2>3. QED
    BY <1>2, <2>2, Zenon DEF Decided
<1>3. QED
  BY <1>1, <1>2

(* The steps that take nothing from the queue: a request is accepted, or not. *)
Asking ==
  /\ Passive /\ UNCHANGED <<brokerVars, awaits, outcomeVars>>
  /\ \/ UNCHANGED <<ps_queue, accepted, asked>>
     \/ \E type \in AskedType, topic \in AskedTopic : Enqueue(type) /\ Asks(type, topic)

LEMMA AskedAppends ==
  ASSUME TypeOK, NumberedInv, NEW type \in AskedType, NEW topic \in AskedTopic,
         Enqueue(type), Asks(type, topic), Len(ps_queue) < QueueLen
  PROVE  /\ accepted' = accepted + 1 /\ Taken' = Taken
         /\ Len(ps_queue') = Len(ps_queue) + 1
         /\ \A i \in 1..Len(ps_queue) : ps_queue'[i] = ps_queue[i]
         /\ ps_queue'[Len(ps_queue) + 1] = [type |-> type, id |-> accepted + 1]
         /\ asked' \in Seq(AskedMsg) /\ Len(asked') = accepted'
         /\ \A k \in 1..accepted : asked'[k] = asked[k]
<1> DEFINE m == [type |-> type, id |-> accepted + 1]
           a == [type |-> type, topic |-> topic]
<1>1. accepted \in Nat /\ Len(ps_queue) \in Nat /\ ps_queue \in Seq(PubSubQueueMsg)
  BY NumberTypes DEF TypeOK
<1>2. ps_queue' = Append(ps_queue, m) /\ accepted' = accepted + 1
  BY DEF Enqueue
<1>3. m \in PubSubQueueMsg /\ a \in AskedMsg
  BY <1>1 DEF PubSubQueueMsg, AskedType, AskedMsg
<1>4. asked' = Append(asked, a)
  BY <1>1, <1>2 DEF Asks
<1>5. asked \in Seq(AskedMsg) /\ Len(asked) = accepted
  BY DEF NumberedInv
<1> HIDE DEF m, a
<1>6. /\ asked' \in Seq(AskedMsg) /\ Len(asked') = accepted + 1
      /\ \A k \in 1..accepted : asked'[k] = asked[k]
  BY <1>3, <1>4, <1>5, AppendSeq
<1>7. /\ Len(ps_queue') = Len(ps_queue) + 1
      /\ \A i \in 1..Len(ps_queue) : ps_queue'[i] = ps_queue[i]
      /\ ps_queue'[Len(ps_queue) + 1] = m
  BY <1>1, <1>2, <1>3, AppendSeq
<1>8. Taken' = Taken
  BY <1>1, <1>2, <1>7 DEF Taken
<1>9. QED
  BY <1>2, <1>6, <1>7, <1>8 DEF m

LEMMA AskingNumbers ==
  ASSUME TypeOK, NumberedInv, Asking
  PROVE  /\ NumberedInv' /\ Taken' = Taken /\ accepted <= accepted'
         /\ \A k \in 1..accepted : asked'[k] = asked[k]
<1>1. \A t \in Task : msg'[t].id = IF pc'[t] = "command" THEN Taken ELSE 0
  BY DEF Asking, Passive, NumberedInv
<1>2. accepted \in Nat /\ Len(ps_queue) \in Nat /\ Taken \in Int
  BY NumberTypes
<1>3. CASE UNCHANGED <<ps_queue, accepted, asked>>
  <2>1. Taken' = Taken
    BY <1>3 DEF Taken
  <2>2. QED
    BY <1>1, <1>2, <1>3, <2>1 DEF NumberedInv
<1>4. ASSUME NEW type \in AskedType, NEW topic \in AskedTopic, Enqueue(type),
             Asks(type, topic)
      PROVE  /\ NumberedInv' /\ Taken' = Taken /\ accepted <= accepted'
             /\ \A k \in 1..accepted : asked'[k] = asked[k]
  <2>1. CASE Len(ps_queue) < QueueLen
    <3> DEFINE m == [type |-> type, id |-> accepted + 1]
    <3>1. m.id = accepted + 1 /\ m.type # "PSQ_DISCONNECT"
      BY DEF AskedType
    <3>2. /\ accepted' = accepted + 1 /\ Taken' = Taken
          /\ Len(ps_queue') = Len(ps_queue) + 1
          /\ \A i \in 1..Len(ps_queue) : ps_queue'[i] = ps_queue[i]
          /\ ps_queue'[Len(ps_queue) + 1] = m
          /\ asked' \in Seq(AskedMsg) /\ Len(asked') = accepted'
          /\ \A k \in 1..accepted : asked'[k] = asked[k]
      BY <1>4, <2>1, AskedAppends
    <3> HIDE DEF m
    <3>3. ASSUME NEW i \in 1..Len(ps_queue')
          PROVE  ps_queue'[i].id = Taken + i /\ ps_queue'[i].type # "PSQ_DISCONNECT"
      <4>1. CASE i \in 1..Len(ps_queue)
        BY <3>2, <4>1 DEF NumberedInv
      <4>2. CASE i = Len(ps_queue) + 1
        BY <1>2, <3>1, <3>2, <4>2 DEF Taken
      <4>3. i \in 1..Len(ps_queue) \/ i = Len(ps_queue) + 1
        BY <1>2, <3>2
      <4>4. QED
        BY <4>1, <4>2, <4>3, Zenon
    <3>4. NumberedInv'
      BY <1>1, <3>2, <3>3 DEF NumberedInv
    <3>5. QED
      BY <1>2, <3>2, <3>4
  <2>2. CASE ~(Len(ps_queue) < QueueLen)
    <3>1. UNCHANGED <<ps_queue, accepted>>
      BY <1>4, <2>2 DEF Enqueue
    <3>2. asked' = asked
      BY <1>2, <1>4, <3>1 DEF Asks
    <3>3. QED
      BY <1>3, <3>1, <3>2
  <2>3. QED
    BY <2>1, <2>2
<1>5. QED
  BY <1>3, <1>4 DEF Asking

(* Where the interval ends: not before the reset, not after what was given.  *)
LEMMA UptoBound ==
  ASSUME Inv, NumberedInv, NEW t \in Task, pc[t] \in Draining
  PROVE  /\ Upto(t) \in Nat /\ floor[t] \in Nat
         /\ floor[t] <= Upto(t) /\ Upto(t) <= Taken /\ Taken <= accepted
<1>1. /\ Len(ps_queue) \in Nat /\ accepted \in Nat /\ Taken = accepted - Len(ps_queue)
      /\ floor[t] \in Nat /\ floor[t] <= accepted
  BY NumberTypes DEF Inv, QueueInv, FloorInv, Taken
<1>2. floor[t] <= Taken
  <2>1. CASE Len(ps_queue) = 0
    BY <1>1, <2>1
  <2>2. CASE Len(ps_queue) # 0
    <3>1. 1 \in 1..Len(ps_queue)
      BY <1>1, <2>2
    <3>2. ps_queue[1].id = Taken + 1 /\ floor[t] < ps_queue[1].id
      BY <3>1 DEF NumberedInv, Inv, QueueInv, FloorInv
    <3>3. QED
      BY <1>1, <3>2
  <2>3. QED
    BY <2>1, <2>2
<1>3. CASE pc[t] = "command"
  <2>1. floor[t] < msg[t].id /\ msg[t].id = Taken
    BY <1>3 DEF Inv, QueueInv, FloorInv, Holds, NumberedInv
  <2>2. QED
    BY <1>1, <1>3, <2>1 DEF Upto
<1>4. CASE pc[t] # "command"
  BY <1>1, <1>2, <1>4 DEF Upto
<1>5. QED
  BY <1>3, <1>4

LEMMA SettledIs ==
  ASSUME Inv, NumberedInv, NEW t \in Task, NEW topic \in Subject, pc[t] \in Draining
  PROVE  /\ Settled(t, topic) = {k \in (floor[t] + 1)..Upto(t) : Concerns(k, topic)}
         /\ Settled(t, topic) \in SUBSET (1..accepted)
<1>1. Settled(t, topic) = {k \in (floor[t] + 1)..Upto(t) : Concerns(k, topic)}
  BY SettledForm DEF SettledFact, Inv
<1>2. (floor[t] + 1)..Upto(t) \subseteq 1..accepted
  BY UptoBound, NumberTypes DEF Inv
<1>3. QED
  BY <1>1, <1>2

LEMMA SettledNext ==
  ASSUME TypeOK', NumberedInv', NEW t \in Task, NEW topic \in Subject
  PROVE  Settled(t, topic)' = {k \in (floor'[t] + 1)..Upto(t)' : Concerns(k, topic)'}
<1>1. TypeOK' /\ NumberedInv' => SettledFact'
  BY SettledForm, PTL
<1>2. QED
  BY <1>1 DEF SettledFact

(* In a session no other task runs; the one that awaits an answer holds the  *)
(* latest of the requests that left the queue.                               *)
LEMMA SessionTask ==
  ASSUME LastInv, NEW t \in Task, pc[t] \in Draining
  PROVE  /\ Channel(t) /\ \A u \in Task \ {t} : pc[u] \in Absent
         /\ awaits => pc[t] = "command" /\ ~Publishing(t)
         /\ pc[t] = "command" => msg[t].id = Taken
<1>1. Inv /\ disconnects = 0 /\ ChannelInv /\ NumberedInv
  BY DEF LastInv, Free, NeverDetached
<1>2. pc[t] \notin Absent
  BY DEF Draining, Online, Absent
<1>3. \A u \in Task \ {t} : pc[u] \in Absent
  BY <1>1, <1>2, OneRunner
<1>4. awaits => pc[t] = "command" /\ ~Publishing(t)
  BY <1>1, <1>3 DEF ChannelInv, AwaitInv, Absent
<1>5. QED
  BY <1>1, <1>3, <1>4 DEF ChannelInv, NumberedInv

(* A task for which the interval is the same keeps its word.                 *)
LEMMA KeptWord ==
  ASSUME Inv, NumberedInv, Inv', NumberedInv',
         NEW t \in Task, NEW topic \in Subject, Decided(t, topic),
         pc[t] \in Draining, pc'[t] \in Draining,
         floor'[t] = floor[t], Upto(t)' = Upto(t),
         \A k \in 1..accepted : asked'[k] = asked[k],
         (topic \in subs') = (topic \in subs), Lost \subseteq Lost'
  PROVE  Decided(t, topic)'
<1>2. Settled(t, topic) = {k \in (floor[t] + 1)..Upto(t) : Concerns(k, topic)}
  BY SettledIs
<1>3. Settled(t, topic)' = {k \in (floor'[t] + 1)..Upto(t)' : Concerns(k, topic)'}
  BY SettledNext DEF Inv
<1>4. (floor[t] + 1)..Upto(t) \subseteq 1..accepted
  BY UptoBound, NumberTypes DEF Inv
<1>5. \A k \in (floor[t] + 1)..Upto(t) : Concerns(k, topic)' = Concerns(k, topic)
  BY <1>4 DEF Concerns
<1>6. Settled(t, topic)' = Settled(t, topic)
  BY <1>2, <1>3, <1>5
<1>7. accepted \in Nat
  BY NumberTypes DEF Inv
<1>8. QED
  BY <1>4, <1>6, <1>7, <1>2, SettledIs, SameWord

(* And what is on its way stays where it was.                                *)
LEMMA KeptChannel ==
  ASSUME LastInv, NEW t \in Task, pc[t] \in Draining,
         UNCHANGED <<brokerVars, awaits, outcomeVars>>,
         floor'[t] = floor[t], Upto(t)' = Upto(t), awaits => Taken' = Taken,
         \A k \in 1..accepted : asked'[k] = asked[k]
  PROVE  Channel(t)'
<1>1. Channel(t) /\ Inv /\ NumberedInv
  BY SessionTask DEF LastInv, Free
<1>2. /\ (floor[t] + 1)..Upto(t) \subseteq 1..accepted
      /\ awaits => Taken \in 1..accepted
  <2>1. /\ Upto(t) \in Nat /\ floor[t] \in Nat /\ floor[t] <= Upto(t)
        /\ Upto(t) <= Taken /\ Taken <= accepted
    BY <1>1, UptoBound
  <2>2. awaits => Upto(t) = Taken - 1
    BY SessionTask DEF Upto
  <2>3. Taken \in Int /\ accepted \in Nat
    BY <1>1, NumberTypes DEF Inv
  <2>4. QED
    BY <2>1, <2>2, <2>3
<1>3. UNCHANGED <<subs, pending, answers, awaits, failed, misled, unanswered>>
  BY DEF brokerVars, outcomeVars
<1>4. Reached(t)' = Reached(t)
  BY <1>3 DEF Reached
<1>5. OrderInv' /\ ReachInv(t)' /\ AnsweredInv'
  BY <1>1, <1>3, <1>4 DEF Channel, OrderInv, ReachInv, AnsweredInv
<1>6. Lost' = Lost
  BY <1>3 DEF Lost
<1>7. awaits => (Done(Taken)' <=> Done(Taken))
  BY <1>2, <1>3 DEF Done, Concerns
<1>8. CarriedInv(t)'
  BY <1>1, <1>2, <1>3, <1>6, <1>7 DEF Channel, CarriedInv
<1>9. QED
  BY <1>5, <1>8 DEF Channel

LEMMA WordsNext ==
  ASSUME AwaitInv',
         \A t \in Task : pc'[t] \in Draining =>
           Channel(t)' /\ \A topic \in Subject : Word(t, topic)'
  PROVE  LastWordWins' /\ ChannelInv'
<1>1. (\A t \in Task : pc[t] \in Draining => /\ misled # {} => unanswered
                                             /\ \A topic \in Subject : Word(t, topic))'
        => LastWordWins'
  BY Words, PTL
<1>2. \A t \in Task : Channel(t)' => (misled' # {} => unanswered')
  BY DEF Channel, AnsweredInv
<1>3. QED
  BY <1>1, <1>2 DEF ChannelInv

(* A step of a request, or any other that takes nothing from the queue.      *)
LEMMA AskingWord ==
  ASSUME LastInv, Inv', Asking
  PROVE  LastWordWins' /\ NumberedInv' /\ ChannelInv'
<1>1. /\ Inv /\ NumberedInv /\ LastWordWins /\ NumberedInv' /\ Taken' = Taken
      /\ \A k \in 1..accepted : asked'[k] = asked[k]
  BY AskingNumbers DEF LastInv, Free, Inv
<1>2. ASSUME NEW t \in Task, pc'[t] \in Draining
      PROVE  Channel(t)' /\ \A topic \in Subject : Word(t, topic)'
  <2>1. /\ pc[t] \in Draining /\ floor'[t] = floor[t] /\ msg' = msg
        /\ pc'[t] = "command" <=> pc[t] = "command"
    BY <1>2 DEF Asking, Passive
  <2>2. Upto(t)' = Upto(t)
    BY <1>1, <2>1 DEF Upto
  <2>3. UNCHANGED <<brokerVars, awaits, outcomeVars>>
    BY DEF Asking
  <2>4. Channel(t)'
    BY <1>1, <2>1, <2>2, <2>3, KeptChannel
  <2>5. ASSUME NEW topic \in Subject, ~Unsettled(t, topic)' PROVE Decided(t, topic)'
    <3>1. awaits => asked'[msg[t].id] = asked[msg[t].id]
      <4>1. awaits => msg[t].id \in 1..accepted
        <5>1. awaits => msg[t].id = Taken /\ Upto(t) = Taken - 1
          BY <2>1, SessionTask DEF Upto
        <5>2. Upto(t) \in Nat /\ Taken <= accepted /\ Taken \in Int /\ accepted \in Nat
          BY <1>1, <2>1, UptoBound, NumberTypes DEF Inv
        <5>3. QED
          BY <5>1, <5>2
      <4>2. QED
        BY <1>1, <4>1
    <3>2. ~Unsettled(t, topic)
      BY <2>1, <2>3, <2>5, <3>1 DEF Unsettled, InHand
    <3>3. Decided(t, topic)
      BY <1>1, <2>1, <3>2, Words DEF Word
    <3>4. (topic \in subs') = (topic \in subs) /\ Lost' = Lost
      BY <2>3 DEF brokerVars, outcomeVars, Lost
    <3>5. QED
      BY <1>1, <1>2, <2>1, <2>2, <3>3, <3>4, KeptWord
  <2>6. QED
    BY <2>4, <2>5 DEF Word
<1>3. AwaitInv'
  <2>1. awaits' = awaits /\ msg' = msg /\ \A u \in Task : pc'[u] = "command" <=> pc[u] = "command"
    BY DEF Asking, Passive
  <2>2. ASSUME NEW t \in Task, awaits, pc[t] = "command", ~Publishing(t)
        PROVE  ~Publishing(t)'
    <3>1. pc[t] \in Draining
      BY <2>2 DEF Draining, Online
    <3>2. msg[t].id = Taken /\ Upto(t) = Taken - 1
      BY <2>2, <3>1, SessionTask DEF Upto
    <3>3. Upto(t) \in Nat /\ Taken <= accepted /\ Taken \in Int /\ accepted \in Nat
      BY <1>1, <3>1, UptoBound, NumberTypes DEF Inv
    <3>4. msg[t].id \in 1..accepted
      BY <3>2, <3>3
    <3>5. QED
      BY <1>1, <2>1, <2>2, <3>4 DEF Publishing, InHand
  <2>3. QED
    BY <2>1, <2>2 DEF AwaitInv, LastInv, ChannelInv
<1>4. QED
  BY <1>1, <1>2, <1>3, WordsNext

(* A session that is over has left nothing behind.                           *)
LEMMA NothingLeft ==
  ASSUME LastInv, \A u \in Task : pc[u] \notin InSession
  PROVE  subs = {} /\ pending = {} /\ answers = {} /\ misled = {} /\ ~awaits
BY DEF LastInv, CleanInv

(* The reset of the queue.                                                   *)
LEMMA ForgetsWord ==
  ASSUME LastInv, Inv', NEW t \in Task, Forgets(t)
  PROVE  LastNext
<1>1. TypeOK /\ Inv /\ NumberedInv /\ disconnects = 0
  BY DEF LastInv, Free, Inv, NeverDetached
<1>2. /\ ps_queue' = <<>> /\ accepted' = accepted /\ msg' = msg
      /\ UNCHANGED <<subs, pending, answers, awaits, failed, misled, unanswered>>
      /\ pc[t] = "reset" /\ pc'[t] = "alias" /\ floor'[t] = accepted
      /\ accepted \in Nat
  BY <1>1 DEF Forgets, Reset, TypeOK, brokerVars, outcomeVars
<1>3. \A u \in Task \ {t} : pc[u] \in Absent /\ pc'[u] = pc[u]
  BY <1>1, <1>2, OneRunner DEF Forgets, Reset, Absent, TypeOK
<1>0. subs = {} /\ pending = {} /\ answers = {} /\ misled = {} /\ ~awaits
  <2>1. \A u \in Task : pc[u] \notin InSession
    BY <1>2, <1>3 DEF InSession, Draining, Online, Absent
  <2>2. QED
    BY <2>1, NothingLeft
<1>4. NumberedInv'
  <2>1. asked \in Seq(AskedMsg) /\ Len(asked) = accepted
    BY <1>1 DEF NumberedInv
  <2>2. Forgotten \in AskedMsg
    BY DEF Forgotten, AskedMsg, AskedType, AskedTopic
  <2>3. /\ DOMAIN asked = 1..accepted /\ \A k \in 1..accepted : asked[k] \in AskedMsg
    BY <1>2, <2>1, LenProperties, ElementOfSeq
  <2>4. /\ asked' = [k \in 1..accepted |-> IF Queued(k)' THEN asked[k] ELSE Forgotten]
    BY <2>3 DEF Forgets
  <2>5. asked' \in Seq(AskedMsg) /\ Len(asked') = accepted'
    <3> DEFINE F(k) == IF Queued(k)' THEN asked[k] ELSE Forgotten
    <3>1. \A k \in 1..accepted : F(k) \in AskedMsg
      BY <2>2, <2>3
    <3> HIDE DEF F
    <3>2. asked' = [k \in 1..accepted |-> F(k)]
      BY <2>4 DEF F
    <3>3. QED
      BY <1>2, <3>1, <3>2
  <2>6. Len(ps_queue') = 0
    BY <1>2, EmptySeq
  <2>7. \A u \in Task : msg'[u].id = IF pc'[u] = "command" THEN Taken' ELSE 0
    BY <1>1, <1>2, <1>3 DEF NumberedInv, Absent
  <2>8. QED
    BY <1>2, <2>5, <2>6, <2>7 DEF NumberedInv
<1>5. CleanInv' /\ AwaitInv'
  BY <1>2, <1>0 DEF CleanInv, AwaitInv
<1>6. ASSUME NEW u \in Task, pc'[u] \in Draining
      PROVE  Channel(u)' /\ \A topic \in Subject : Word(u, topic)'
  <2>1. u = t
    BY <1>3, <1>6 DEF Draining, Online, Absent
  <2>2. Taken' = accepted /\ Upto(t)' = accepted
    BY <1>2, EmptySeq DEF Taken, Upto
  <2>3. ASSUME NEW topic \in Subject PROVE Decided(t, topic)'
    <3>1. Settled(t, topic)' = {k \in (floor'[t] + 1)..Upto(t)' : Concerns(k, topic)'}
      BY <1>4, SettledNext DEF Inv
    <3>2. (floor'[t] + 1)..Upto(t)' = {}
      BY <1>2, <2>2
    <3>3. Settled(t, topic)' = {}
      BY <3>1, <3>2
    <3>4. QED
      BY <1>2, <1>0, <3>3 DEF Decided
  <2>4. Channel(t)'
    <3>1. OrderInv' /\ ReachInv(t)' /\ CarriedInv(t)'
      BY <1>2, <1>0 DEF OrderInv, ReachInv, CarriedInv
    <3>2. AnsweredInv'
      BY <1>2, <1>0 DEF AnsweredInv
    <3>3. QED
      BY <3>1, <3>2 DEF Channel
  <2>5. QED
    BY <2>1, <2>3, <2>4 DEF Word
<1>7. QED
  BY <1>4, <1>5, <1>6, WordsNext DEF LastNext

(* A request leaves the queue for the hands of the task.                     *)
LEMMA ReadWord ==
  ASSUME LastInv, Inv', NEW t \in Task, ReadQueue(t), UNCHANGED appVars
  PROVE  LastNext
<1>1. TypeOK /\ Inv /\ NumberedInv /\ LastWordWins /\ disconnects = 0
  BY DEF LastInv, Free, Inv, NeverDetached
<1>2. /\ asked' = asked /\ UNCHANGED <<subs, pending, answers, awaits, failed, misled, unanswered>>
      /\ accepted' = accepted /\ floor' = floor /\ pc[t] = "read" /\ accepted \in Nat
  BY <1>1 DEF appVars, brokerVars, outcomeVars, ReadQueue, TypeOK
<1>3. /\ ps_queue' \in Seq(PubSubQueueMsg) /\ Len(ps_queue) \in Nat \ {0}
      /\ Len(ps_queue') = Len(ps_queue) - 1 /\ Head(ps_queue) = ps_queue[1]
      /\ \A i \in 1..Len(ps_queue') : ps_queue'[i] = ps_queue[i + 1]
  <2>1. ps_queue' = Tail(ps_queue) /\ ps_queue # <<>> /\ ps_queue \in Seq(PubSubQueueMsg)
    BY <1>1 DEF ReadQueue, TypeOK
  <2>2. QED
    BY <2>1, TailSeq
<1>4. Taken' = Taken + 1 /\ Taken \in Int
  BY <1>1, <1>2, <1>3, NumberTypes DEF Taken
<1>5. Head(ps_queue).type # "PSQ_DISCONNECT" /\ Head(ps_queue).id = Taken'
  BY <1>1, <1>3, <1>4 DEF NumberedInv
<1>6. msg' = [msg EXCEPT ![t] = Head(ps_queue)] /\ pc' = [pc EXCEPT ![t] = "command"]
  BY <1>5 DEF ReadQueue
<1>7. /\ pc'[t] = "command" /\ msg'[t] = Head(ps_queue)
      /\ \A u \in Task \ {t} : pc[u] \in Absent /\ pc'[u] = pc[u] /\ msg'[u] = msg[u]
  BY <1>1, <1>2, <1>6, OneRunner DEF Absent, TypeOK
<1>8. NumberedInv'
  <2>1. \A u \in Task : msg'[u].id = IF pc'[u] = "command" THEN Taken' ELSE 0
    BY <1>1, <1>5, <1>7 DEF NumberedInv, Absent
  <2>2. ASSUME NEW i \in 1..Len(ps_queue')
        PROVE  ps_queue'[i].id = Taken' + i /\ ps_queue'[i].type # "PSQ_DISCONNECT"
    <3>1. i + 1 \in 1..Len(ps_queue) /\ ps_queue'[i] = ps_queue[i + 1]
      BY <1>3
    <3>2. QED
      BY <1>1, <1>4, <3>1 DEF NumberedInv
  <2>3. QED
    BY <1>1, <1>2, <2>1, <2>2 DEF NumberedInv
<1>9. pc[t] \in Draining /\ ~awaits
  <2>1. pc[t] \in Draining
    BY <1>2 DEF Draining, Online
  <2>2. QED
    BY <1>2, <2>1, SessionTask
<1>10. CleanInv' /\ AwaitInv'
  BY <1>2, <1>7, <1>9 DEF CleanInv, AwaitInv, InSession, Draining, Online
<1>11. ASSUME NEW u \in Task, pc'[u] \in Draining
       PROVE  Channel(u)' /\ \A topic \in Subject : Word(u, topic)'
  <2>1. u = t
    BY <1>7, <1>11 DEF Draining, Online, Absent
  <2>2. Upto(t)' = Upto(t)
    BY <1>2, <1>4, <1>7 DEF Upto
  <2>3. UNCHANGED <<brokerVars, awaits, outcomeVars>>
    BY <1>2 DEF brokerVars, outcomeVars
  <2>4. Channel(t)'
    BY <1>2, <1>9, <2>2, <2>3, KeptChannel
  <2>5. ASSUME NEW topic \in Subject PROVE Decided(t, topic)'
    <3>1. Decided(t, topic)
      BY <1>1, <1>9, Words DEF Word, Unsettled
    <3>2. Lost' = Lost
      BY <1>2 DEF Lost
    <3>3. QED
      BY <1>1, <1>2, <1>8, <1>9, <1>11, <2>1, <2>2, <3>1, <3>2, KeptWord
  <2>6. QED
    BY <2>1, <2>4, <2>5 DEF Word
<1>12. QED
  BY <1>8, <1>10, <1>11, WordsNext DEF LastNext

(* The end of the connection.                                                *)
LEMMA ClosesWord ==
  ASSUME LastInv, Inv', NEW t \in Task, Closes(t)
  PROVE  LastNext
<1>1. TypeOK /\ Inv /\ NumberedInv /\ disconnects = 0 /\ ChannelInv
  BY DEF LastInv, Free, Inv, NeverDetached
<1>2. /\ UNCHANGED <<ps_queue, accepted, asked, msg, awaits>>
      /\ subs' = {} /\ pending' = {} /\ answers' = {} /\ misled' = {}
      /\ pc[t] = "close" /\ pc'[t] = "delay"
  BY <1>1 DEF Closes, Close, TypeOK
<1>3. \A u \in Task \ {t} : pc[u] \in Absent /\ pc'[u] = pc[u]
  BY <1>1, <1>2, OneRunner DEF Closes, Close, Absent, TypeOK
<1>4. Taken' = Taken
  BY <1>2 DEF Taken
<1>5. NumberedInv'
  <2>1. \A u \in Task : msg'[u].id = IF pc'[u] = "command" THEN Taken' ELSE 0
    BY <1>1, <1>2, <1>3, <1>4 DEF NumberedInv, Absent
  <2>2. QED
    BY <1>1, <1>2, <1>4, <2>1 DEF NumberedInv
<1>6. ~awaits
  BY <1>1, <1>2, <1>3 DEF ChannelInv, AwaitInv, Absent
<1>7. CleanInv' /\ AwaitInv'
  BY <1>2, <1>6 DEF CleanInv, AwaitInv
<1>8. \A u \in Task : pc'[u] \notin Draining
  BY <1>2, <1>3 DEF Draining, Online, Absent
<1>9. QED
  BY <1>5, <1>7, <1>8, WordsNext DEF LastNext

-----------------------------------------------------------------------------
(* The broker and the packets on their way.                                  *)

(* A step of theirs that no task sees.                                       *)
Remote == UNCHANGED vars /\ UNCHANGED <<asked, failed, misled, unanswered>>

LEMMA RemoteKeeps ==
  ASSUME Remote
  PROVE  /\ UNCHANGED <<pc, ps_queue, accepted, msg, floor>>
         /\ Taken' = Taken /\ Lost' = Lost
         /\ \A t \in Task : /\ Upto(t)' = Upto(t)
                            /\ Publishing(t)' = Publishing(t) /\ InHand(t)' = InHand(t)
                            /\ \A topic : Settled(t, topic)' = Settled(t, topic)
         /\ \A k, topic : Concerns(k, topic)' = Concerns(k, topic)
<1>1. UNCHANGED <<pc, ps_queue, accepted, msg, floor, asked, failed, misled>>
  BY DEF Remote, vars
<1>2. QED
  BY <1>1 DEF Taken, Lost, Upto, Publishing, InHand, Settled, Queued, Concerns

(* What such a step has to show for the task in the session.                 *)
LEMMA RemoteWord ==
  ASSUME LastInv, Remote, AwaitInv',
         (\A t \in Task : pc[t] \notin InSession)
           => pending' = {} /\ answers' = {} /\ subs' = {} /\ ~awaits',
         \A t \in Task : pc[t] \in Draining =>
           Channel(t)' /\ \A topic \in Subject : Word(t, topic)'
  PROVE  LastNext
<1>1. UNCHANGED <<pc, ps_queue, accepted, msg, asked, misled>> /\ Taken' = Taken
  BY RemoteKeeps DEF Remote
<1>2. NumberedInv'
  BY <1>1 DEF LastInv, NumberedInv
<1>3. CleanInv'
  BY <1>1 DEF LastInv, CleanInv
<1>4. QED
  BY <1>1, <1>2, <1>3, WordsNext DEF LastNext

LEMMA SendsWord ==
  ASSUME LastInv, NEW t \in Task, Sends(t)
  PROVE  LastNext
<1>1. /\ Remote /\ UNCHANGED <<answers, subs>> /\ awaits' = TRUE /\ ~awaits
      /\ pending' = pending \cup {msg[t].id} /\ pc[t] = "command" /\ ~Publishing(t)
  BY DEF Sends, Remote, outcomeVars
<1>2. /\ pc' = pc /\ Taken' = Taken /\ Lost' = Lost /\ asked' = asked /\ floor' = floor
      /\ Upto(t)' = Upto(t) /\ Publishing(t)' = Publishing(t)
      /\ \A topic : Settled(t, topic)' = Settled(t, topic)
      /\ UNCHANGED <<misled, unanswered>>
  BY <1>1, RemoteKeeps DEF Remote
<1>3. pc[t] \in Draining
  BY <1>1 DEF Draining, Online
<1>4. /\ Channel(t) /\ \A u \in Task \ {t} : pc[u] \in Absent
      /\ msg[t].id = Taken /\ Upto(t) = Taken - 1
  BY <1>1, <1>3, SessionTask DEF Upto
<1>5. /\ Upto(t) \in Nat /\ floor[t] \in Nat /\ floor[t] <= Upto(t) /\ Taken \in Int
  BY <1>3, UptoBound, NumberTypes DEF LastInv, Free, Inv
<1>6. Reached(t) = Taken - 1 /\ Reached(t)' = Taken
  BY <1>1, <1>2, <1>4 DEF Reached
<1>7. Channel(t)'
  <2>1. ReachInv(t)'
    BY <1>1, <1>2, <1>4, <1>5, <1>6 DEF Channel, ReachInv
  <2>2. OrderInv'
    <3>1. \A a \in answers : a.n < Taken
      BY <1>4, <1>5, <1>6 DEF Channel, ReachInv
    <3>2. QED
      BY <1>1, <1>4, <3>1 DEF Channel, OrderInv
  <2>3. CarriedInv(t)'
    <3>1. \A f \in (floor[t] + 1)..Upto(t) : f < Taken
      BY <1>4, <1>5
    <3>2. \A a \in answers : a.n # Taken
      BY <1>4, <1>5, <1>6 DEF Channel, ReachInv
    <3>3. QED
      BY <1>1, <1>2, <1>4, <3>1, <3>2 DEF Channel, CarriedInv
  <2>4. AnsweredInv'
    BY <1>1, <1>2, <1>4 DEF Channel, AnsweredInv
  <2>5. QED
    BY <2>1, <2>2, <2>3, <2>4 DEF Channel
<1>8. ASSUME NEW topic \in Subject PROVE Word(t, topic)'
  <2>1. Decided(t, topic)
    BY <1>1, <1>3, Words DEF LastInv, Word, Unsettled
  <2>2. QED
    BY <1>1, <1>2, <2>1 DEF Word, Decided
<1>9. AwaitInv'
  BY <1>1, <1>2 DEF AwaitInv
<1>10. \A u \in Task : pc[u] \in Draining => u = t
  BY <1>4 DEF Draining, Online, Absent
<1>11. QED
  BY <1>1, <1>3, <1>7, <1>8, <1>9, <1>10, RemoteWord DEF InSession

LEMMA DropsWord ==
  ASSUME LastInv, NEW t \in Task, Drops(t)
  PROVE  LastNext
<1>1. /\ Remote /\ UNCHANGED <<pending, subs, awaits>> /\ answers' \subseteq answers
  BY DEF Drops, Reads, Remote, outcomeVars
<1>2. /\ pc' = pc /\ Taken' = Taken /\ Lost' = Lost /\ asked' = asked /\ floor' = floor
      /\ UNCHANGED <<misled, unanswered>>
      /\ \A u \in Task : /\ Upto(u)' = Upto(u) /\ Publishing(u)' = Publishing(u)
                         /\ InHand(u)' = InHand(u)
                         /\ \A topic : Settled(u, topic)' = Settled(u, topic)
  BY <1>1, RemoteKeeps DEF Remote
<1>3. ASSUME NEW u \in Task, pc[u] \in Draining
      PROVE  Channel(u)' /\ \A topic \in Subject : Word(u, topic)'
  <2>1. Channel(u) /\ \A topic \in Subject : Word(u, topic)
    BY <1>3, SessionTask, Words DEF LastInv
  <2>2. Reached(u)' = Reached(u) /\ Done(Taken)' = Done(Taken)
    BY <1>1, <1>2 DEF Reached, Done, Concerns
  <2>3. OrderInv' /\ ReachInv(u)' /\ AnsweredInv'
    BY <1>1, <1>2, <2>1, <2>2 DEF Channel, OrderInv, ReachInv, AnsweredInv
  <2>4. CarriedInv(u)'
    BY <1>1, <1>2, <2>1, <2>2 DEF Channel, CarriedInv
  <2>5. \A topic \in Subject : Word(u, topic)'
    BY <1>1, <1>2, <2>1 DEF Word, Decided, Unsettled
  <2>6. QED
    BY <2>3, <2>4, <2>5 DEF Channel
<1>4. AwaitInv'
  BY <1>1, <1>2 DEF AwaitInv, LastInv, ChannelInv
<1>5. pc[t] \in InSession
  BY DEF Drops, InSession, Draining, Online
<1>6. QED
  BY <1>1, <1>3, <1>4, <1>5, RemoteWord

(* The broker carries out a request: the one in hand, whose topic is not     *)
(* settled; or an earlier one, that failed or misled, as did all that are    *)
(* settled after it.                                                         *)
LEMMA LateWord ==
  ASSUME LastInv, NEW t \in Task, pc[t] \in Draining, NEW n \in pending,
         NEW topic \in Subject, ~Unsettled(t, topic), Concerns(n, topic)
  PROVE  Settled(t, topic) # {} /\ Final(Settled(t, topic)) \in Lost
<1>1. Channel(t) /\ Inv /\ NumberedInv
  BY SessionTask DEF LastInv, Free
<1>2. /\ Settled(t, topic) = {k \in (floor[t] + 1)..Upto(t) : Concerns(k, topic)}
      /\ Settled(t, topic) \in SUBSET (1..accepted)
  BY <1>1, SettledIs
<1>3. /\ Upto(t) \in Nat /\ floor[t] \in Nat /\ Taken \in Int /\ accepted \in Nat
  BY <1>1, UptoBound, NumberTypes DEF Inv
<1>4. n \in (floor[t] + 1)..Upto(t)
  <2>1. n \in (floor[t] + 1)..Reached(t)
    BY <1>1 DEF Channel, ReachInv
  <2>2. CASE ~awaits
    BY <2>1, <2>2 DEF Reached
  <2>3. CASE awaits
    <3>1. msg[t].id = Taken /\ Upto(t) = Taken - 1
      BY <2>3, SessionTask DEF Upto
    <3>2. n # Taken
      BY <2>3, <3>1 DEF Unsettled, InHand, Concerns
    <3>3. QED
      BY <1>3, <2>1, <2>3, <3>1, <3>2 DEF Reached
  <2>4. QED
    BY <2>2, <2>3
<1> DEFINE S == Settled(t, topic)
<1>5. n \in S
  BY <1>2, <1>4
<1>6. Final(S) \in S /\ n <= Final(S)
  <2> HIDE DEF S
  <2>1. S \in SUBSET (1..accepted)
    BY <1>2 DEF S
  <2>2. QED
    BY <1>3, <1>5, <2>1, FinalOf
<1>7. Final(S) \in Lost
  <2>1. Final(S) \in (floor[t] + 1)..Upto(t) /\ asked[Final(S)].type # "PSQ_PUBLISH"
    BY <1>2, <1>6 DEF Concerns
  <2>2. Final(S) \notin Lost => Final(S) < n
    <3> HIDE DEF S
    <3> QED
      BY <1>1, <2>1 DEF Channel, CarriedInv
  <2>3. n \in Int /\ Final(S) \in Int
    BY <1>3, <1>4, <2>1
  <2>4. QED
    <3> HIDE DEF S
    <3> QED
      BY <1>6, <2>2, <2>3
<1>8. QED
  BY <1>5, <1>7

(* What the request of number k does to a topic.                             *)
LEMMA AppliedTo ==
  ASSUME NEW k, NEW topic, asked[k].type \in AskedType
  PROVE  /\ Concerns(k, topic) =>
              (topic \in Applied(asked[k])) = (asked[k].type = "PSQ_SUBSCRIBE")
         /\ ~Concerns(k, topic) => (topic \in Applied(asked[k])) = (topic \in subs)
BY DEF Applied, Concerns, AskedType

LEMMA BrokerWord ==
  ASSUME LastInv, BrokerHandles
  PROVE  LastNext
<1>1. PICK n \in pending :
        /\ \A m \in pending : n <= m
        /\ pending' = pending \ {n}
        /\ \E type \in {"SUBACK", "SUBFAIL", "UNSUBACK"} :
             /\ answers' = answers \cup {[n |-> n, type |-> type]}
             /\ type # "SUBFAIL" => subs' = Applied(asked[n])
             /\ type = "SUBFAIL" => subs' = subs
        /\ Remote /\ UNCHANGED awaits
  BY DEF BrokerHandles, Remote, outcomeVars, Ack
<1>2. PICK type \in {"SUBACK", "SUBFAIL", "UNSUBACK"} :
        /\ answers' = answers \cup {[n |-> n, type |-> type]}
        /\ type # "SUBFAIL" => subs' = Applied(asked[n])
        /\ type = "SUBFAIL" => subs' = subs
  BY <1>1
<1>3. /\ pc' = pc /\ Taken' = Taken /\ Lost' = Lost /\ asked' = asked /\ floor' = floor
      /\ UNCHANGED <<misled, unanswered>>
      /\ \A u \in Task : /\ Upto(u)' = Upto(u) /\ Publishing(u)' = Publishing(u)
                         /\ InHand(u)' = InHand(u)
                         /\ \A topic : Settled(u, topic)' = Settled(u, topic)
      /\ \A k, topic : Concerns(k, topic)' = Concerns(k, topic)
  BY <1>1, RemoteKeeps DEF Remote
<1>4. ASSUME NEW t \in Task, pc[t] \in Draining
      PROVE  Channel(t)' /\ \A topic \in Subject : Word(t, topic)'
  <2>1. Channel(t) /\ Inv /\ NumberedInv /\ \A topic \in Subject : Word(t, topic)
    BY <1>4, SessionTask, Words DEF LastInv, Free
  <2>2. /\ Upto(t) \in Nat /\ floor[t] \in Nat /\ floor[t] <= Upto(t)
        /\ Upto(t) <= Taken /\ Taken <= accepted /\ Taken \in Int /\ accepted \in Nat
        /\ Reached(t) \in Int /\ Reached(t) <= Taken
    BY <1>4, <2>1, UptoBound, NumberTypes DEF Inv, Reached
  <2>3. n \in (floor[t] + 1)..Reached(t) /\ n \in 1..accepted
    <3>1. n \in (floor[t] + 1)..Reached(t)
      BY <2>1 DEF Channel, ReachInv
    <3>2. QED
      BY <2>2, <3>1
  <2>4. asked[n].type \in AskedType
    <3>1. asked[n] \in AskedMsg
      BY <2>1, <2>3, ElementOfSeq DEF NumberedInv
    <3>2. QED
      BY <3>1 DEF AskedMsg
  <2>5. ReachInv(t)'
    <3>1. Reached(t)' = Reached(t) /\ floor'[t] = floor[t]
      BY <1>1, <1>3 DEF Reached
    <3>2. pending' \subseteq floor'[t] + 1..Reached(t)'
      BY <1>1, <2>1, <3>1 DEF Channel, ReachInv
    <3>3. \A a \in answers' : a.n \in floor'[t] + 1..Reached(t)'
      <4>1. \A a \in answers : a.n \in floor[t] + 1..Reached(t)
        BY <2>1 DEF Channel, ReachInv
      <4>2. \A a \in answers' : a \in answers \/ a.n = n
        BY <1>2
      <4>3. QED
        BY <2>3, <3>1, <4>1, <4>2
    <3>4. QED
      BY <3>2, <3>3 DEF ReachInv
  <2>6. OrderInv'
    <3>1. \A m \in pending' : n < m
      <4>1. \A m \in pending : m \in Int
        BY <2>1, <2>2 DEF Channel, ReachInv
      <4>2. QED
        BY <1>1, <2>3, <4>1
    <3>2. \A a \in answers : a.n < n /\ a.n \in Int
      BY <2>1, <2>2 DEF Channel, OrderInv, ReachInv
    <3>3. \A a \in answers' : a \in answers \/ (a = [n |-> n, type |-> type] /\ a.n = n)
      BY <1>2
    <3>4. \A a \in answers', m \in pending' : a.n < m
      BY <1>1, <2>1, <3>1, <3>3 DEF Channel, OrderInv
    <3>5. \A a, b \in answers' : a.n = b.n => a = b
      <4>1. \A a \in answers : a.n # n
        BY <2>3, <3>2
      <4>2. QED
        BY <2>1, <3>3, <4>1, Zenon DEF Channel, OrderInv
    <3>6. QED
      BY <3>4, <3>5 DEF OrderInv
  <2>7. CarriedInv(t)'
    <3>1. \A f \in (floor[t] + 1)..Upto(t) :
            asked[f].type # "PSQ_PUBLISH" /\ f \notin Lost => \A m \in pending' : f < m
      BY <1>1, <2>1 DEF Channel, CarriedInv
    <3>2. ASSUME NEW a \in answers', awaits, a.n = Taken, a.type # "SUBFAIL"
          PROVE  Done(Taken)'
      <4>1. a \notin answers
        <5>1. ASSUME a \in answers PROVE FALSE
          <6>1. a.n < n
            BY <2>1, <5>1 DEF Channel, OrderInv
          <6>2. n <= Taken
            BY <2>2, <2>3
          <6>3. QED
            BY <2>2, <2>3, <3>2, <6>1, <6>2
        <5>2. QED
          BY <5>1
      <4>2. a = [n |-> n, type |-> type]
        BY <1>2, <4>1
      <4>3. n = Taken /\ type # "SUBFAIL"
        BY <3>2, <4>2
      <4>4. subs' = Applied(asked[Taken]) /\ asked[Taken].type \in AskedType
        BY <1>2, <2>4, <4>3
      <4>5. QED
        BY <1>3, <4>4, AppliedTo DEF Done
    <3>3. awaits' = awaits
      BY <1>1
    <3>4. QED
      BY <1>3, <3>1, <3>2, <3>3 DEF CarriedInv
  <2>8. AnsweredInv'
    <3>1. \A a \in answers' : a \in answers \/ a.n = n
      BY <1>2
    <3>2. QED
      BY <1>1, <1>3, <2>1, <3>1 DEF Channel, AnsweredInv
  <2>9. ASSUME NEW topic \in Subject PROVE Word(t, topic)'
    <3>1. Unsettled(t, topic)' = Unsettled(t, topic)
      BY <1>1, <1>3 DEF Unsettled
    <3>2. SUFFICES ASSUME ~Unsettled(t, topic), Decided(t, topic) PROVE Decided(t, topic)'
      BY <2>1, <3>1 DEF Word
    <3>3. CASE Concerns(n, topic)
      <4>1. Settled(t, topic) # {} /\ Final(Settled(t, topic)) \in Lost
        BY <1>4, <3>2, <3>3, LateWord
      <4>2. QED
        BY <1>3, <4>1 DEF Decided
    <3>4. CASE ~Concerns(n, topic)
      <4>1. (topic \in subs') = (topic \in subs)
        BY <1>2, <2>4, <3>4, AppliedTo
      <4>2. QED
        BY <1>3, <3>2, <4>1 DEF Decided
    <3>5. QED
      BY <3>3, <3>4
  <2>10. QED
    BY <2>5, <2>6, <2>7, <2>8, <2>9 DEF Channel
<1>5. AwaitInv'
  BY <1>1, <1>3 DEF AwaitInv, LastInv, ChannelInv
<1>6. \E t \in Task : pc[t] \in InSession
  BY <1>1, NothingLeft
<1>7. QED
  BY <1>1, <1>4, <1>5, <1>6, RemoteWord

-----------------------------------------------------------------------------
(* A command ends: its request failed, was a publish, is carried out, or was *)
(* taken for done.                                                           *)
Ends(t) ==
  /\ Released(t) /\ asked' = asked /\ subs' = subs /\ awaits' = FALSE
  /\ Lost \subseteq Lost' /\ answers' \subseteq answers
  /\ \/ msg[t].id \in Lost'
     \/ Publishing(t)
     \/ Done(msg[t].id) /\ pending' = {}
  /\ pending' = pending \/ (~awaits /\ pending' = pending \cup {msg[t].id})
  /\ ~unanswered' => misled' = {} /\ pending' = {} /\ answers' = {}

(* What is known of the answer that ends a command.                          *)
LEMMA OwnAnswer ==
  ASSUME LastInv, NEW t \in Task, pc[t] = "command", NEW a \in answers, awaits
  PROVE  /\ a.n = msg[t].id => pending = {} /\ (a.type # "SUBFAIL" => Done(msg[t].id))
         /\ ~unanswered => a.n = msg[t].id /\ answers = {a} /\ misled = {}
<1>1. pc[t] \in Draining
  BY DEF Draining, Online
<1>2. Channel(t) /\ msg[t].id = Taken /\ Inv /\ NumberedInv
  BY <1>1, SessionTask DEF LastInv, Free
<1>3. ASSUME a.n = Taken PROVE pending = {} /\ (a.type # "SUBFAIL" => Done(Taken))
  <2>1. Taken \in Int /\ floor[t] \in Nat
    BY <1>2, NumberTypes DEF Inv
  <2>2. \A n \in pending : Taken < n /\ n \in (floor[t] + 1)..Taken
    BY <1>2, <1>3 DEF Channel, OrderInv, ReachInv, Reached
  <2>3. pending = {}
    BY <2>1, <2>2
  <2>4. QED
    BY <1>2, <1>3, <2>3 DEF Channel, CarriedInv
<1>4. ASSUME ~unanswered PROVE a.n = Taken /\ answers = {a} /\ misled = {}
  <2>1. misled = {} /\ \A b \in answers : b.n = Taken
    BY <1>2, <1>4 DEF Channel, AnsweredInv
  <2>2. \A b \in answers : b = a
    BY <1>2, <2>1 DEF Channel, OrderInv
  <2>3. QED
    BY <2>1, <2>2
<1>5. QED
  BY <1>2, <1>3, <1>4

LEMMA CommandEnds ==
  ASSUME LastInv, NEW t \in Task, Succeeds(t) \/ Denied(t) \/ Fails(t)
  PROVE  Ends(t)
<1>1. Released(t) /\ pc[t] = "command"
  BY CommandReleases DEF Succeeds, Denied, Fails, Released
<1>2. asked' = asked /\ subs' = subs /\ awaits' = FALSE /\ Lost \subseteq Lost'
  BY DEF Succeeds, Denied, Fails, Lost
<1>3. pc[t] \in Draining
  BY <1>1 DEF Draining, Online
<1>4. Channel(t) /\ (awaits => ~Publishing(t))
  BY <1>3, SessionTask
<1>5. ~awaits /\ ~unanswered => misled = {} /\ pending = {} /\ answers = {}
  BY <1>4 DEF Channel, AnsweredInv
<1>6. CASE Publishing(t) /\ Succeeds(t)
  <2>1. UNCHANGED <<answers, misled, pending, unanswered>> \/ awaits
    BY <1>6 DEF Succeeds
  <2>2. ~awaits
    BY <1>4, <1>6
  <2>3. QED
    BY <1>1, <1>2, <1>5, <1>6, <2>1, <2>2 DEF Ends
<1>7. CASE ~Publishing(t) /\ Succeeds(t)
  <2>1. PICK a \in answers :
          /\ awaits /\ a.type # "SUBFAIL" /\ answers' = answers \ {a}
          /\ misled' = IF a.n = msg[t].id THEN misled ELSE misled \cup {msg[t].id}
          /\ UNCHANGED <<pending, unanswered>>
    BY <1>7 DEF Succeeds, Reads, Ack
  <2>2. msg[t].id \in Lost' \/ (Done(msg[t].id) /\ pending' = {})
    <3>1. CASE a.n = msg[t].id
      BY <1>1, <2>1, <3>1, OwnAnswer
    <3>2. CASE a.n # msg[t].id
      BY <2>1, <3>2 DEF Lost
    <3>3. QED
      BY <3>1, <3>2
  <2>3. ~unanswered' => misled' = {} /\ pending' = {} /\ answers' = {}
    BY <1>1, <2>1, OwnAnswer
  <2>4. QED
    BY <1>1, <1>2, <2>1, <2>2, <2>3 DEF Ends
<1>8. CASE Denied(t)
  <2>1. PICK a \in answers :
          /\ awaits /\ answers' = answers \ {a}
          /\ unanswered' = (unanswered \/ a.n # msg[t].id)
          /\ UNCHANGED <<pending, misled>> /\ failed' = failed \cup {msg[t].id}
    BY <1>8 DEF Denied, Reads
  <2>2. msg[t].id \in Lost'
    BY <2>1 DEF Lost
  <2>3. ~unanswered' => misled' = {} /\ pending' = {} /\ answers' = {}
    BY <1>1, <2>1, OwnAnswer
  <2>4. QED
    BY <1>1, <1>2, <2>1, <2>2, <2>3 DEF Ends
<1>9. CASE Fails(t)
  <2>1. msg[t].id \in Lost' /\ answers' = answers /\ misled' = misled
    BY <1>9 DEF Fails, Lost
  <2>2. pending' = pending \/ (~awaits /\ pending' = pending \cup {msg[t].id})
    BY <1>9 DEF Fails
  <2>3. ~unanswered' => misled' = {} /\ pending' = {} /\ answers' = {}
    <3>1. CASE unanswered'
      BY <3>1
    <3>2. CASE ~unanswered'
      <4>1. ~unanswered /\ ~awaits /\ pending' = pending
        <5>1. \/ ~awaits /\ pending' = pending /\ unanswered' = unanswered
              \/ /\ ~awaits /\ unanswered' = (unanswered \/ ~Publishing(t))
                 /\ pending' = IF Publishing(t) THEN pending ELSE pending \cup {msg[t].id}
              \/ unanswered' = TRUE
          BY <1>9 DEF Fails
        <5>2. CASE ~awaits /\ pending' = pending /\ unanswered' = unanswered
          BY <3>2, <5>2, Zenon
        <5>3. CASE /\ ~awaits /\ unanswered' = (unanswered \/ ~Publishing(t))
                   /\ pending' = IF Publishing(t) THEN pending ELSE pending \cup {msg[t].id}
          <6>1. Publishing(t) /\ ~unanswered
            BY <3>2, <5>3, Zenon
          <6>2. QED
            BY <5>3, <6>1, Zenon
        <5>4. CASE unanswered' = TRUE
          BY <3>2, <5>4, Zenon
        <5>5. QED
          BY <5>1, <5>2, <5>3, <5>4, Zenon
      <4>2. misled = {} /\ pending = {} /\ answers = {}
        BY <1>5, <4>1
      <4>3. QED
        BY <2>1, <4>1, <4>2
    <3>3. QED
      BY <3>1, <3>2
  <2>4. QED
    BY <1>1, <1>2, <2>1, <2>2, <2>3 DEF Ends
<1>10. QED
  BY <1>6, <1>7, <1>8, <1>9

LEMMA EndsWord ==
  ASSUME LastInv, Inv', NEW t \in Task, Ends(t)
  PROVE  LastNext
<1>1. TypeOK /\ Inv /\ NumberedInv /\ LastWordWins /\ disconnects = 0
  BY DEF LastInv, Free, Inv, NeverDetached
<1>2. /\ asked' = asked /\ accepted' = accepted /\ ps_queue' = ps_queue
      /\ floor' = floor /\ pc[t] = "command" /\ msg' = [msg EXCEPT ![t] = NoMsg]
      /\ \E label \in {"read", "yield"} : pc' = [pc EXCEPT ![t] = label]
  BY DEF Ends, Released, Release
<1>3. /\ pc'[t] \in {"read", "yield"} /\ msg'[t].id = 0
      /\ \A u \in Task \ {t} : pc[u] \in Absent /\ pc'[u] = pc[u] /\ msg'[u] = msg[u]
  BY <1>1, <1>2, OneRunner DEF Absent, TypeOK, NoMsg
<1>4. Taken' = Taken
  BY <1>2 DEF Taken
<1>5. NumberedInv'
  <2>1. \A u \in Task : msg'[u].id = IF pc'[u] = "command" THEN Taken' ELSE 0
    BY <1>1, <1>3 DEF NumberedInv, Absent
  <2>2. QED
    BY <1>1, <1>2, <1>4, <2>1 DEF NumberedInv
<1>6. CleanInv' /\ AwaitInv'
  BY <1>3 DEF CleanInv, AwaitInv, Ends, InSession, Draining, Online
<1> DEFINE k == msg[t].id
<1>7. /\ k = Taken /\ Upto(t)' = Taken /\ Upto(t) = Taken - 1
      /\ floor[t] \in Nat /\ floor[t] < k /\ k \in 1..accepted /\ accepted \in Nat
      /\ Channel(t) /\ (awaits => ~Publishing(t)) /\ pc[t] \in Draining
  <2>1. pc[t] \in Draining
    BY <1>2 DEF Draining, Online
  <2>2. /\ Upto(t) \in Nat /\ floor[t] \in Nat /\ floor[t] <= Upto(t)
        /\ Upto(t) <= Taken /\ Taken <= accepted
    BY <1>1, <2>1, UptoBound
  <2>3. k = Taken /\ Upto(t)' = Taken /\ Upto(t) = Taken - 1
    BY <1>1, <1>2, <1>3, <1>4 DEF NumberedInv, Upto
  <2>4. Taken \in Int /\ accepted \in Nat
    BY <1>1, NumberTypes
  <2>5. Channel(t) /\ (awaits => ~Publishing(t))
    BY <2>1, SessionTask
  <2>6. QED
    BY <2>1, <2>2, <2>3, <2>4, <2>5
<1>8. Channel(t)'
  <2>1. Reached(t)' = Taken /\ Reached(t) \in {Taken, Taken - 1} /\ (~awaits => Reached(t) = Taken - 1)
    BY <1>7 DEF Reached, Ends
  <2>2. ReachInv(t)'
    <3>1. (floor[t] + 1)..Reached(t) \subseteq (floor[t] + 1)..Taken /\ k \in (floor[t] + 1)..Taken
      BY <1>7, <2>1
    <3>2. QED
      BY <1>2, <1>7, <2>1, <3>1 DEF Channel, ReachInv, Ends
  <2>3. OrderInv'
    <3>1. ~awaits => \A a \in answers : a.n < k
      BY <1>7, <2>1 DEF Channel, ReachInv
    <3>2. \A a \in answers', n \in pending' : a.n < n
      BY <1>7, <3>1 DEF Channel, OrderInv, Ends
    <3>3. \A a, b \in answers' : a.n = b.n => a = b
      BY <1>7 DEF Channel, OrderInv, Ends
    <3>4. QED
      BY <3>2, <3>3 DEF OrderInv
  <2>4. CarriedInv(t)'
    <3>1. ASSUME NEW f \in (floor[t] + 1)..Taken, asked[f].type # "PSQ_PUBLISH",
                 f \notin Lost', NEW n \in pending'
          PROVE  f < n
      <4>1. CASE f = k
        <5>1. pending' = {}
          BY <3>1, <4>1 DEF Ends, Publishing, InHand
        <5>2. QED
          BY <3>1, <5>1
      <4>2. CASE f # k
        <5>1. f \in (floor[t] + 1)..Upto(t) /\ f < k
          BY <1>7, <3>1, <4>2
        <5>2. f \notin Lost /\ (n \in pending \/ n = k)
          BY <3>1 DEF Ends
        <5>3. QED
          BY <1>7, <3>1, <5>1, <5>2 DEF Channel, CarriedInv
      <4>3. QED
        BY <4>1, <4>2
    <3>2. floor' = floor /\ asked' = asked /\ Upto(t)' = Taken /\ ~awaits'
      BY <1>2, <1>7 DEF Ends
    <3>3. QED
      BY <3>1, <3>2 DEF CarriedInv
  <2>5. AnsweredInv'
    BY DEF AnsweredInv, Ends
  <2>6. QED
    BY <2>2, <2>3, <2>4, <2>5 DEF Channel
<1>9. ASSUME NEW topic \in Subject
      PROVE  Decided(t, topic)'
  <2>1. Settled(t, topic) = {j \in (floor[t] + 1)..(k - 1) : Concerns(j, topic)}
    BY <1>1, <1>7, SettledIs
  <2>2. Settled(t, topic)' = {j \in (floor[t] + 1)..k : Concerns(j, topic)}
    <3>1. Settled(t, topic)' = {j \in (floor'[t] + 1)..Upto(t)' : Concerns(j, topic)'}
      BY <1>5, SettledNext DEF Inv
    <3>2. \A j : Concerns(j, topic)' = Concerns(j, topic)
      BY <1>2 DEF Concerns
    <3>3. QED
      BY <1>2, <1>7, <3>1, <3>2
  <2>3. CASE Concerns(k, topic)
    <3> DEFINE S == Settled(t, topic)'
    <3>1. S \in SUBSET Int /\ k \in S /\ \A j \in S : j <= k
      BY <1>7, <2>2, <2>3
    <3>2. Final(S) = k
      <4> HIDE DEF S, k
      <4> QED
        BY <3>1, FinalIs
    <3>3. k \in Lost' \/ (topic \in subs') = (asked'[k].type = "PSQ_SUBSCRIBE")
      BY <1>2, <2>3 DEF Ends, Done, Publishing, InHand, Concerns
    <3>4. S # {} /\ (Final(S) \in Lost'
                       \/ (topic \in subs') = (asked'[Final(S)].type = "PSQ_SUBSCRIBE"))
      BY <3>1, <3>2, <3>3
    <3>5. QED
      BY <3>4 DEF Decided
  <2>4. CASE ~Concerns(k, topic)
    <3>1. Settled(t, topic)' = Settled(t, topic)
      BY <1>7, <2>1, <2>2, <2>4
    <3>2. subs' = subs /\ Lost \subseteq Lost'
      BY DEF Ends
    <3>3. Settled(t, topic) \in SUBSET (1..accepted)
      BY <1>7, <2>1
    <3>4. ~Unsettled(t, topic)
      BY <1>7, <2>4 DEF Unsettled, Concerns, Publishing, InHand
    <3>5. Decided(t, topic)
      BY <1>1, <1>7, <3>4, Words DEF Word
    <3>6. QED
      BY <1>2, <1>7, <3>1, <3>2, <3>3, <3>5, SameWord
  <2>5. QED
    BY <2>3, <2>4
<1>10. ASSUME NEW u \in Task, pc'[u] \in Draining
       PROVE  Channel(u)' /\ \A topic \in Subject : Word(u, topic)'
  <2>1. u = t
    BY <1>3, <1>10 DEF Draining, Online, Absent
  <2>2. QED
    BY <1>8, <1>9, <2>1 DEF Word
<1>11. QED
  BY <1>5, <1>6, <1>10, WordsNext DEF LastNext

-----------------------------------------------------------------------------
(* The other steps take nothing from the queue, end no connection and leave  *)
(* the broker alone.                                                         *)
Idle == Asking /\ \A u \in Task : pc[u] \in InSession => pc'[u] \in InSession

LEMMA IdleWord ==
  ASSUME LastInv, Inv', Idle
  PROVE  LastNext
<1>1. LastWordWins' /\ NumberedInv' /\ ChannelInv'
  BY AskingWord DEF Idle
<1>2. UNCHANGED <<subs, pending, answers, awaits, misled>>
  BY DEF Idle, Asking, brokerVars, outcomeVars
<1>3. CleanInv'
  BY <1>2 DEF CleanInv, LastInv, Idle
<1>4. QED
  BY <1>1, <1>3 DEF LastNext

(* A request by whomever.                                                    *)
LEMMA MadeIdle ==
  ASSUME NEW type \in AskedType, NEW topic \in AskedTopic, Made(type), Asks(type, topic),
         UNCHANGED <<brokerVars, awaits, outcomeVars>>
  PROVE  Idle
<1>1. Passive
  BY StillPassive DEF Made
<1>2. pc' = pc /\ Enqueue(type)
  BY DEF Made
<1>3. QED
  BY <1>1, <1>2 DEF Idle, Asking

LEMMA RequestIdle ==
  ASSUME NEW type \in AskedType, NEW topic \in AskedTopic, Request(type),
         Asks(type, topic), UNCHANGED <<brokerVars, awaits, outcomeVars>>
  PROVE  Idle
BY RequestMade, MadeIdle

LEMMA ConnectingIdle ==
  ASSUME TypeOK, Connecting \/ Elsewhere \/ UNCHANGED allVars
  PROVE  Idle
<1>1. UNCHANGED <<ps_queue, accepted, asked, brokerVars, awaits, outcomeVars>>
  BY OthersMoves DEF Connecting, Elsewhere, ConnectCheck, Create, CreateFails, appVars, allVars, vars
<1>2. Passive
  BY PassiveApi DEF Connecting, Elsewhere, Api, allVars
<1>3. \A u \in Task : pc[u] \in InSession => pc'[u] \in InSession
  BY OthersMoves DEF Connecting, Elsewhere, ConnectCheck, Create, CreateFails, TypeOK,
                     allVars, vars, InSession, Draining, Online
<1>4. QED
  BY <1>1, <1>2, <1>3 DEF Idle, Asking

(* The steps of a task that are passive stay in the session but for Close.   *)
LEMMA StillInSession ==
  ASSUME TypeOK, NEW t \in Task, PassiveStep(t), ~Close(t)
  PROVE  \A u \in Task : pc[u] \in InSession => pc'[u] \in InSession
<1>1. \E label : /\ pc' = [pc EXCEPT ![t] = label]
                 /\ pc[t] \in InSession => label \in InSession
  <2> USE DEF InSession, Draining, Online
  <2>1. CASE TaskStart(t)
    BY <2>1 DEF TaskStart
  <2>2. CASE WifiAndToken(t)
    BY <2>2, TokenMoves
  <2>3. CASE Dial(t)
    BY <2>3 DEF Dial
  <2>4. CASE NewClient(t) \/ Refused(t)
    BY <2>4 DEF NewClient, Refused
  <2>5. CASE Delay(t)
    BY <2>5 DEF Delay
  <2>6. CASE End(t) \/ Delete(t) \/ SetAlias(t) \/ Callback(t) \/ QueueEmpty(t)
    BY <2>6 DEF End, Delete, SetAlias, Callback, QueueEmpty
  <2>7. CASE Yield(t)
    BY <2>7 DEF Yield
  <2>8. CASE MqttConnect(t)
    BY <2>8 DEF MqttConnect
  <2>9. QED
    BY <2>1, <2>2, <2>3, <2>4, <2>5, <2>6, <2>7, <2>8 DEF PassiveStep
<1>2. QED
  BY <1>1 DEF TypeOK

LEMMA PassiveIdle ==
  ASSUME TypeOK, NEW t \in Task, PassiveStep(t), ~Close(t),
         UNCHANGED <<queueVars, asked, brokerVars, awaits, outcomeVars>>
  PROVE  Idle
BY PassiveTask, StillInSession DEF Idle, Asking

LEMMA OtherIdle ==
  ASSUME TypeOK, NEW t \in Task,
         CallbackReturns(t) \/ (Other(t) /\ ~ReadQueue(t)) \/ Waits(t)
  PROVE  Idle
<1>1. CASE CallbackReturns(t)
  <2>1. PassiveStep(t) /\ ~Close(t) /\ UNCHANGED <<queueVars, asked, brokerVars, awaits, outcomeVars>>
    BY <1>1 DEF CallbackReturns, Callback, PassiveStep, Close
  <2>2. QED
    BY <2>1, PassiveIdle
<1>2. CASE Other(t) /\ ~ReadQueue(t)
  <2>1. UNCHANGED <<asked, brokerVars, awaits, outcomeVars>>
    BY <1>2 DEF Other, appVars
  <2>2. PassiveStep(t) /\ UNCHANGED queueVars /\ pc[t] # "close"
    BY <1>2 DEF Other, PassiveStep, TaskStart, Dial, NewClient, MqttConnect, Refused, Delay,
       End, Delete, QueueEmpty, Yield
  <2>3. ~Close(t)
    BY <2>2 DEF Close
  <2>4. QED
    BY <2>1, <2>2, <2>3, PassiveIdle
<1>3. CASE Waits(t)
  <2>1. PassiveStep(t) /\ ~Close(t) /\ UNCHANGED <<queueVars, asked, brokerVars, awaits, outcomeVars>>
    BY <1>3, TokenMoves DEF Waits, PassiveStep, Close, appVars
  <2>2. QED
    BY <2>1, PassiveIdle
<1>4. QED
  BY <1>1, <1>2, <1>3

LEMMA AliasIdle ==
  ASSUME TypeOK, NEW t \in Task, Alias(t)
  PROVE  Idle
<1>1. PassiveStep(t) /\ ~Close(t) /\ UNCHANGED <<brokerVars, awaits, outcomeVars>>
  BY DEF Alias, SetAlias, PassiveStep, Close
<1>2. Passive /\ \A u \in Task : pc[u] \in InSession => pc'[u] \in InSession
  BY <1>1, PassiveTask, StillInSession
<1>3. Asks("PSQ_PUBLISH", "@setalias")
  BY DEF Alias
<1>4. CASE HasAlias
  <2>1. Enqueue("PSQ_PUBLISH")
    BY <1>4 DEF Alias, SetAlias
  <2>2. QED
    BY <1>1, <1>2, <1>3, <2>1 DEF Idle, Asking, AskedType, AskedTopic
<1>5. CASE ~HasAlias
  <2>1. UNCHANGED <<ps_queue, accepted>>
    BY <1>5 DEF Alias, SetAlias
  <2>2. asked' = asked
    BY <1>3, <2>1, NumberTypes DEF Asks
  <2>3. QED
    BY <1>1, <1>2, <2>1, <2>2 DEF Idle, Asking
<1>6. QED
  BY <1>4, <1>5

LEMMA LastSteps ==
  ASSUME TypeOK, [SNext]_allVars
  PROVE  \/ Idle
         \/ BrokerHandles
         \/ \E t \in Task : \/ Forgets(t) \/ Sends(t) \/ Drops(t) \/ Closes(t)
                            \/ Succeeds(t) \/ Denied(t) \/ Fails(t)
                            \/ ReadQueue(t) /\ UNCHANGED appVars
<1>1. ASSUME NEW type \in RequestType, NEW topic \in Topic, Ask(type, topic)
      PROVE  Idle
  <2>1. type \in AskedType /\ topic \in AskedTopic
    BY RequestTypeAssumption DEF AskedType, AskedTopic
  <2>2. QED
    BY <1>1, <2>1, RequestIdle DEF Ask
<1>2. ASSUME NEW event \in Event, On(event) PROVE Idle
  <2>1. UNCHANGED <<brokerVars, awaits, outcomeVars>>
    BY <1>2 DEF On
  <2>2. CASE /\ event \in {"present", "absent"} /\ Request("PSQ_SUBSCRIBE")
             /\ Asks("PSQ_SUBSCRIBE", event)
    BY <2>1, <2>2, RequestIdle DEF AskedType, AskedTopic
  <2>3. CASE UNCHANGED <<vars, asked>>
    <3>1. UNCHANGED <<ps_queue, accepted, pc>> /\ Passive
      BY <2>3, PassiveApi DEF vars
    <3>2. QED
      BY <2>1, <2>3, <3>1 DEF Idle, Asking
  <2>4. QED
    BY <1>2, <2>2, <2>3 DEF On
<1>3. CASE Connecting \/ Elsewhere \/ UNCHANGED allVars
  BY <1>3, ConnectingIdle
<1>4. ASSUME NEW t \in Task, CallbackAsks(t) PROVE Idle
  <2>1. /\ Made("PSQ_SUBSCRIBE") /\ Asks("PSQ_SUBSCRIBE", OnConnected)
        /\ UNCHANGED <<brokerVars, awaits, outcomeVars>>
    BY <1>4 DEF CallbackAsks, Made
  <2>2. "PSQ_SUBSCRIBE" \in AskedType /\ OnConnected \in AskedTopic
    BY TopicAssumption DEF AskedType, AskedTopic
  <2>3. QED
    BY <2>1, <2>2, MadeIdle
<1>5. ASSUME NEW t \in Task, STaskStep(t) \/ Waits(t)
      PROVE  \/ Idle
             \/ Forgets(t) \/ Sends(t) \/ Drops(t) \/ Closes(t)
             \/ Succeeds(t) \/ Denied(t) \/ Fails(t)
             \/ ReadQueue(t) /\ UNCHANGED appVars
  <2>1. Other(t) => UNCHANGED appVars
    BY DEF Other
  <2>2. QED
    BY <1>4, <1>5, <2>1, AliasIdle, OtherIdle DEF STaskStep
<1>6. QED
  BY <1>1, <1>2, <1>3, <1>5 DEF SNext

LEMMA StepLast == LastInv /\ Inv' /\ [SNext]_allVars => LastNext
<1> SUFFICES ASSUME LastInv, Inv', [SNext]_allVars PROVE LastNext
  OBVIOUS
<1>1. CASE Idle
  BY <1>1, IdleWord
<1>2. CASE BrokerHandles
  BY <1>2, BrokerWord
<1>3. ASSUME NEW t \in Task,
             \/ Forgets(t) \/ Sends(t) \/ Drops(t) \/ Closes(t)
             \/ Succeeds(t) \/ Denied(t) \/ Fails(t)
             \/ ReadQueue(t) /\ UNCHANGED appVars
      PROVE  LastNext
  BY <1>3, ForgetsWord, SendsWord, DropsWord, ClosesWord, ReadWord, CommandEnds, EndsWord
<1>4. TypeOK
  BY DEF LastInv, Free, Inv
<1>5. QED
  BY <1>1, <1>2, <1>3, <1>4, LastSteps

LEMMA InitLast == SInit => LastWordWins /\ NumberedInv /\ CleanInv /\ ChannelInv
<1> SUFFICES ASSUME SInit PROVE LastWordWins /\ NumberedInv /\ CleanInv /\ ChannelInv
  OBVIOUS
<1>1. LastWordWins /\ ChannelInv
  BY DEF SInit, Init, LastWordWins, ChannelInv, AwaitInv, Draining, Online
<1>2. asked \in Seq(AskedMsg) /\ Len(asked) = accepted /\ Len(ps_queue) = 0
  BY EmptySeq DEF SInit, Init
<1>3. NumberedInv
  BY <1>2 DEF NumberedInv, SInit, Init, NoMsg
<1>4. CleanInv
  BY DEF CleanInv, SInit, Init
<1>5. QED
  BY <1>1, <1>3, <1>4

(* Whatever the API, microgear_on, the callback, the broker and the session  *)
(* do in between, and however late requests that were timed out are carried  *)
(* out, the latest request that concerns a topic decides whether it is       *)
(* subscribed, unless its command failed or was taken for done on the answer *)
(* to another (MQTTClient.c:407-426, 455-459), which takes a command that    *)
(* ended without its answer (Microgear.c:379, 389-425).                      *)
THEOREM LastWordDecides == SSafe => []LastWordWins
<1>1. SInit => LastInv
  BY InitFree, InitLast DEF SInit, LastInv
<1>2. LastInv /\ [SNext]_allVars => LastInv'
  <2>1. LastInv /\ [SNext]_allVars => Free'
    BY ComposedFree DEF LastInv
  <2>2. Free' => Inv'
    BY DEF Free
  <2>3. QED
    BY <2>1, <2>2, StepLast DEF LastInv, LastNext
<1>3. LastInv => LastWordWins
  BY DEF LastInv
<1>4. QED
  BY <1>1, <1>2, <1>3, PTL DEF SSafe
=============================================================================
