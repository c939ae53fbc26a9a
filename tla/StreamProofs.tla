----------------------------- MODULE StreamProofs -----------------------------
(***************************************************************************)
(* Theorems about RemainingLength and Stream, for packets of any length,   *)
(* any number of them and digits of any size.                              *)
(***************************************************************************)
EXTENDS Stream, Induction, SequenceTheorems

-----------------------------------------------------------------------------
(* MQTTPacket_encode is what its recursion says, for every length.           *)
LEMMA Encode ==
  /\ MQTTPacket_encode \in [Nat -> Seq(Nat)]
  /\ \A n \in Nat : n < Radix => MQTTPacket_encode[n] = <<n>>
  /\ \A n \in Nat : n >= Radix => MQTTPacket_encode[n] =
       <<Radix + (n % Radix)>> \o MQTTPacket_encode[n \div Radix]
<1>1. MQTTPacket_encode = CHOOSE f : Positional(f, Radix)
  BY DEF MQTTPacket_encode, Positional
<1>2. Positional(MQTTPacket_encode, Radix)
  BY <1>1, RadixAssumption, PositionalExists
<1>3. QED
  BY <1>2, RadixAssumption, PositionalDigits

-----------------------------------------------------------------------------
(* The bytes of a packet, and taking some of them off a stream.            *)

LEMMA PacketBytes ==
  ASSUME NEW p \in Packets
  PROVE  /\ p = [header |-> p.header, body |-> p.body]
         /\ p.header \in Nat /\ p.body \in Seq(Nat) /\ Len(p.body) \in Nat
         /\ MQTTPacket_encode[Len(p.body)] \in Seq(Nat)
         /\ Bytes(p) \in Seq(Nat)
<1>1. p \in [header : Nat, body : Seq(Nat)]
  BY PacketsAssumption
<1>2. p = [header |-> p.header, body |-> p.body] /\ p.header \in Nat /\ p.body \in Seq(Nat)
  BY <1>1
<1>3. Len(p.body) \in Nat
  BY <1>2
<1>4. MQTTPacket_encode[Len(p.body)] \in Seq(Nat)
  <2>1. MQTTPacket_encode \in [Nat -> Seq(Nat)]
    BY Encode
  <2>2. QED
    BY <1>3, <2>1
<1>5. Bytes(p) \in Seq(Nat)
  <2>1. <<p.header>> \in Seq(Nat)
    BY <1>2
  <2>2. QED
    BY <1>2, <1>4, <2>1 DEF Bytes
<1>6. QED
  BY <1>2, <1>3, <1>4, <1>5

LEMMA Assoc ==
  ASSUME NEW a \in Seq(Nat), NEW b \in Seq(Nat), NEW c \in Seq(Nat)
  PROVE  (a \o b) \o c = a \o (b \o c)
<1> DEFINE T == Nat
<1>1. a \in Seq(T) /\ b \in Seq(T) /\ c \in Seq(T)
  OBVIOUS
<1> HIDE DEF T
<1>2. QED
  BY ONLY <1>1, ConcatAssociative

LEMMA ConcatAt ==
  ASSUME NEW a \in Seq(Nat), NEW b \in Seq(Nat), NEW i \in 1..(Len(a) + Len(b))
  PROVE  /\ i <= Len(a) => (a \o b)[i] = a[i]
         /\ i > Len(a) => (a \o b)[i] = b[i - Len(a)]
BY ConcatProperties

(* What is at the front of the stream is what a read of its length yields.   *)
LEMMA Taken ==
  ASSUME NEW s \in Seq(Nat), NEW f \in Seq(Nat), NEW x \in Seq(Nat), NEW y \in Seq(Nat),
         s \o f = x \o y, Len(x) <= Len(s)
  PROVE  /\ SubSeq(s, 1, Len(x)) = x
         /\ SubSeq(s, Len(x) + 1, Len(s)) \in Seq(Nat)
         /\ SubSeq(s, Len(x) + 1, Len(s)) \o f = y
<1> DEFINE t == SubSeq(s, Len(x) + 1, Len(s))
<1>1. Len(s) \in Nat /\ Len(f) \in Nat /\ Len(x) \in Nat /\ Len(y) \in Nat
  OBVIOUS
<1>2. Len(s) + Len(f) = Len(x) + Len(y)
  <2>1. Len(s \o f) = Len(s) + Len(f) /\ Len(x \o y) = Len(x) + Len(y)
    OBVIOUS
  <2>2. QED
    BY <2>1
<1>3. \A i \in 1..Len(x) : s[i] = x[i]
  <2> TAKE i \in 1..Len(x)
  <2>1. (s \o f)[i] = s[i] /\ (x \o y)[i] = x[i]
    BY <1>1
  <2>2. QED
    BY <2>1
<1>4. \A i \in 1..Len(y) : y[i] = (s \o f)[Len(x) + i]
  <2> TAKE i \in 1..Len(y)
  <2>1. (x \o y)[Len(x) + i] = y[i]
    BY <1>1
  <2>2. QED
    BY <2>1
<1>5. SubSeq(s, 1, Len(x)) = x
  <2>1. SubSeq(s, 1, Len(x)) \in Seq(Nat) /\ Len(SubSeq(s, 1, Len(x))) = Len(x)
        /\ \A i \in 1..Len(x) : SubSeq(s, 1, Len(x))[i] = s[i]
    BY <1>1
  <2>2. QED
    BY <1>3, <2>1, SeqEqual
<1>6. t \in Seq(Nat) /\ Len(t) = Len(s) - Len(x) /\ \A i \in 1..Len(t) : t[i] = s[Len(x) + i]
  BY <1>1
<1> HIDE DEF t
<1>7. t \o f \in Seq(Nat) /\ Len(t \o f) = Len(y)
  BY <1>1, <1>2, <1>6
<1>8. ASSUME NEW i \in 1..Len(y) PROVE (t \o f)[i] = y[i]
  <2>0. /\ i \in 1..(Len(t) + Len(f)) /\ Len(x) + i \in 1..(Len(s) + Len(f))
        /\ i <= Len(t) \/ i > Len(t)
        /\ i <= Len(t) => i \in 1..Len(t) /\ Len(x) + i <= Len(s)
        /\ i > Len(t) => Len(x) + i > Len(s) /\ (Len(x) + i) - Len(s) = i - Len(t)
    <3>1. Len(t) = Len(s) - Len(x)
      BY <1>6
    <3>2. QED
      <4>1. Len(t) \in Nat /\ i \in Nat /\ i >= 1 /\ i <= Len(y)
        BY ONLY <1>1, <3>1, i \in 1..Len(y), Len(x) <= Len(s)
      <4>2. i <= Len(t) + Len(f) /\ Len(x) + i <= Len(s) + Len(f)
        BY ONLY <1>1, <1>2, <3>1, <4>1
      <4>3. i \in 1..(Len(t) + Len(f)) /\ Len(x) + i \in 1..(Len(s) + Len(f))
        BY ONLY <1>1, <4>1, <4>2
      <4>4. i <= Len(t) => i \in 1..Len(t) /\ Len(x) + i <= Len(s)
        BY ONLY <1>1, <3>1, <4>1
      <4>5. i > Len(t) => Len(x) + i > Len(s) /\ (Len(x) + i) - Len(s) = i - Len(t)
        BY ONLY <1>1, <3>1, <4>1
      <4>6. QED
        BY ONLY <4>1, <4>3, <4>4, <4>5
  <2>1. CASE i <= Len(t)
    <3>1. (t \o f)[i] = t[i] /\ (s \o f)[Len(x) + i] = s[Len(x) + i]
      BY ONLY <1>6, <2>0, <2>1, s \in Seq(Nat), f \in Seq(Nat), ConcatAt
    <3>2. t[i] = s[Len(x) + i]
      BY <1>6, <2>0, <2>1
    <3>3. QED
      BY ONLY <1>4, <3>1, <3>2, i \in 1..Len(y)
  <2>2. CASE i > Len(t)
    <3>1. (t \o f)[i] = f[i - Len(t)]
      BY ONLY <1>6, <2>0, <2>2, f \in Seq(Nat), ConcatAt
    <3>2. (s \o f)[Len(x) + i] = f[(Len(x) + i) - Len(s)]
      BY ONLY <2>0, <2>2, s \in Seq(Nat), f \in Seq(Nat), ConcatAt
    <3>3. (Len(x) + i) - Len(s) = i - Len(t)
      BY ONLY <2>0, <2>2
    <3>4. QED
      BY ONLY <1>4, <3>1, <3>2, <3>3, i \in 1..Len(y)
  <2>3. QED
    BY ONLY <2>0, <2>1, <2>2
<1>9. t \o f = y
  BY <1>7, <1>8, SeqEqual
<1>10. QED
  BY <1>5, <1>6, <1>9 DEF t

(* The network moves bytes along the stream.                                 *)
LEMMA Moved ==
  ASSUME NEW s \in Seq(Nat), NEW f \in Seq(Nat), NEW n \in 1..Len(f)
  PROVE  /\ s \o SubSeq(f, 1, n) \in Seq(Nat) /\ SubSeq(f, n + 1, Len(f)) \in Seq(Nat)
         /\ (s \o SubSeq(f, 1, n)) \o SubSeq(f, n + 1, Len(f)) = s \o f
<1>1. Len(f) \in Nat
  OBVIOUS
<1>2. SubSeq(f, 1, n) \in Seq(Nat) /\ SubSeq(f, n + 1, Len(f)) \in Seq(Nat)
  BY <1>1
<1>3. SubSeq(f, 1, n) \o SubSeq(f, n + 1, Len(f)) = f
  <2>1. /\ 1 \in 1..(Len(f) + 1) /\ n \in (1 - 1)..Len(f) /\ Len(f) \in n..Len(f)
    BY <1>1
  <2>2. SubSeq(f, 1, n) \o SubSeq(f, n + 1, Len(f)) = SubSeq(f, 1, Len(f))
    BY <2>1, ConcatAdjacentSubSeq
  <2>3. QED
    BY <2>2, SubSeqFull
<1>4. s \o SubSeq(f, 1, n) \in Seq(Nat)
  BY <1>2
<1> DEFINE u == SubSeq(f, 1, n)
           v == SubSeq(f, n + 1, Len(f))
<1>5. (s \o u) \o v = s \o (u \o v)
  <2>1. u \in Seq(Nat) /\ v \in Seq(Nat)
    BY <1>2
  <2> HIDE DEF u, v
  <2>2. QED
    BY <2>1, Assoc
<1>6. QED
  BY <1>2, <1>3, <1>4, <1>5

(* The next digit of a length and what is still to be added for it.          *)
LEMMA NextDigit ==
  ASSUME NEW q \in Nat, NEW m \in Nat, NEW r \in Nat
  PROVE  \/ /\ q < Radix /\ q % Radix = q
            /\ MQTTPacket_encode[q] = <<q>>
         \/ /\ q >= Radix /\ q \div Radix \in Nat
            /\ Radix + (q % Radix) \in Nat /\ Radix + (q % Radix) >= Radix
            /\ MQTTPacket_encode[q] = <<Radix + (q % Radix)>> \o MQTTPacket_encode[q \div Radix]
            /\ (Radix + (q % Radix)) % Radix = q % Radix
            /\ (r + (q % Radix) * m) + (q \div Radix) * (m * Radix) = r + q * m
<1>1. CASE q < Radix
  <2>1. q % Radix = q
    BY <1>1, RadixAssumption
  <2>2. QED
    BY <1>1, <2>1, Encode
<1>2. CASE q >= Radix
  <2> DEFINE d == q % Radix
             e == q \div Radix
  <2>1. e \in Nat /\ d \in 0..(Radix - 1) /\ q = e * Radix + d
    BY Digits, RadixAssumption
  <2>2. MQTTPacket_encode[q] = <<Radix + d>> \o MQTTPacket_encode[e]
    BY <1>2, Encode
  <2> HIDE DEF d, e
  <2>3. Radix + d \in Nat /\ Radix + d >= Radix
    BY <2>1, RadixAssumption
  <2>4. (Radix + d) % Radix = d
    BY <2>1, RadixAssumption
  <2>5. (r + d * m) + e * (m * Radix) = r + q * m
    <3>1. q * m = (e * Radix) * m + d * m
      BY <2>1, RadixAssumption
    <3>2. (e * Radix) * m = e * (m * Radix)
      BY <2>1, RadixAssumption
    <3>3. d * m \in Nat /\ e * (m * Radix) \in Nat /\ q * m \in Nat
      BY <2>1, RadixAssumption
    <3>4. QED
      BY <3>1, <3>2, <3>3
  <2>6. QED
    BY <1>2, <2>1, <2>2, <2>3, <2>4, <2>5 DEF d, e
<1>3. QED
  BY <1>1, <1>2, RadixAssumption

-----------------------------------------------------------------------------
(* Where a reader is in the stream, as long as none of its reads gave up     *)
(* inside a packet.  rest[k] are the bytes of the packets behind the k-th.   *)

StreamTyped ==
  /\ sent \in Seq(Packets) /\ flight \in Seq(Nat) /\ socket \in Seq(Nat)
  /\ rem_len \in Nat /\ multiplier \in Nat /\ torn \in BOOLEAN

Remainders(rest) ==
  /\ rest \in [0..Len(sent) -> Seq(Nat)]
  /\ rest[Len(sent)] = <<>>
  /\ \A k \in 0..(Len(sent) - 1) : rest[k] = Bytes(sent[k + 1]) \o rest[k + 1]

InHand == sent[Len(received) + 1]

AtHeader(rest) == at = "header" /\ socket \o flight = rest[Len(received)]

\* q is what the digits of the length that are still to come amount to.
AtLength(rest, q) ==
  /\ at = "length" /\ Len(received) < Len(sent) /\ q \in Nat
  /\ packet = [header |-> InHand.header, body |-> <<>>]
  /\ socket \o flight = MQTTPacket_encode[q] \o (InHand.body \o rest[Len(received) + 1])
  /\ rem_len + q * multiplier = Len(InHand.body)

\* a is the part of the body that was read, b the part that is still to come.
AtBody(rest, a, b) ==
  /\ at = "body" /\ Len(received) < Len(sent) /\ a \in Seq(Nat) /\ b \in Seq(Nat)
  /\ packet = [header |-> InHand.header, body |-> a] /\ a \o b = InHand.body
  /\ socket \o flight = b \o rest[Len(received) + 1] /\ rem_len = Len(b)

Follows(rest) ==
  \/ AtHeader(rest)
  \/ \E q : AtLength(rest, q)
  \/ \E a, b : AtBody(rest, a, b)

InStep ==
  /\ received \in Seq(Packets) /\ Len(received) <= Len(sent)
  /\ \E rest : Remainders(rest) /\ Follows(rest)

StreamInv == StreamTyped /\ (~torn => InStep)

LEMMA StreamInit == Init => StreamInv
<1> SUFFICES ASSUME Init PROVE StreamInv
  OBVIOUS
<1>1. StreamTyped
  <2>1. sent \in Seq(Packets) /\ flight \in Seq(Nat) /\ socket \in Seq(Nat)
    BY DEF Init
  <2>2. QED
    BY <2>1 DEF Init, StreamTyped
<1>2. received \in Seq(Packets) /\ Len(received) <= Len(sent)
  BY DEF Init
<1> DEFINE r == [k \in 0..0 |-> <<>>]
<1>3. Len(sent) = 0 /\ Len(received) = 0 /\ socket \o flight = <<>> /\ <<>> \in Seq(Nat)
  BY DEF Init
<1>4. Remainders(r)
  BY <1>3 DEF Remainders
<1>5. AtHeader(r)
  BY <1>3 DEF AtHeader, Init
<1>6. QED
  BY <1>1, <1>2, <1>4, <1>5 DEF StreamInv, InStep, Follows

LEMMA TypedStep == StreamTyped /\ [Next]_vars => StreamTyped'
<1> SUFFICES ASSUME StreamTyped, [Next]_vars PROVE StreamTyped'
  OBVIOUS
<1> USE DEF StreamTyped
<1>1. ASSUME NEW n \in Nat, n >= 1, Recv(n)
      PROVE  SubSeq(socket, 1, n) \in Seq(Nat) /\ sent' = sent /\ flight' = flight /\ socket' \in Seq(Nat)
  BY <1>1 DEF Recv, peerVars
<1>2. ASSUME NEW p \in Packets, PeerSends(p) PROVE StreamTyped'
  <2>1. Bytes(p) \in Seq(Nat)
    BY PacketBytes
  <2>2. QED
    BY <1>2, <2>1 DEF PeerSends, readerVars, lengthVars
<1>3. ASSUME NEW n \in 1..Len(flight), Arrives(n) PROVE StreamTyped'
  BY <1>3, Moved DEF Arrives, readerVars, lengthVars
<1>4. CASE ReadHeader
  BY <1>1, <1>4 DEF ReadHeader
<1>5. CASE ReadDigit
  <2>1. sent' = sent /\ flight' = flight /\ socket' \in Seq(Nat)
    BY <1>1, <1>5 DEF ReadDigit
  <2>7. torn' = torn \/ torn' = TRUE
    BY <1>5, Zenon DEF ReadDigit
  <2>2. Head(socket) \in Nat
    BY <1>5 DEF ReadDigit, Recv
  <2>3. Head(socket) % Radix \in Nat
    <3>1. \A c \in Nat : c % Radix \in Nat
      BY ONLY RadixAssumption
    <3>2. QED
      BY ONLY <2>2, <3>1
  <2>4. (Head(socket) % Radix) * multiplier \in Nat /\ multiplier * Radix \in Nat
    BY <2>3, RadixAssumption
  <2>5. rem_len' \in Nat /\ multiplier' \in Nat
    BY <1>5, <2>4 DEF ReadDigit, Digit
  <2>6. QED
    BY <2>1, <2>5, <2>7
<1>6. CASE EmptyBody
  BY <1>6 DEF EmptyBody, peerVars, lengthVars
<1>7. CASE LengthFails
  BY <1>7 DEF LengthFails, RecvNothing, peerVars, lengthVars
<1>8. CASE LengthAgain
  BY <1>8 DEF LengthAgain, RecvNothing, peerVars, lengthVars
<1>9. CASE BodyFails
  BY <1>9 DEF BodyFails, RecvNothing, peerVars, lengthVars
<1>10. ASSUME NEW n \in 1..rem_len, ReadBody(n) PROVE StreamTyped'
  <2>1. sent' = sent /\ flight' = flight /\ socket' \in Seq(Nat)
    BY <1>1, <1>10 DEF ReadBody
  <2>2. /\ torn' = torn \/ torn' = TRUE
        /\ rem_len' = rem_len \/ (n < rem_len /\ rem_len' = rem_len - n)
        /\ multiplier' = multiplier
    BY <1>10, Zenon DEF ReadBody
  <2>3. rem_len' \in Nat
    BY ONLY <2>2, n \in 1..rem_len, rem_len \in Nat
  <2>4. QED
    BY <2>1, <2>2, <2>3
<1>11. CASE Sending
  BY <1>11 DEF Sending, StartSend, Write, SendEnds, peerVars, readerVars, lengthVars
<1>12. CASE NothingRead \/ UNCHANGED vars
  BY <1>12 DEF NothingRead, vars, peerVars, readerVars, lengthVars
<1>13. QED
  BY <1>2, <1>3, <1>4, <1>5, <1>6, <1>7, <1>8, <1>9, <1>10, <1>11, <1>12
     DEF Next, Progress, Network

(* What a step leaves alone it does not put out of step.                     *)
LEMMA StaysInStep ==
  ASSUME InStep, socket' \o flight' = socket \o flight,
         UNCHANGED <<sent, received, at, packet, rem_len, multiplier>>
  PROVE  InStep'
<1>1. PICK rest : Remainders(rest) /\ Follows(rest)
  BY DEF InStep
<1>2. Remainders(rest)'
  BY <1>1 DEF Remainders, Bytes
<1>3. Follows(rest)'
  BY <1>1, Zenon DEF Follows, AtHeader, AtLength, AtBody, InHand
<1>4. QED
  BY <1>2, <1>3 DEF InStep

LEMMA Extended ==
  ASSUME NEW n \in Nat, NEW f \in [0..n -> Seq(Nat)], NEW b \in Seq(Nat)
  PROVE  \E g \in [0..(n + 1) -> Seq(Nat)] :
           g[n + 1] = <<>> /\ \A k \in 0..n : g[k] = f[k] \o b
<1> DEFINE g == [k \in 0..(n + 1) |-> IF k = n + 1 THEN <<>> ELSE f[k] \o b]
<1>1. ASSUME NEW k \in 0..n PROVE k # n + 1 /\ k \in 0..(n + 1) /\ f[k] \o b \in Seq(Nat)
  <2>1. f[k] \in Seq(Nat)
    OBVIOUS
  <2>2. QED
    BY <2>1
<1>2. g[n + 1] = <<>>
  OBVIOUS
<1>3. \A k \in 0..n : g[k] = f[k] \o b
  BY <1>1
<1>4. g \in [0..(n + 1) -> Seq(Nat)]
  <2>1. <<>> \in Seq(Nat)
    OBVIOUS
  <2>2. ASSUME NEW k \in 0..(n + 1) PROVE (IF k = n + 1 THEN <<>> ELSE f[k] \o b) \in Seq(Nat)
    <3>1. CASE k = n + 1
      BY <2>1, <3>1
    <3>2. CASE k # n + 1
      <4>1. k \in 0..n
        BY <3>2
      <4>2. QED
        BY <1>1, <3>2, <4>1
    <3>3. QED
      BY <3>1, <3>2
  <2>3. QED
    BY <2>2
<1>5. QED
  BY <1>2, <1>3, <1>4

LEMMA SendKeepsInStep ==
  ASSUME NEW p \in Packets, StreamTyped, InStep, PeerSends(p)
  PROVE  InStep'
<1> USE DEF StreamTyped
<1>1. PICK rest : Remainders(rest) /\ Follows(rest)
  BY DEF InStep
<1>2. /\ Len(sent) \in Nat /\ Len(received) \in Nat /\ Len(received) <= Len(sent)
      /\ Bytes(p) \in Seq(Nat) /\ received \in Seq(Packets)
      /\ received' = received /\ socket' = socket /\ flight' = flight \o Bytes(p)
      /\ UNCHANGED <<at, packet, rem_len, multiplier>>
  BY PacketBytes DEF InStep, PeerSends, readerVars, lengthVars
<1>3. /\ sent' \in Seq(Packets) /\ Len(sent') = Len(sent) + 1 /\ sent'[Len(sent) + 1] = p
      /\ \A k \in 1..Len(sent) : sent'[k] = sent[k]
  BY DEF PeerSends
<1>4. socket' \o flight' = (socket \o flight) \o Bytes(p)
  BY <1>2, Assoc
<1>5. \A k \in 0..Len(sent) : rest[k] \in Seq(Nat)
  BY <1>1 DEF Remainders
<1>6. PICK r \in [0..(Len(sent) + 1) -> Seq(Nat)] :
        r[Len(sent) + 1] = <<>> /\ \A k \in 0..Len(sent) : r[k] = rest[k] \o Bytes(p)
  <2>1. rest \in [0..Len(sent) -> Seq(Nat)]
    BY <1>1 DEF Remainders
  <2>2. QED
    BY <1>2, <2>1, Extended
<1>8. ASSUME NEW k \in 0..Len(sent) PROVE r[k] = Bytes(sent'[k + 1]) \o r[k + 1]
  <2>1. CASE k = Len(sent)
    <3>1. rest[k] = <<>> /\ r[k + 1] = <<>> /\ sent'[k + 1] = p
      BY <1>1, <1>3, <1>6, <2>1 DEF Remainders
    <3>2. <<>> \o Bytes(p) = Bytes(p) /\ Bytes(p) \o <<>> = Bytes(p)
      BY <1>2
    <3>3. QED
      BY <1>6, <3>1, <3>2
  <2>2. CASE k # Len(sent)
    <3>1. k \in 0..(Len(sent) - 1) /\ k + 1 \in 1..Len(sent) /\ k + 1 \in 0..Len(sent)
      BY <1>2, <2>2
    <3>2. rest[k] = Bytes(sent[k + 1]) \o rest[k + 1] /\ sent'[k + 1] = sent[k + 1]
      BY <1>1, <1>3, <3>1 DEF Remainders
    <3>3. Bytes(sent[k + 1]) \in Seq(Nat) /\ rest[k + 1] \in Seq(Nat)
      <4>1. sent[k + 1] \in Packets
        BY <3>1
      <4>2. QED
        BY <1>5, <3>1, <4>1, PacketBytes
    <3>4. (Bytes(sent[k + 1]) \o rest[k + 1]) \o Bytes(p)
            = Bytes(sent[k + 1]) \o (rest[k + 1] \o Bytes(p))
      BY ONLY <1>2, <3>3, Assoc
    <3>5. r[k] = rest[k] \o Bytes(p) /\ r[k + 1] = rest[k + 1] \o Bytes(p)
      BY <1>6, <3>1
    <3>6. QED
      BY ONLY <3>2, <3>4, <3>5
  <2>3. QED
    BY <2>1, <2>2
<1>9. Remainders(r)'
  <2>1. r \in [0..Len(sent') -> Seq(Nat)] /\ r[Len(sent')] = <<>>
    BY <1>2, <1>3, <1>6
  <2>2. \A k \in 0..(Len(sent') - 1) : r[k] = Bytes(sent'[k + 1]) \o r[k + 1]
    <3>1. 0..(Len(sent') - 1) = 0..Len(sent)
      BY <1>2, <1>3
    <3>2. \A k \in 0..Len(sent) : r[k] = Bytes(sent'[k + 1]) \o r[k + 1]
      BY <1>8
    <3>3. QED
      BY ONLY <3>1, <3>2
  <2>3. QED
    BY <2>1, <2>2, Zenon DEF Remainders, Bytes
<1>10. CASE AtHeader(rest)
  <2>1. Len(received) \in 0..Len(sent)
    BY <1>2
  <2>2. AtHeader(r)'
    BY <1>2, <1>4, <1>6, <1>10, <2>1 DEF AtHeader
  <2>3. QED
    BY <1>2, <1>3, <1>9, <2>2 DEF InStep, Follows
<1>11. ASSUME Len(received) < Len(sent)
       PROVE  /\ Len(received) + 1 \in 0..Len(sent) /\ InHand \in Packets /\ InHand' = InHand
              /\ Len(received') < Len(sent')
  BY <1>2, <1>3, <1>11 DEF InHand
<1>12. ASSUME NEW x \in Seq(Nat), Len(received) < Len(sent),
              socket \o flight = x \o rest[Len(received) + 1]
       PROVE  socket' \o flight' = x \o r[Len(received') + 1]
  <2>1. rest[Len(received) + 1] \in Seq(Nat)
    BY <1>5, <1>11, <1>12
  <2>2. (x \o rest[Len(received) + 1]) \o Bytes(p) = x \o (rest[Len(received) + 1] \o Bytes(p))
    BY <1>2, <2>1, Assoc
  <2>3. QED
    BY <1>2, <1>4, <1>6, <1>11, <1>12, <2>2
<1>13. ASSUME NEW q, AtLength(rest, q) PROVE InStep'
  <2>1. /\ Len(received) < Len(sent) /\ q \in Nat
        /\ InHand.body \in Seq(Nat) /\ rest[Len(received) + 1] \in Seq(Nat)
        /\ MQTTPacket_encode[q] \in Seq(Nat)
    BY <1>5, <1>11, <1>13, PacketBytes, Encode DEF AtLength
  <2> DEFINE x == MQTTPacket_encode[q] \o InHand.body
  <2>2. x \in Seq(Nat) /\ socket \o flight = x \o rest[Len(received) + 1]
    <3>1. socket \o flight
            = MQTTPacket_encode[q] \o (InHand.body \o rest[Len(received) + 1])
      BY <1>13 DEF AtLength
    <3>2. x \in Seq(Nat)
      BY <2>1
    <3>3. QED
      BY ONLY <2>1, <3>1, <3>2, Assoc
  <2>3. socket' \o flight' = x \o r[Len(received') + 1]
    BY <1>12, <2>1, <2>2
  <2>4. r[Len(received') + 1] \in Seq(Nat)
    BY <1>2, <1>6, <1>11, <2>1
  <2>5. socket' \o flight' = MQTTPacket_encode[q] \o (InHand.body \o r[Len(received') + 1])
    BY <2>1, <2>3, <2>4, Assoc
  <2>6. AtLength(r, q)'
    BY <1>2, <1>11, <1>13, <2>1, <2>5 DEF AtLength
  <2>7. QED
    BY <1>2, <1>3, <1>9, <2>6 DEF InStep, Follows
<1>14. ASSUME NEW a, NEW b, AtBody(rest, a, b) PROVE InStep'
  <2>1. /\ Len(received) < Len(sent) /\ b \in Seq(Nat)
        /\ socket \o flight = b \o rest[Len(received) + 1]
    BY <1>14 DEF AtBody
  <2>2. socket' \o flight' = b \o r[Len(received') + 1]
    BY <1>12, <2>1
  <2>3. AtBody(r, a, b)'
    BY <1>2, <1>11, <1>14, <2>1, <2>2 DEF AtBody
  <2>4. QED
    BY <1>2, <1>3, <1>9, <2>3 DEF InStep, Follows
<1>15. QED
  BY <1>1, <1>10, <1>13, <1>14 DEF Follows

(* The bytes of the packet in hand are next.                                 *)
LEMMA NextPacket ==
  ASSUME StreamTyped, InStep, NEW rest, Remainders(rest), Len(received) < Len(sent)
  PROVE  /\ InHand \in Packets /\ Len(received) \in Nat /\ Len(sent) \in Nat
         /\ rest[Len(received) + 1] \in Seq(Nat)
         /\ <<InHand.header>> \in Seq(Nat)
         /\ MQTTPacket_encode[Len(InHand.body)] \in Seq(Nat) /\ InHand.body \in Seq(Nat)
         /\ rest[Len(received)] = <<InHand.header>> \o
              (MQTTPacket_encode[Len(InHand.body)] \o (InHand.body \o rest[Len(received) + 1]))
<1>1. /\ Len(received) \in Nat /\ Len(sent) \in Nat /\ Len(received) + 1 \in 1..Len(sent)
      /\ Len(received) \in 0..(Len(sent) - 1) /\ Len(received) + 1 \in 0..Len(sent)
  BY DEF StreamTyped, InStep
<1>2. InHand \in Packets
  BY <1>1 DEF StreamTyped, InHand
<1>3. InHand.header \in Nat /\ InHand.body \in Seq(Nat)
      /\ MQTTPacket_encode[Len(InHand.body)] \in Seq(Nat)
  BY <1>2, PacketBytes
<1>4. <<InHand.header>> \in Seq(Nat)
  BY <1>3
<1>5. rest[Len(received) + 1] \in Seq(Nat)
  BY <1>1 DEF Remainders
<1>6. rest[Len(received)] = Bytes(InHand) \o rest[Len(received) + 1]
  BY <1>1 DEF Remainders, InHand
<1> DEFINE h == <<InHand.header>>
           e == MQTTPacket_encode[Len(InHand.body)]
           b == InHand.body
           t == rest[Len(received) + 1]
<1>7. rest[Len(received)] = ((h \o e) \o b) \o t
  BY <1>6 DEF Bytes
<1>8. h \in Seq(Nat) /\ e \in Seq(Nat) /\ b \in Seq(Nat) /\ t \in Seq(Nat)
  BY <1>3, <1>4, <1>5
<1> HIDE DEF h, e, b, t
<1>9. ((h \o e) \o b) \o t = h \o (e \o (b \o t))
  <2>1. PICK u, v : u = h \o e /\ v = b \o t
    OBVIOUS
  <2>2. u \in Seq(Nat) /\ v \in Seq(Nat)
    BY ONLY <1>8, <2>1
  <2>3. (u \o b) \o t = u \o (b \o t)
    <3>1. u \in Seq(Nat) /\ b \in Seq(Nat) /\ t \in Seq(Nat)
      BY ONLY <1>8, <2>2
    <3>2. \A k, l, m \in Seq(Nat) : (k \o l) \o m = k \o (l \o m)
      BY ONLY Assoc
    <3>3. QED
      BY ONLY <3>1, <3>2
  <2>4. (h \o e) \o v = h \o (e \o v)
    <3>1. \A k, l, m \in Seq(Nat) : (k \o l) \o m = k \o (l \o m)
      BY ONLY Assoc
    <3>2. h \in Seq(Nat) /\ e \in Seq(Nat) /\ v \in Seq(Nat)
      BY ONLY <1>8, <2>2
    <3>3. QED
      BY ONLY <3>1, <3>2
  <2>5. QED
    BY ONLY <2>1, <2>3, <2>4
<1>10. QED
  BY <1>1, <1>2, <1>3, <1>4, <1>5, <1>7, <1>9 DEF h, e, b, t

\* One byte from the front of the stream.
LEMMA TakenByte ==
  ASSUME StreamTyped, Recv(1), NEW c \in Nat, NEW y \in Seq(Nat),
         socket \o flight = <<c>> \o y
  PROVE  Head(socket) = c /\ socket' \o flight' = y
<1>1. socket \in Seq(Nat) /\ flight \in Seq(Nat) /\ <<c>> \in Seq(Nat) /\ Len(<<c>>) = 1
  BY DEF StreamTyped
<1>2. 1 <= Len(socket) /\ socket' = SubSeq(socket, 1 + 1, Len(socket)) /\ flight' = flight
  BY DEF Recv, peerVars
<1>3. SubSeq(socket, 1, 1) = <<c>> /\ SubSeq(socket, 1 + 1, Len(socket)) \o flight = y
  <2>1. PICK x : x = <<c>>
    OBVIOUS
  <2>2. x \in Seq(Nat) /\ Len(x) = 1 /\ socket \o flight = x \o y /\ Len(x) <= Len(socket)
    BY <1>1, <1>2, <2>1
  <2>3. SubSeq(socket, 1, Len(x)) = x /\ SubSeq(socket, Len(x) + 1, Len(socket)) \o flight = y
    <3>1. \A s, f, a, b \in Seq(Nat) :
            s \o f = a \o b /\ Len(a) <= Len(s) =>
              /\ SubSeq(s, 1, Len(a)) = a
              /\ SubSeq(s, Len(a) + 1, Len(s)) \o f = b
      BY ONLY Taken
    <3>2. QED
      BY ONLY <1>1, <2>2, y \in Seq(Nat), <3>1
  <2>4. QED
    BY ONLY <2>1, <2>2, <2>3
<1>4. SubSeq(socket, 1, 1)[1] = socket[1] /\ Head(socket) = socket[1]
  BY <1>1, <1>2
<1>5. QED
  BY <1>2, <1>3, <1>4

LEMMA HeaderKeepsInStep ==
  ASSUME StreamTyped, InStep, ReadHeader
  PROVE  InStep'
<1>1. PICK rest : Remainders(rest) /\ AtHeader(rest)
  BY DEF InStep, Follows, AtLength, AtBody, ReadHeader
<1>2. Recv(1) /\ 1 <= Len(socket) /\ at' = "length" /\ rem_len' = 0 /\ multiplier' = 1
      /\ UNCHANGED <<sent, received>> /\ packet' = [header |-> Head(socket), body |-> <<>>]
  BY DEF ReadHeader, Recv, peerVars
<1>3. Len(received) < Len(sent)
  <2>1. SUFFICES ASSUME Len(received) = Len(sent) PROVE FALSE
    BY DEF InStep, StreamTyped
  <2>2. socket \o flight = <<>>
    BY <1>1, <2>1 DEF AtHeader, Remainders
  <2>3. Len(socket \o flight) = Len(socket) + Len(flight) /\ Len(flight) \in Nat /\ Len(socket) \in Nat
    BY DEF StreamTyped
  <2>4. QED
    BY <1>2, <2>2, <2>3
<1> DEFINE n == Len(InHand.body)
           y == MQTTPacket_encode[n] \o (InHand.body \o rest[Len(received) + 1])
<1>4. /\ InHand \in Packets /\ InHand.header \in Nat /\ n \in Nat /\ y \in Seq(Nat)
      /\ socket \o flight = <<InHand.header>> \o y
  <2>1. InHand \in Packets
    BY <1>1, <1>3, NextPacket
  <2>2. InHand.header \in Nat /\ n \in Nat
    BY <2>1, PacketBytes
  <2>3. /\ rest[Len(received) + 1] \in Seq(Nat) /\ MQTTPacket_encode[n] \in Seq(Nat)
        /\ InHand.body \in Seq(Nat) /\ rest[Len(received)] = <<InHand.header>> \o y
    BY <1>1, <1>3, NextPacket
  <2>4. InHand.body \o rest[Len(received) + 1] \in Seq(Nat)
    BY ONLY <2>3
  <2>5. y \in Seq(Nat)
    BY ONLY <2>3, <2>4
  <2>6. QED
    BY <1>1, <2>1, <2>2, <2>3, <2>5 DEF AtHeader
<1>5. Head(socket) = InHand.header /\ socket' \o flight' = y
  <2> HIDE DEF y
  <2> QED
    BY <1>2, <1>4, TakenByte
<1>6. InHand' = InHand
  BY <1>2 DEF InHand
<1>7. rem_len' + n * multiplier' = n
  BY <1>2, <1>4
<1>8. Remainders(rest)'
  BY <1>1, <1>2 DEF Remainders, Bytes
<1>9. AtLength(rest, n)'
  <2> DEFINE m == n
  <2>1. PICK q : q = n
    OBVIOUS
  <2>2. AtLength(rest, q)'
    BY <1>2, <1>3, <1>4, <1>5, <1>6, <1>7, <2>1 DEF AtLength
  <2>3. n' = n
    BY <1>6
  <2>4. QED
    BY <2>1, <2>2, <2>3
<1>10. QED
  BY <1>2, <1>8, <1>9 DEF InStep, Follows

LEMMA DigitKeepsInStep ==
  ASSUME StreamTyped, InStep, ReadDigit, torn' # TRUE
  PROVE  InStep'
<1>1. PICK rest : Remainders(rest) /\ \E q : AtLength(rest, q)
  BY DEF InStep, Follows, AtHeader, AtBody, ReadDigit
<1>2. PICK q \in Nat : AtLength(rest, q)
  BY <1>1 DEF AtLength
<1>3. Len(received) < Len(sent)
  BY <1>2 DEF AtLength
<1> DEFINE t == InHand.body \o rest[Len(received) + 1]
           k == Len(InHand.body)
<1>4. InHand.body \in Seq(Nat) /\ rest[Len(received) + 1] \in Seq(Nat)
  BY <1>1, <1>3, NextPacket
<1>5. t \in Seq(Nat) /\ socket \o flight = MQTTPacket_encode[q] \o t /\ k \in Nat
      /\ rem_len + q * multiplier = k
  <2>1. t \in Seq(Nat) /\ k \in Nat
    BY ONLY <1>4
  <2>2. QED
    BY <1>2, <2>1 DEF AtLength
<1>6. /\ Recv(1) /\ UNCHANGED <<sent, received, packet>>
      /\ rem_len' = rem_len + (Head(socket) % Radix) * multiplier
      /\ multiplier' = multiplier * Radix
      /\ \/ Head(socket) >= Radix /\ at' = "length"
         \/ Head(socket) < Radix /\ at' = "body"
  <2>1. \/ Head(socket) >= Radix /\ at' = "length"
        \/ Head(socket) < Radix /\ at' = "body"
    BY DEF ReadDigit
  <2>2. QED
    BY <2>1 DEF ReadDigit, Recv, Digit, peerVars
<1>7. InHand' = InHand /\ Remainders(rest)'
  BY <1>1, <1>6 DEF InHand, Remainders, Bytes
<1>8. rem_len \in Nat /\ multiplier \in Nat
  BY DEF StreamTyped
<1>9. packet' = [header |-> InHand.header, body |-> <<>>]
  BY <1>2, <1>6 DEF AtLength
<1> HIDE DEF t, k
<1>10. CASE q < Radix
  <2>1. MQTTPacket_encode[q] = <<q>> /\ q % Radix = q
    <3>1. ~(q >= Radix)
      BY <1>10, RadixAssumption
    <3>2. QED
      BY <1>8, <3>1, NextDigit
  <2>2. Head(socket) = q /\ socket' \o flight' = t
    BY <1>5, <1>6, <2>1, TakenByte
  <2>3. rem_len' = k /\ at' = "body"
    <3>1. rem_len' = k
      BY <1>5, <1>6, <2>1, <2>2
    <3>2. ~(q >= Radix)
      BY <1>10, RadixAssumption
    <3>3. QED
      BY <1>6, <2>2, <3>1, <3>2
  <2>4. PICK a, b : a = <<>> /\ b = InHand.body
    OBVIOUS
  <2>5. a \in Seq(Nat) /\ b \in Seq(Nat) /\ a \o b = InHand.body
    BY ONLY <1>4, <2>4
  <2>6. AtBody(rest, a, b)'
    BY <1>3, <1>6, <1>7, <1>9, <2>2, <2>3, <2>4, <2>5 DEF AtBody, t, k
  <2>7. QED
    BY <1>6, <1>7, <2>6 DEF InStep, Follows
<1>11. CASE q >= Radix
  <2> DEFINE c == Radix + (q % Radix)
             e == q \div Radix
  <2>1. /\ e \in Nat /\ c \in Nat /\ c >= Radix /\ c % Radix = q % Radix
        /\ MQTTPacket_encode[q] = <<c>> \o MQTTPacket_encode[e]
        /\ (rem_len + (q % Radix) * multiplier) + e * (multiplier * Radix) = rem_len + q * multiplier
    <3>1. ~(q < Radix)
      BY <1>11, RadixAssumption
    <3>2. QED
      BY <1>8, <3>1, NextDigit
  <2> HIDE DEF c, e
  <2>2. MQTTPacket_encode[e] \in Seq(Nat) /\ <<c>> \in Seq(Nat)
    BY <2>1, Encode
  <2>3. /\ MQTTPacket_encode[e] \o t \in Seq(Nat)
        /\ socket \o flight = <<c>> \o (MQTTPacket_encode[e] \o t)
    <3>1. (<<c>> \o MQTTPacket_encode[e]) \o t = <<c>> \o (MQTTPacket_encode[e] \o t)
      BY ONLY <1>5, <2>2, Assoc
    <3>2. MQTTPacket_encode[e] \o t \in Seq(Nat)
      BY ONLY <1>5, <2>2
    <3>3. QED
      BY ONLY <1>5, <2>1, <3>1, <3>2
  <2>4. Head(socket) = c /\ socket' \o flight' = MQTTPacket_encode[e] \o t
    BY <1>6, <2>1, <2>3, TakenByte
  <2>5. at' = "length"
    <3>1. ~(c < Radix)
      BY <2>1, RadixAssumption
    <3>2. QED
      BY <1>6, <2>4, <3>1
  <2>6. rem_len' + e * multiplier' = k
    BY <1>5, <1>6, <2>1, <2>4
  <2>7. PICK d \in Nat : d = e
    BY <2>1
  <2>8. AtLength(rest, d)'
    BY <1>3, <1>6, <1>7, <1>9, <2>4, <2>5, <2>6, <2>7 DEF AtLength, t, k
  <2>9. QED
    BY <1>6, <1>7, <2>8 DEF InStep, Follows
<1>12. QED
  BY <1>10, <1>11, RadixAssumption

\* The packet in hand is returned and the stream goes on behind it.
LEMMA ReturnKeepsInStep ==
  ASSUME StreamTyped, InStep, NEW rest, Remainders(rest), Len(received) < Len(sent),
         Return(InHand), UNCHANGED sent,
         socket' \o flight' = rest[Len(received) + 1]
  PROVE  InStep' /\ received' = Append(received, sent[Len(received) + 1])
<1>1. /\ InHand \in Packets /\ received \in Seq(Packets)
      /\ Len(received) \in Nat /\ Len(sent) \in Nat
  BY NextPacket DEF InStep
<1>2. at' = "header" /\ received' = Append(received, InHand)
  BY DEF Return
<1>3. received' \in Seq(Packets) /\ Len(received') = Len(received) + 1
  BY <1>1, <1>2
<1>4. AtHeader(rest)'
  BY <1>2, <1>3 DEF AtHeader
<1>5. Remainders(rest)'
  BY DEF Remainders, Bytes
<1>6. Len(received') <= Len(sent')
  BY <1>1, <1>3
<1>7. QED
  BY <1>2, <1>3, <1>4, <1>5, <1>6 DEF InStep, Follows, InHand

LEMMA EmptyBodyKeepsInStep ==
  ASSUME StreamTyped, InStep, EmptyBody
  PROVE  /\ InStep' /\ Len(received) < Len(sent) /\ sent' = sent
         /\ received' = Append(received, sent[Len(received) + 1])
<1>1. PICK rest, a, b : Remainders(rest) /\ AtBody(rest, a, b)
  BY DEF InStep, Follows, AtHeader, AtLength, EmptyBody
<1>2. /\ at = "body" /\ Len(received) < Len(sent) /\ a \in Seq(Nat) /\ b \in Seq(Nat)
      /\ packet = [header |-> InHand.header, body |-> a] /\ a \o b = InHand.body
      /\ socket \o flight = b \o rest[Len(received) + 1] /\ rem_len = Len(b)
  BY <1>1 DEF AtBody
<1>3. rem_len = 0 /\ Return(packet) /\ UNCHANGED <<sent, flight, socket>>
  BY DEF EmptyBody, peerVars
<1>4. InHand \in Packets /\ rest[Len(received) + 1] \in Seq(Nat)
  BY <1>1, <1>2, NextPacket
<1>5. b = <<>>
  BY <1>2, <1>3, EmptySeq
<1>6. a = InHand.body
  BY <1>2, <1>5, ConcatEmptySeq
<1>7. packet = InHand
  BY <1>2, <1>4, <1>6, PacketBytes
<1>8. socket' \o flight' = rest[Len(received) + 1]
  BY <1>2, <1>3, <1>4, <1>5, ConcatEmptySeq
<1>9. QED
  BY <1>1, <1>2, <1>3, <1>7, <1>8, ReturnKeepsInStep

LEMMA Parts ==
  ASSUME NEW b \in Seq(Nat), NEW n \in Nat, n <= Len(b)
  PROVE  /\ SubSeq(b, 1, n) \in Seq(Nat) /\ Len(SubSeq(b, 1, n)) = n
         /\ SubSeq(b, n + 1, Len(b)) \in Seq(Nat)
         /\ Len(SubSeq(b, n + 1, Len(b))) = Len(b) - n
         /\ b = SubSeq(b, 1, n) \o SubSeq(b, n + 1, Len(b))
<1>1. Len(b) \in Nat
  OBVIOUS
<1>2. SubSeq(b, 1, n) \in Seq(Nat) /\ Len(SubSeq(b, 1, n)) = n
  BY <1>1
<1>3. SubSeq(b, n + 1, Len(b)) \in Seq(Nat) /\ Len(SubSeq(b, n + 1, Len(b))) = Len(b) - n
  BY <1>1
<1>4. 1 \in 1..(Len(b) + 1) /\ n \in (1 - 1)..Len(b) /\ Len(b) \in n..Len(b)
  BY <1>1
<1>5. SubSeq(b, 1, n) \o SubSeq(b, n + 1, Len(b)) = SubSeq(b, 1, Len(b))
  BY <1>4, ConcatAdjacentSubSeq
<1>6. QED
  BY <1>2, <1>3, <1>5, SubSeqFull

LEMMA BodyKeepsInStep ==
  ASSUME StreamTyped, InStep, NEW n \in 1..rem_len, ReadBody(n), torn' # TRUE
  PROVE  /\ InStep' /\ sent' = sent
         /\ \/ received' = received
            \/ /\ Len(received) < Len(sent)
               /\ received' = Append(received, sent[Len(received) + 1])
<1>1. PICK rest, a, b : Remainders(rest) /\ AtBody(rest, a, b)
  BY DEF InStep, Follows, AtHeader, AtLength, ReadBody
<1>2. /\ at = "body" /\ Len(received) < Len(sent) /\ a \in Seq(Nat) /\ b \in Seq(Nat)
      /\ packet = [header |-> InHand.header, body |-> a] /\ a \o b = InHand.body
      /\ socket \o flight = b \o rest[Len(received) + 1] /\ rem_len = Len(b)
  BY <1>1 DEF AtBody
<1>3. /\ n <= Len(socket) /\ UNCHANGED <<sent, flight, multiplier>>
      /\ socket' = SubSeq(socket, n + 1, Len(socket))
  BY DEF ReadBody, Recv, peerVars
<1>4. InHand \in Packets /\ rest[Len(received) + 1] \in Seq(Nat)
  BY <1>1, <1>2, NextPacket
<1>5. socket \in Seq(Nat) /\ flight \in Seq(Nat) /\ n \in Nat /\ n >= 1 /\ n <= Len(b)
      /\ Len(b) \in Nat
  BY <1>2 DEF StreamTyped
<1> DEFINE t == rest[Len(received) + 1]
<1>6. PICK x, z : x = SubSeq(b, 1, n) /\ z = SubSeq(b, n + 1, Len(b))
  OBVIOUS
<1>7. x \in Seq(Nat) /\ z \in Seq(Nat) /\ Len(x) = n /\ Len(z) = Len(b) - n
  BY <1>2, <1>5, <1>6, Parts
<1>8. b = x \o z
  BY <1>2, <1>5, <1>6, Parts
<1>9. t \in Seq(Nat) /\ socket \o flight = x \o (z \o t) /\ z \o t \in Seq(Nat)
  <2>1. t \in Seq(Nat) /\ socket \o flight = b \o t
    BY <1>2, <1>4
  <2> HIDE DEF t
  <2>2. (x \o z) \o t = x \o (z \o t)
    BY ONLY <1>7, <2>1, Assoc
  <2>3. z \o t \in Seq(Nat)
    BY ONLY <1>7, <2>1
  <2>4. QED
    BY ONLY <1>8, <2>1, <2>2, <2>3
<1>10. SubSeq(socket, 1, n) = x /\ socket' \o flight' = z \o t
  <2>1. PICK y : y = z \o t
    OBVIOUS
  <2>2. y \in Seq(Nat) /\ socket \o flight = x \o y /\ Len(x) <= Len(socket)
    BY ONLY <1>3, <1>7, <1>9, <2>1
  <2>3. SubSeq(socket, 1, Len(x)) = x /\ SubSeq(socket, Len(x) + 1, Len(socket)) \o flight = y
    <3>1. socket \in Seq(Nat) /\ flight \in Seq(Nat) /\ x \in Seq(Nat)
      BY <1>5, <1>7
    <3>2. QED
      BY ONLY <2>2, <3>1, Taken
  <2>4. QED
    BY ONLY <1>3, <1>7, <2>1, <2>3
<1> DEFINE p == [packet EXCEPT !.body = @ \o SubSeq(socket, 1, n)]
<1>11. p = [header |-> InHand.header, body |-> a \o x]
  <2>1. PICK w, v, h : w = SubSeq(socket, 1, n) /\ v = a \o w /\ h = InHand.header
    OBVIOUS
  <2>2. packet = [header |-> h, body |-> a] /\ packet.body = a
    BY <1>2, <2>1
  <2>3. [packet EXCEPT !.body = v] = [header |-> h, body |-> v]
    BY ONLY <2>2
  <2>4. w = x
    BY <1>10, <2>1
  <2>5. QED
    BY ONLY <2>1, <2>2, <2>3, <2>4
<1>12. \/ n = rem_len /\ Return(p)
       \/ /\ n < rem_len /\ packet' = p /\ rem_len' = rem_len - n
          /\ UNCHANGED <<at, received>>
  BY DEF ReadBody
<1> HIDE DEF t, p
<1>13. CASE n = rem_len /\ Return(p)
  <2>1. z = <<>>
    BY <1>2, <1>7, <1>13, EmptySeq
  <2>2. x = b
    BY <1>7, <1>8, <2>1, ConcatEmptySeq
  <2>3. p = InHand
    BY <1>2, <1>4, <1>11, <2>2, PacketBytes
  <2>4. socket' \o flight' = rest[Len(received) + 1]
    BY <1>9, <1>10, <2>1, ConcatEmptySeq DEF t
  <2>5. QED
    BY <1>1, <1>2, <1>3, <1>13, <2>3, <2>4, ReturnKeepsInStep
<1>14. CASE n < rem_len /\ packet' = p /\ rem_len' = rem_len - n /\ UNCHANGED <<at, received>>
  <2>1. PICK c : c = a \o x
    OBVIOUS
  <2>2. c \in Seq(Nat) /\ c \o z = InHand.body
    <3>1. (a \o x) \o z = a \o (x \o z)
      BY ONLY <1>2, <1>7, Assoc
    <3>2. a \o x \in Seq(Nat)
      BY ONLY <1>2, <1>7
    <3>3. QED
      BY <1>2, <1>8, <2>1, <3>1, <3>2
  <2>3. InHand' = InHand /\ Remainders(rest)'
    BY <1>1, <1>3, <1>14 DEF InHand, Remainders, Bytes
  <2>4. rem_len' = Len(z) /\ packet' = [header |-> InHand.header, body |-> c]
    BY <1>2, <1>7, <1>11, <1>14, <2>1
  <2>5. AtBody(rest, c, z)'
    BY <1>2, <1>3, <1>7, <1>10, <1>14, <2>2, <2>3, <2>4 DEF AtBody, t
  <2>6. received' \in Seq(Packets) /\ Len(received') <= Len(sent')
    BY <1>3, <1>14 DEF InStep
  <2>7. QED
    BY <1>3, <1>14, <2>3, <2>5, <2>6 DEF InStep, Follows
<1>15. QED
  BY <1>12, <1>13, <1>14

-----------------------------------------------------------------------------
(* A reader implements the pipe.                                             *)

LEMMA ReaderStep ==
  StreamInv /\ [Next]_vars => StreamInv' /\ [Pipe!Next]_(Pipe!vars)
<1> SUFFICES ASSUME StreamInv, [Next]_vars PROVE StreamInv' /\ [Pipe!Next]_(Pipe!vars)
  OBVIOUS
<1>1. StreamTyped /\ StreamTyped' /\ (torn = TRUE \/ torn = FALSE) /\ (torn' = TRUE \/ torn' = FALSE)
  BY TypedStep DEF StreamInv, StreamTyped
<1>2. ASSUME InStep', UNCHANGED <<sent, received, torn>> PROVE StreamInv' /\ [Pipe!Next]_(Pipe!vars)
  BY <1>1, <1>2 DEF StreamInv, Pipe!vars
<1>3. ASSUME torn' = TRUE, sent' = sent PROVE StreamInv' /\ [Pipe!Next]_(Pipe!vars)
  BY <1>1, <1>3 DEF StreamInv, Pipe!Next, Pipe!Tear
<1>4. ASSUME torn = FALSE, torn' = FALSE, InStep', sent' = sent, Len(received) < Len(sent),
             received' = Append(received, sent[Len(received) + 1])
      PROVE  StreamInv' /\ [Pipe!Next]_(Pipe!vars)
  BY <1>1, <1>4 DEF StreamInv, Pipe!Next, Pipe!Receive
<1>5. torn = FALSE => InStep
  BY DEF StreamInv
<1>6. ASSUME UNCHANGED <<sent, received, at, packet, rem_len, multiplier, torn>>,
             socket' \o flight' = socket \o flight
      PROVE  StreamInv' /\ [Pipe!Next]_(Pipe!vars)
  <2>1. CASE torn = TRUE
    BY <1>3, <1>6, <2>1
  <2>2. CASE torn = FALSE
    BY <1>2, <1>5, <1>6, <2>2, StaysInStep
  <2>3. QED
    BY <1>1, <2>1, <2>2
<1>7. ASSUME NEW p \in Packets, PeerSends(p) PROVE StreamInv' /\ [Pipe!Next]_(Pipe!vars)
  <2>1. Len(sent') = Len(sent) + 1 /\ SubSeq(sent', 1, Len(sent)) = sent
    BY <1>1, <1>7 DEF PeerSends, StreamTyped
  <2>2. UNCHANGED <<received, torn>>
    BY <1>7 DEF PeerSends, readerVars
  <2>3. [Pipe!Next]_(Pipe!vars)
    BY <2>1, <2>2 DEF Pipe!Next, Pipe!Send
  <2>4. torn' = FALSE => InStep'
    BY <1>1, <1>5, <1>7, <2>2, SendKeepsInStep
  <2>5. QED
    BY <1>1, <2>3, <2>4 DEF StreamInv
<1>8. ASSUME NEW n \in 1..Len(flight), Arrives(n) PROVE StreamInv' /\ [Pipe!Next]_(Pipe!vars)
  <2>1. socket' \o flight' = socket \o flight
    BY <1>1, <1>8, Moved DEF Arrives, StreamTyped
  <2>2. QED
    BY <1>6, <1>8, <2>1 DEF Arrives, readerVars, lengthVars
<1>9. CASE ReadHeader
  <2>1. sent' = sent /\ received' = received /\ torn' = torn
    BY <1>9 DEF ReadHeader, Recv, peerVars
  <2>2. QED
    BY <1>1, <1>2, <1>3, <1>5, <1>9, <2>1, HeaderKeepsInStep
<1>10. CASE ReadDigit
  <2>1. sent' = sent /\ received' = received /\ (torn' = torn \/ torn' = TRUE)
    BY <1>10 DEF ReadDigit, Recv, peerVars
  <2>2. QED
    BY <1>1, <1>2, <1>3, <1>5, <1>10, <2>1, DigitKeepsInStep
<1>11. CASE EmptyBody
  <2>1. sent' = sent /\ torn' = torn
    BY <1>11 DEF EmptyBody, peerVars
  <2>2. QED
    BY <1>1, <1>3, <1>4, <1>5, <1>11, <2>1, EmptyBodyKeepsInStep
<1>12. ASSUME NEW n \in 1..rem_len, ReadBody(n) PROVE StreamInv' /\ [Pipe!Next]_(Pipe!vars)
  <2>1. sent' = sent /\ (torn' = torn \/ torn' = TRUE)
    BY <1>12 DEF ReadBody, Recv, peerVars
  <2>2. QED
    BY <1>1, <1>2, <1>3, <1>4, <1>5, <1>12, <2>1, BodyKeepsInStep
<1>13. CASE LengthFails \/ BodyFails
  BY <1>3, <1>13 DEF LengthFails, BodyFails, RecvNothing, peerVars
<1>14. CASE LengthAgain
  <2>1. UNCHANGED <<sent, socket, flight, received, packet, rem_len, multiplier>>
    BY <1>14 DEF LengthAgain, RecvNothing, peerVars
  <2>2. UNCHANGED <<at, torn>> \/ torn' = TRUE
    BY <1>14 DEF LengthAgain
  <2>3. QED
    BY <1>3, <1>6, <2>1, <2>2
<1>15. CASE NothingRead \/ Sending \/ UNCHANGED vars
  <2>1. UNCHANGED <<sent, socket, flight, received, at, packet, rem_len, multiplier, torn>>
    BY <1>15 DEF NothingRead, Sending, StartSend, Write, SendEnds, vars, peerVars, readerVars,
                 lengthVars
  <2>2. QED
    BY <1>6, <2>1
<1>16. QED
  BY <1>7, <1>8, <1>9, <1>10, <1>11, <1>12, <1>13, <1>14, <1>15 DEF Next, Progress, Network

(* However TCP cuts the stream, each reader returns the packets the peer     *)
(* sent, whole and in their order, until a read gives up inside a packet     *)
(* (MQTTClient.c:81, MQTTPacket.c:290 and 361).                              *)
THEOREM ReadersImplementPipe == Spec => ReadsInStep
<1>1. Init => Pipe!Init
  BY DEF Init, Pipe!Init
<1>2. QED
  BY <1>1, StreamInit, ReaderStep, PTL DEF Spec, ReadsInStep, Pipe!Spec

-----------------------------------------------------------------------------
(* Sending.                                                                *)

Done == FlattenSeq([i \in 1..Len(whole) |-> Bytes(whole[i])])

OutTyped ==
  out \in [buf : Seq(Nat), length : Nat, sent : Nat, packet : Packets \cup {<<>>}, tries : Nat]

\* The packet in hand is at the front of the buffer.
PacketInBuffer ==
  out.length # 0 =>
    /\ out.packet \in Packets /\ out.length = Len(Bytes(out.packet))
    /\ out.length <= Len(out.buf)
    /\ \A i \in 1..out.length : out.buf[i] = Bytes(out.packet)[i]

OnTheWire == IF out.length = 0 THEN <<>> ELSE [i \in 1..out.sent |-> ByteAt(i)]

WriterInv ==
  /\ OutTyped /\ PacketInBuffer
  /\ whole \in Seq(Packets) /\ Done \in Seq(Nat) /\ failed \in BOOLEAN
  /\ ~failed => wire = Done \o OnTheWire

LEMMA WriterInit == Init => WriterInv
<1> SUFFICES ASSUME Init PROVE WriterInv
  OBVIOUS
<1>1. out = Idle /\ whole = <<>> /\ wire = <<>> /\ failed = FALSE
  BY DEF Init
<1>2. <<>> \in Seq(Nat) /\ <<>> \in Seq(Packets) /\ <<>> \o <<>> = <<>>
  OBVIOUS
<1>3. out.length = 0
  BY <1>1 DEF Idle
<1>4. OutTyped
  BY <1>1, <1>2 DEF OutTyped, Idle
<1>5. Done = <<>>
  <2>1. [i \in 1..Len(whole) |-> Bytes(whole[i])] = <<>>
    BY <1>1
  <2>2. QED
    BY <2>1, FlattenAppend DEF Done
<1>6. OnTheWire = <<>> /\ PacketInBuffer
  BY <1>3 DEF OnTheWire, PacketInBuffer
<1>7. QED
  BY <1>1, <1>2, <1>4, <1>5, <1>6 DEF WriterInv

LEMMA DoneAppend ==
  ASSUME whole \in Seq(Packets), Done \in Seq(Nat), NEW p \in Packets,
         whole' = Append(whole, p)
  PROVE  Done' = Done \o Bytes(p) /\ Done' \in Seq(Nat)
<1> DEFINE s == [i \in 1..Len(whole) |-> Bytes(whole[i])]
<1>1. Bytes(p) \in Seq(Nat)
  BY PacketBytes
<1>2. \A i \in 1..Len(whole) : Bytes(whole[i]) \in Seq(Nat)
  <2> TAKE i \in 1..Len(whole)
  <2>1. whole[i] \in Packets
    OBVIOUS
  <2>2. QED
    BY <2>1, PacketBytes
<1>3. s \in Seq(Seq(Nat)) /\ Len(s) = Len(whole) /\ \A i \in 1..Len(s) : s[i] = Bytes(whole[i])
  BY <1>2
<1>4. s' = Append(s, Bytes(p))
  <2> DEFINE t == [i \in 1..Len(whole') |-> Bytes(whole'[i])]
  <2>1. /\ Len(whole) \in Nat /\ Len(whole') = Len(whole) + 1 /\ whole'[Len(whole) + 1] = p
        /\ \A i \in 1..Len(whole) : whole'[i] = whole[i]
    OBVIOUS
  <2>2. t = [i \in 1..(Len(s) + 1) |-> IF i = Len(s) + 1 THEN Bytes(p) ELSE s[i]]
    <3>1. ASSUME NEW i \in 1..(Len(s) + 1)
          PROVE  Bytes(whole'[i]) = IF i = Len(s) + 1 THEN Bytes(p) ELSE s[i]
      <4>1. CASE i = Len(s) + 1
        BY <1>3, <2>1, <4>1
      <4>2. CASE i # Len(s) + 1
        <5>1. i \in 1..Len(whole) /\ i \in 1..Len(s)
          BY <1>3, <2>1, <4>2
        <5>2. whole'[i] = whole[i] /\ s[i] = Bytes(whole[i])
          BY <1>3, <2>1, <5>1
        <5>3. QED
          BY ONLY <4>2, <5>2
      <4>3. QED
        BY ONLY <4>1, <4>2
    <3>2. 1..Len(whole') = 1..(Len(s) + 1)
      BY <1>3, <2>1
    <3>3. QED
      BY ONLY <3>1, <3>2
  <2> HIDE DEF s, t
  <2>3. t = Append(s, Bytes(p))
    <3>1. Len(s) \in Nat
      BY <1>3, <2>1
    <3>2. Append(s, Bytes(p)) = [i \in 1..(Len(s) + 1) |-> IF i = Len(s) + 1 THEN Bytes(p) ELSE s[i]]
      <4> DEFINE T == Seq(Nat)
      <4>1. s \in Seq(T) /\ Bytes(p) \in T
        BY <1>1, <1>3
      <4> HIDE DEF T
      <4>2. PICK e, a : e = Bytes(p) /\ a = Append(s, e)
        OBVIOUS
      <4>3. /\ a \in Seq(T) /\ Len(a) = Len(s) + 1 /\ a[Len(s) + 1] = e
            /\ \A i \in 1..Len(s) : a[i] = s[i]
        BY ONLY <4>1, <4>2, AppendProperties
      <4>4. a = [i \in 1..(Len(s) + 1) |-> a[i]]
        BY ONLY <4>3, LenProperties
      <4>5. \A i \in 1..(Len(s) + 1) : a[i] = IF i = Len(s) + 1 THEN e ELSE s[i]
        <5> TAKE i \in 1..(Len(s) + 1)
        <5>1. CASE i = Len(s) + 1
          BY <4>3, <5>1
        <5>2. CASE i # Len(s) + 1
          <6>1. i \in 1..Len(s)
            BY ONLY <3>1, <5>2, i \in 1..(Len(s) + 1)
          <6>2. QED
            BY <4>3, <5>2, <6>1
        <5>3. QED
          BY <5>1, <5>2
      <4>6. QED
        BY ONLY <4>2, <4>4, <4>5
    <3>3. QED
      BY ONLY <2>2, <3>2
  <2>4. s' = t
    BY DEF s, t, Bytes
  <2>5. QED
    BY <2>3, <2>4
<1>5. Done = FlattenSeq(s) /\ Done' = FlattenSeq(s')
  BY DEF Done
<1> HIDE DEF s
<1>6. Done' = Done \o Bytes(p)
  <2>1. CASE s = <<>>
    <3>1. FlattenSeq(s) = <<>> /\ FlattenSeq(Append(<<>>, Bytes(p))) = Bytes(p)
      BY <1>1, <2>1, FlattenAppend
    <3>2. <<>> \o Bytes(p) = Bytes(p)
      BY <1>1
    <3>3. QED
      BY <1>4, <1>5, <2>1, <3>1, <3>2
  <2>2. CASE s # <<>>
    <3>1. FlattenSeq(Append(s, Bytes(p))) = FlattenSeq(s) \o Bytes(p)
      BY <1>1, <1>3, <2>2, FlattenAppend
    <3>2. QED
      BY <1>4, <1>5, <3>1
  <2>3. QED
    BY <2>1, <2>2
<1>7. Done \o Bytes(p) \in Seq(Nat)
  BY <1>1
<1>8. QED
  BY <1>6, <1>7

LEMMA StartKeepsWriter ==
  ASSUME WriterInv, NEW p \in Packets, StartSend(p)
  PROVE  WriterInv'
<1>1. /\ out.length = 0 /\ UNCHANGED <<wire, whole, failed>>
      /\ OutTyped /\ whole \in Seq(Packets) /\ Done \in Seq(Nat) /\ failed \in BOOLEAN
  BY DEF WriterInv, StartSend
<1> DEFINE b == Bytes(p)
           c == SubSeq(out.buf, Len(b) + 1, Len(out.buf))
<1>2. out' = [buf |-> b \o c, length |-> Len(b), sent |-> 0, packet |-> p, tries |-> out.tries + 1]
  BY DEF StartSend
<1>3. b \in Seq(Nat) /\ out.buf \in Seq(Nat) /\ out.tries \in Nat
  BY <1>1, PacketBytes DEF OutTyped
<1>4. c \in Seq(Nat)
  BY <1>3
<1> HIDE DEF b, c
<1>5. b \o c \in Seq(Nat) /\ Len(b) \in Nat /\ Len(b \o c) = Len(b) + Len(c) /\ Len(c) \in Nat
      /\ \A i \in 1..Len(b) : (b \o c)[i] = b[i]
  BY <1>3, <1>4
<1>6. OutTyped'
  BY <1>2, <1>3, <1>5 DEF OutTyped
<1>7. out'.buf = b \o c /\ out'.length = Len(b) /\ out'.sent = 0 /\ out'.packet = p
  BY <1>2
<1>8. PacketInBuffer'
  <2>1. Bytes(out'.packet) = b
    BY <1>7 DEF b
  <2>2. /\ out'.packet \in Packets /\ out'.length = Len(b) /\ out'.length <= Len(out'.buf)
        /\ \A i \in 1..out'.length : out'.buf[i] = b[i]
    BY <1>5, <1>7
  <2>3. QED
    BY <2>1, <2>2, Zenon DEF PacketInBuffer, Bytes
<1>9. OnTheWire' = OnTheWire
  <2>1. [i \in 1..out'.sent |-> ByteAt(i)'] = <<>>
    BY <1>7
  <2>2. OnTheWire = <<>>
    BY <1>1 DEF OnTheWire
  <2>3. QED
    BY <2>1, <2>2 DEF OnTheWire, ByteAt
<1>10. Done' = Done
  BY <1>1 DEF Done, Bytes
<1>11. QED
  BY <1>1, <1>6, <1>8, <1>9, <1>10 DEF WriterInv

LEMMA WriteKeepsWriter ==
  ASSUME WriterInv, NEW n \in 1..out.length, Write(n)
  PROVE  WriterInv'
<1>1. /\ UNCHANGED <<whole, failed>> /\ out.sent < out.length
      /\ OutTyped /\ PacketInBuffer
      /\ whole \in Seq(Packets) /\ Done \in Seq(Nat) /\ failed \in BOOLEAN
      /\ out' = [out EXCEPT !.sent = @ + n]
      /\ wire' = wire \o [i \in 1..n |-> ByteAt(out.sent + i)]
      /\ ~failed => wire = Done \o OnTheWire
  BY DEF WriterInv, Write
<1>2. out.sent \in Nat /\ out.length \in Nat /\ n \in Nat /\ out.buf \in Seq(Nat) /\ out.length # 0
  BY <1>1 DEF OutTyped
<1>3. /\ OutTyped' /\ out'.length = out.length /\ out'.buf = out.buf
      /\ out'.packet = out.packet /\ out'.sent = out.sent + n
  <2>1. out.sent + n \in Nat /\ out' = [out EXCEPT !.sent = out.sent + n]
    BY <1>1, <1>2
  <2>2. out \in [buf : Seq(Nat), length : Nat, sent : Nat, packet : Packets \cup {<<>>}, tries : Nat]
    BY <1>1 DEF OutTyped
  <2>3. PICK m : m = out.sent + n
    OBVIOUS
  <2>4. /\ out' \in [buf : Seq(Nat), length : Nat, sent : Nat, packet : Packets \cup {<<>>}, tries : Nat]
        /\ out'.length = out.length /\ out'.buf = out.buf
        /\ out'.packet = out.packet /\ out'.sent = m
    BY ONLY <2>1, <2>2, <2>3
  <2>5. QED
    BY <2>3, <2>4 DEF OutTyped
<1>4. PacketInBuffer'
  BY <1>1, <1>3 DEF PacketInBuffer, Bytes
<1>5. Done' = Done
  BY <1>1 DEF Done, Bytes
<1> DEFINE B == Nat \cup {Beyond}
           x == [i \in 1..out.sent |-> ByteAt(i)]
           y == [i \in 1..n |-> ByteAt(out.sent + i)]
           z == [i \in 1..(out.sent + n) |-> ByteAt(i)]
<1>6. \A i \in Nat : i >= 1 => ByteAt(i) \in B
  BY <1>2 DEF ByteAt
<1>7. x \in Seq(B) /\ y \in Seq(B) /\ z \in Seq(B) /\ Len(x) = out.sent /\ Len(y) = n
      /\ Len(z) = out.sent + n
  <2> HIDE DEF B
  <2>1. \A i \in 1..out.sent : ByteAt(i) \in B
    BY <1>2, <1>6
  <2>2. \A i \in 1..n : ByteAt(out.sent + i) \in B
    BY <1>2, <1>6
  <2>3. \A i \in 1..(out.sent + n) : ByteAt(i) \in B
    BY <1>2, <1>6
  <2>4. x \in Seq(B) /\ Len(x) = out.sent
    BY <1>2, <2>1
  <2>5. y \in Seq(B) /\ Len(y) = n
    BY <1>2, <2>2
  <2>6. out.sent + n \in Nat
    BY <1>2
  <2>7. z \in Seq(B) /\ Len(z) = out.sent + n
    BY <2>3, <2>6
  <2>8. QED
    BY <2>4, <2>5, <2>7
<1>8. \A i \in 1..(out.sent + n) :
        z[i] = IF i <= out.sent THEN x[i] ELSE y[i - out.sent]
  <2> TAKE i \in 1..(out.sent + n)
  <2>1. CASE i <= out.sent
    <3>1. i \in 1..out.sent
      BY <1>2, <2>1
    <3>2. QED
      BY <2>1, <3>1
  <2>2. CASE ~(i <= out.sent)
    <3>1. i - out.sent \in 1..n /\ out.sent + (i - out.sent) = i
      BY <1>2, <2>2
    <3>2. QED
      BY <2>2, <3>1
  <2>3. QED
    BY <2>1, <2>2
<1>9. OnTheWire = x /\ OnTheWire' = z
  <2>1. OnTheWire = x
    BY <1>2 DEF OnTheWire
  <2>2. OnTheWire' = z
    BY <1>2, <1>3 DEF OnTheWire, ByteAt
  <2>3. QED
    BY <2>1, <2>2
<1>10. Done \in Seq(B)
  <2>1. Nat \subseteq B
    OBVIOUS
  <2> HIDE DEF B
  <2>2. PICK d \in Seq(Nat) : d = Done
    BY <1>1
  <2>3. d \in Seq(B)
    BY ONLY <2>1, d \in Seq(Nat), SeqMonotonic
  <2>4. QED
    BY <2>2, <2>3
<1> HIDE DEF B, x, y, z
<1>11. x \o y = z
  <2>1. /\ x \o y \in Seq(B) /\ Len(x \o y) = Len(z)
        /\ \A i \in 1..Len(z) : (x \o y)[i] = IF i <= out.sent THEN x[i] ELSE y[i - out.sent]
    <3>1. x \in Seq(B) /\ y \in Seq(B)
      BY <1>7
    <3>2. /\ x \o y \in Seq(B) /\ Len(x \o y) = Len(x) + Len(y)
          /\ \A i \in 1..(Len(x) + Len(y)) :
               (x \o y)[i] = IF i <= Len(x) THEN x[i] ELSE y[i - Len(x)]
      BY ONLY <3>1, ConcatProperties
    <3>3. Len(x) = out.sent /\ Len(z) = Len(x) + Len(y)
      BY ONLY <1>7
    <3>4. QED
      BY ONLY <3>2, <3>3, Zenon
  <2>2. \A i \in 1..Len(z) : (x \o y)[i] = z[i]
    BY <1>7, <1>8, <2>1
  <2>3. QED
    BY ONLY <1>7, <2>1, <2>2, SeqEqual
<1>12. (Done \o x) \o y = Done \o (x \o y)
  <2>1. PICK d : d = Done
    OBVIOUS
  <2>2. (d \o x) \o y = d \o (x \o y)
    <3>1. \A k, l, m \in Seq(B) : (k \o l) \o m = k \o (l \o m)
      BY ONLY ConcatAssociative
    <3>2. d \in Seq(B) /\ x \in Seq(B) /\ y \in Seq(B)
      BY ONLY <1>7, <1>10, <2>1
    <3>3. QED
      BY ONLY <3>1, <3>2
  <2>3. QED
    BY ONLY <2>1, <2>2
<1>13. ~failed => wire' = Done' \o OnTheWire'
  BY <1>1, <1>5, <1>9, <1>11, <1>12 DEF y
<1>14. QED
  BY <1>1, <1>3, <1>4, <1>5, <1>13 DEF WriterInv

LEMMA EndKeepsWriter ==
  ASSUME WriterInv, SendEnds
  PROVE  WriterInv'
<1>1. /\ wire' = wire /\ out.length > 0
      /\ OutTyped /\ PacketInBuffer
      /\ whole \in Seq(Packets) /\ Done \in Seq(Nat) /\ failed \in BOOLEAN
      /\ out' = [out EXCEPT !.length = 0]
      /\ ~failed => wire = Done \o OnTheWire
  BY DEF WriterInv, SendEnds
<1>2. out.sent \in Nat /\ out.length \in Nat /\ out.buf \in Seq(Nat) /\ out.length # 0
  BY <1>1 DEF OutTyped
<1>3. OutTyped' /\ out'.length = 0
  BY <1>1, <1>2 DEF OutTyped
<1>4. PacketInBuffer' /\ OnTheWire' = <<>>
  BY <1>3 DEF PacketInBuffer, OnTheWire
<1>5. out.packet \in Packets /\ out.length = Len(Bytes(out.packet)) /\ out.length <= Len(out.buf)
      /\ \A i \in 1..out.length : out.buf[i] = Bytes(out.packet)[i]
  BY <1>1, <1>2 DEF PacketInBuffer
<1>6. OnTheWire = [i \in 1..out.sent |-> ByteAt(i)]
  BY <1>2 DEF OnTheWire
<1>7. CASE out.sent = out.length
  <2>1. whole' = Append(whole, out.packet) /\ failed' = failed
    BY <1>7 DEF SendEnds
  <2>2. Done' = Done \o Bytes(out.packet) /\ Done' \in Seq(Nat) /\ whole' \in Seq(Packets)
    <3>1. whole' \in Seq(Packets)
      BY <1>1, <1>5, <2>1
    <3>2. PICK p \in Packets : p = out.packet
      BY <1>5
    <3>3. whole \in Seq(Packets) /\ Done \in Seq(Nat) /\ whole' = Append(whole, p)
      BY <1>1, <2>1, <3>2
    <3>4. Done' = Done \o Bytes(p) /\ Done' \in Seq(Nat)
      BY ONLY <3>3, p \in Packets, DoneAppend
    <3>5. QED
      BY <3>1, <3>2, <3>4
  <2>3. OnTheWire = Bytes(out.packet)
    <3> DEFINE b == Bytes(out.packet)
    <3>1. b \in Seq(Nat) /\ Len(b) = out.length /\ out.length <= Len(out.buf) /\ Len(out.buf) \in Nat
          /\ \A i \in 1..out.length : out.buf[i] = b[i]
      BY <1>2, <1>5, PacketBytes
    <3> HIDE DEF b
    <3>2. \A i \in 1..out.length : ByteAt(i) = b[i]
      BY <1>2, <3>1 DEF ByteAt
    <3>3. b = [i \in 1..out.length |-> b[i]]
      BY <3>1
    <3>4. QED
      BY <1>6, <1>7, <3>2, <3>3 DEF b
  <2>4. ~failed => wire' = Done' \o OnTheWire'
    BY <1>1, <1>4, <2>2, <2>3, ConcatEmptySeq
  <2>5. QED
    BY <1>1, <1>3, <1>4, <2>1, <2>2, <2>4 DEF WriterInv
<1>8. CASE out.sent # out.length
  <2>1. whole' = whole /\ failed' = (failed \/ out.sent > 0)
    BY <1>8 DEF SendEnds
  <2>2. Done' = Done
    BY <2>1 DEF Done, Bytes
  <2>3. failed' \in BOOLEAN
    BY <2>1
  <2>4. ~failed' => wire' = Done' \o OnTheWire'
    <3>1. SUFFICES ASSUME ~failed' PROVE wire' = Done' \o OnTheWire'
      OBVIOUS
    <3>2. ~failed /\ out.sent = 0
      <4>1. ~failed /\ ~(out.sent > 0)
        BY ONLY <2>1, <3>1, Zenon
      <4>2. QED
        BY ONLY <1>2, <4>1
    <3>3. OnTheWire = <<>>
      BY <1>6, <3>2
    <3>4. QED
      BY <1>1, <1>4, <2>2, <3>2, <3>3
  <2>5. QED
    BY <1>1, <1>3, <1>4, <2>1, <2>2, <2>3, <2>4 DEF WriterInv
<1>9. QED
  BY <1>7, <1>8

LEMMA WriterStep == WriterInv /\ [Next]_vars => WriterInv'
<1> SUFFICES ASSUME WriterInv, [Next]_vars PROVE WriterInv'
  OBVIOUS
<1>1. ASSUME UNCHANGED writerVars PROVE WriterInv'
  BY <1>1, Zenon DEF WriterInv, writerVars, OutTyped, PacketInBuffer, Done, Bytes, OnTheWire, ByteAt
<1>2. CASE Sending
  BY <1>2, StartKeepsWriter, WriteKeepsWriter, EndKeepsWriter DEF Sending
<1>3. CASE ~Sending
  <2>1. ASSUME NEW p \in Packets, PeerSends(p) PROVE UNCHANGED writerVars
    BY <2>1 DEF PeerSends
  <2>2. ASSUME Network PROVE UNCHANGED writerVars
    BY <2>2 DEF Network, Arrives
  <2>3. ASSUME ReadHeader \/ ReadDigit \/ \E n \in 1..rem_len : ReadBody(n)
        PROVE  UNCHANGED writerVars
    BY <2>3 DEF ReadHeader, ReadDigit, ReadBody, Recv
  <2>4. ASSUME EmptyBody \/ LengthFails \/ LengthAgain \/ BodyFails
        PROVE  UNCHANGED writerVars
    BY <2>4 DEF EmptyBody, LengthFails, LengthAgain, BodyFails, RecvNothing
  <2>5. ASSUME NothingRead \/ UNCHANGED vars PROVE UNCHANGED writerVars
    BY <2>5 DEF NothingRead, vars
  <2>6. QED
    BY <1>1, <1>3, <2>1, <2>2, <2>3, <2>4, <2>5 DEF Next, Progress
<1>4. QED
  BY <1>2, <1>3

(* As long as no sendPacket failed halfway, what TCP accepted are the        *)
(* packets whose sendPacket succeeded and what the call in hand sent: bytes  *)
(* of its packet, at the front of the buffer whatever it held before, and    *)
(* then those behind it (MQTTClient.c:37).                                   *)
THEOREM WriterInStep == Spec => []SentInStep
<1>1. WriterInv => SentInStep
  <2> SUFFICES ASSUME WriterInv, ~failed
               PROVE  /\ out.length = 0 => wire = Done
                      /\ out.length > 0 =>
                           /\ wire = Done \o [i \in 1..out.sent |-> ByteAt(i)]
                           /\ out.length = Len(Bytes(out.packet))
                           /\ \A i \in 1..out.length : ByteAt(i) = Bytes(out.packet)[i]
    BY DEF SentInStep, Done
  <2>1. wire = Done \o OnTheWire /\ Done \in Seq(Nat) /\ OutTyped /\ PacketInBuffer
    BY DEF WriterInv
  <2>2. CASE out.length = 0
    <3>1. wire = Done \o <<>>
      BY <2>1, <2>2 DEF OnTheWire
    <3>2. QED
      BY <2>1, <2>2, <3>1, ConcatEmptySeq
  <2>3. CASE out.length > 0
    <3>1. out.length # 0 /\ out.length \in Nat /\ out.buf \in Seq(Nat)
      BY <2>1, <2>3 DEF OutTyped
    <3>2. wire = Done \o [i \in 1..out.sent |-> ByteAt(i)]
      BY <2>1, <3>1 DEF OnTheWire
    <3>3. /\ out.length = Len(Bytes(out.packet)) /\ out.length <= Len(out.buf)
          /\ \A i \in 1..out.length : out.buf[i] = Bytes(out.packet)[i]
      BY <2>1, <3>1 DEF PacketInBuffer
    <3>4. ASSUME NEW i \in 1..out.length PROVE ByteAt(i) = Bytes(out.packet)[i]
      BY <3>1, <3>3 DEF ByteAt
    <3>5. QED
      BY <3>1, <3>2, <3>3, <3>4
  <2>4. QED
    BY <2>1, <2>2, <2>3 DEF OutTyped
<1>2. QED
  BY <1>1, WriterInit, WriterStep, PTL DEF Spec
=============================================================================
