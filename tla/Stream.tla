------------------------------- MODULE Stream -------------------------------
(***************************************************************************)
(* Packets over the byte stream of a socket: sendPacket, readPacket and    *)
(* decodePacket of src/lib/Microgear/MQTTClient/MQTTClient.c with the      *)
(* reads and writes of MQTTESP8266.c, and the two readers MQTTPacket.c     *)
(* offers beside them, MQTTPacket_read and MQTTPacket_readnb.              *)
(*                                                                         *)
(* TCP delivers the peer's bytes in order and in pieces of any size.  A    *)
(* step is one call of recv or send, which takes any part of what there    *)
(* is.  select waits while nothing is there: a read gives up only at an    *)
(* empty socket buffer.  A byte is a number; a digit of the remaining      *)
(* length has Radix values (128) and, above them, the bit that announces   *)
(* another one.  Packets of the peer are taken to fit into the buffer of   *)
(* readPacket, which does not compare them with it.                        *)
(* The two directions of the connection share no state of the client, so a *)
(* behaviour looks at one of them: at a reader or at sendPacket.           *)
(***************************************************************************)
EXTENDS RemainingLength, SequencesExt

CONSTANTS
  Packets,   \* the packets of either side: [header, body]
  Function,  \* the functions that are looked at: readers, sendPacket
  BufLen,    \* the buffer length MQTTPacket_read and MQTTPacket_readnb are given
  Beyond,    \* a byte of the memory behind the send buffer
  MaxSent,   \* bound: packets the peer sends
  MaxWrite   \* bound: packets the client tries to send

ASSUME PacketsAssumption == Packets \subseteq [header : Nat, body : Seq(Nat)]

VARIABLES
  function,  \* which of the functions this behaviour looks at
  sent,      \* history: the packets the peer sent
  flight,    \* bytes on their way
  socket,    \* bytes in the socket's receive buffer
  at,        \* what the reader reads next: the "header", the "length", the "body"
  packet,    \* the header and the body read so far
  rem_len, multiplier, len,  \* the locals of the decoding of the length
  received,  \* history: the packets the reader returned
  torn,      \* history: has a read given up inside a packet?
  out,       \* the send buffer, and how much of it is to be and has been sent
  wire,      \* history: the bytes TCP accepted from the client
  whole,     \* history: the packets whose sendPacket succeeded
  failed     \* history: has a sendPacket failed after TCP accepted bytes of it?

peerVars   == <<sent, flight>>
lengthVars == <<rem_len, multiplier, len>>
readerVars == <<at, packet, lengthVars, received, torn>>
writerVars == <<out, wire, whole, failed>>
vars == <<function, peerVars, socket, readerVars, writerVars>>

Bytes(p) == <<p.header>> \o MQTTPacket_encode[Len(p.body)] \o p.body

Idle == [buf |-> <<>>, length |-> 0, sent |-> 0, packet |-> <<>>, tries |-> 0]

Init ==
  /\ function \in Function
  /\ sent = <<>> /\ flight = <<>> /\ socket = <<>>
  /\ at = "header" /\ packet = [header |-> 0, body |-> <<>>]
  /\ rem_len = 0 /\ multiplier = 1 /\ len = 0
  /\ received = <<>> /\ torn = FALSE
  /\ out = Idle /\ wire = <<>> /\ whole = <<>> /\ failed = FALSE

-----------------------------------------------------------------------------
(* The peer and the network.                                               *)

PeerSends(p) ==
  /\ function # "sendPacket" /\ Len(sent) < MaxSent
  /\ sent' = Append(sent, p) /\ flight' = flight \o Bytes(p)
  /\ UNCHANGED <<function, socket, readerVars, writerVars>>

Arrives(n) ==
  /\ n <= Len(flight)
  /\ socket' = socket \o SubSeq(flight, 1, n)
  /\ flight' = SubSeq(flight, n + 1, Len(flight))
  /\ UNCHANGED <<function, sent, readerVars, writerVars>>

-----------------------------------------------------------------------------
(* Reading.  mqtt_esp_read is select and then one recv of at most n bytes. *)

Recv(n) ==
  /\ n <= Len(socket)
  /\ socket' = SubSeq(socket, n + 1, Len(socket))
  /\ UNCHANGED <<function, peerVars, writerVars>>
RecvNothing == socket = <<>> /\ UNCHANGED <<function, peerVars, socket, writerVars>>

Blocking == function \in {"readPacket", "MQTTPacket_read"}

ReadHeader ==
  /\ at = "header" /\ Recv(1)
  /\ packet' = [header |-> Head(socket), body |-> <<>>]
  /\ at' = "length" /\ rem_len' = 0 /\ multiplier' = 1 /\ len' = 0
  /\ UNCHANGED <<received, torn>>

\* No byte before the timeout: nothing is lost.  (After an error of recv nothing more is
\* read on the socket; it is left out.)  MQTTPacket_readnb also waits for the body like
\* this, and takes the 0 that a read of no bytes returns for
\* "call again" too: it never returns a packet without a body.
NothingRead ==
  /\ \/ at = "header" /\ socket = <<>>
     \/ ~Blocking /\ at = "body" /\ (rem_len = 0 \/ socket = <<>>)
  /\ UNCHANGED vars

\* A mutation: the weight of a digit is not raised.
FlatDigit(c) ==
  /\ rem_len' = rem_len + (c % Radix) * multiplier
  /\ multiplier' = multiplier

Digit(c) ==
  /\ rem_len' = rem_len + (c % Radix) * multiplier
  /\ multiplier' = multiplier * Radix

\* Where a reader goes when the length is there: only the readers of MQTTPacket.c
\* compare it with the buffer.
Fits(n) == function = "readPacket" \/ 1 + Len(MQTTPacket_encode[n]) + n <= BufLen

ReadDigit ==
  /\ at = "length" /\ len < MaxDigits /\ Recv(1)
  /\ Digit(Head(socket)) /\ len' = len + 1
  /\ \/ Head(socket) >= Radix /\ at' = "length" /\ torn' = torn
     \/ Head(socket) < Radix /\ Fits(rem_len') /\ at' = "body" /\ torn' = torn
     \/ Head(socket) < Radix /\ ~Fits(rem_len') /\ at' = "header" /\ torn' = TRUE
  /\ UNCHANGED <<packet, received>>

\* decodePacket and MQTTPacket_decode give up, at the fifth digit or without a byte;
\* their callers go on with what the digits so far amount to.
LengthFails ==
  /\ Blocking /\ at = "length"
  /\ \/ len = MaxDigits /\ UNCHANGED <<function, peerVars, socket, writerVars>>
     \/ len < MaxDigits /\ RecvNothing
  /\ at' = IF Fits(rem_len) THEN "body" ELSE "header"
  /\ torn' = TRUE
  /\ UNCHANGED <<packet, lengthVars, received>>

\* MQTTPacket_decodenb counts every call, also one that has to be called again.
LengthAgain ==
  /\ ~Blocking /\ at = "length"
  /\ \/ /\ len < MaxDigits /\ RecvNothing
        /\ len' = len + 1 /\ UNCHANGED <<at, torn>>
     \/ /\ len = MaxDigits /\ UNCHANGED <<function, peerVars, socket, writerVars>>
        /\ len' = len /\ at' = "header" /\ torn' = TRUE
  /\ UNCHANGED <<packet, rem_len, multiplier, received>>

Return(p) == received' = Append(received, p) /\ at' = "header"

\* A mutation: the reader waits for a byte although there is no body.
EmptyBodyAwaited ==
  /\ Blocking /\ at = "body" /\ rem_len = 0 /\ socket # <<>>
  /\ Return(packet)
  /\ UNCHANGED <<function, peerVars, socket, packet, lengthVars, torn, writerVars>>

\* A body of no bytes: readPacket does not read it; MQTTPacket_read reads no bytes of
\* it, in whose select it waits until a byte of the next packet is there.
EmptyBody ==
  /\ Blocking /\ at = "body" /\ rem_len = 0
  /\ function = "MQTTPacket_read" => socket # <<>>
  /\ Return(packet)
  /\ UNCHANGED <<function, peerVars, socket, packet, lengthVars, torn, writerVars>>

\* A mutation: a part of the body counts as all of it.
BodyPart(n) ==
  /\ at = "body" /\ n \in 1..rem_len /\ Recv(n)
  /\ Return([packet EXCEPT !.body = @ \o SubSeq(socket, 1, n)])
  /\ UNCHANGED <<packet, lengthVars, torn>>

\* recv yields n bytes of the body.  The blocking readers want all of it at once.
ReadBody(n) ==
  LET p == [packet EXCEPT !.body = @ \o SubSeq(socket, 1, n)] IN
  /\ at = "body" /\ n \in 1..rem_len /\ Recv(n)
  /\ \/ n = rem_len /\ Return(p) /\ UNCHANGED <<packet, rem_len, torn>>
     \/ /\ n < rem_len /\ Blocking
        /\ at' = "header" /\ torn' = TRUE /\ UNCHANGED <<packet, rem_len, received>>
     \/ /\ n < rem_len /\ ~Blocking
        /\ packet' = p /\ rem_len' = rem_len - n /\ UNCHANGED <<at, received, torn>>
  /\ UNCHANGED <<multiplier, len>>

BodyFails ==
  /\ Blocking /\ at = "body" /\ RecvNothing
  /\ rem_len > 0 \/ function = "MQTTPacket_read"
  /\ at' = "header" /\ torn' = TRUE
  /\ UNCHANGED <<packet, lengthVars, received>>

-----------------------------------------------------------------------------
(* Sending.                                                                *)

\* A packet is serialised into c->buf, over what was there before.
StartSend(p) ==
  LET b == Bytes(p) IN
  /\ function = "sendPacket" /\ out.length = 0 /\ out.tries < MaxWrite
  /\ out' = [buf |-> b \o SubSeq(out.buf, Len(b) + 1, Len(out.buf)),
             length |-> Len(b), sent |-> 0, packet |-> p, tries |-> out.tries + 1]
  /\ UNCHANGED <<function, peerVars, socket, readerVars, wire, whole, failed>>

ByteAt(i) == IF i <= Len(out.buf) THEN out.buf[i] ELSE Beyond

\* mqtt_esp_write(&c->buf[sent], length): TCP takes n of the bytes from there on, of
\* which the code offers length in every round.
Write(n) ==
  /\ out.sent < out.length /\ n <= out.length
  /\ wire' = wire \o [i \in 1..n |-> ByteAt(out.sent + i)]
  /\ out' = [out EXCEPT !.sent = @ + n]
  /\ UNCHANGED <<function, peerVars, socket, readerVars, whole, failed>>

\* A mutation: more than the packet counts as the packet.
SendEndsLoosely ==
  /\ out.length > 0
  /\ out' = [out EXCEPT !.length = 0]
  /\ IF out.sent >= out.length
     THEN whole' = Append(whole, out.packet) /\ failed' = failed
     ELSE whole' = whole /\ failed' = (failed \/ out.sent > 0)
  /\ UNCHANGED <<function, peerVars, socket, readerVars, wire>>

\* The loop ends: everything is sent, the timer expired, or a write failed.
SendEnds ==
  /\ out.length > 0
  /\ out' = [out EXCEPT !.length = 0]
  /\ IF out.sent = out.length
     THEN whole' = Append(whole, out.packet) /\ failed' = failed
     ELSE whole' = whole /\ failed' = (failed \/ out.sent > 0)
  /\ UNCHANGED <<function, peerVars, socket, readerVars, wire>>

-----------------------------------------------------------------------------
Progress ==
  \/ ReadHeader \/ ReadDigit \/ EmptyBody \/ LengthFails \/ LengthAgain
  \/ BodyFails \/ \E n \in 1..rem_len : ReadBody(n)
Network == \E n \in 1..Len(flight) : Arrives(n)
Sending ==
  \/ (\E p \in Packets : StartSend(p)) \/ (\E n \in 1..out.length : Write(n))
  \/ SendEnds

Next == (\E p \in Packets : PeerSends(p)) \/ Network \/ Progress \/ NothingRead \/ Sending

Spec == Init /\ [][Next]_vars

\* What the peer sent arrives, and the client comes back to its reader.
FairSpec == Spec /\ WF_vars(Network) /\ WF_vars(Progress)

-----------------------------------------------------------------------------
(* Each reader returns the packets the peer sent, whole and in their order,  *)
(* however TCP cuts the stream, until a read gives up inside a packet        *)
(* (MQTTClient.c:81, MQTTPacket.c:290 and 361).                              *)
Pipe == INSTANCE PacketPipe
ReadsInStep == Pipe!Spec

(* Every packet the peer sends is read, unless a read gave up inside one.    *)
(* The exception is the code's: MQTTPacket_readnb never returns a packet     *)
(* without a body, as PINGRESP is (MQTTPacket.c:394).                        *)
Stuck == ~Blocking /\ at = "body" /\ rem_len = 0
EverythingIsRead == \A i \in 1..MaxSent : Len(sent) >= i ~> (Len(received) >= i \/ torn \/ Stuck)

(* As long as no sendPacket failed halfway, the bytes TCP has accepted are   *)
(* the packets whose sendPacket succeeded, and of the call in hand the first *)
(* bytes of the memory c->buf points to: its packet and, because every round *)
(* of the loop offers TCP the whole length again (MQTTClient.c:37), perhaps  *)
(* bytes behind it.  A call that sent those never succeeds.                  *)
SentInStep ==
  LET done == FlattenSeq([i \in 1..Len(whole) |-> Bytes(whole[i])]) IN
  ~failed =>
    /\ out.length = 0 => wire = done
    /\ out.length > 0 =>
         /\ wire = done \o [i \in 1..out.sent |-> ByteAt(i)]
         /\ out.length = Len(Bytes(out.packet))
         /\ \A i \in 1..out.length : ByteAt(i) = Bytes(out.packet)[i]
=============================================================================
