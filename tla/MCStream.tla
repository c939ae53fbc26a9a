------------------------------ MODULE MCStream ------------------------------
(* Two-valued digits, packets whose lengths take one, two and three digits.  *)
EXTENDS Stream

Ping == [header |-> 1, body |-> <<>>]
Short == [header |-> 2, body |-> <<3, 1>>]
Long == [header |-> 3, body |-> <<0, 1, 2, 3>>]

SomePackets == {Ping, Short, Long}
AllFunctions == {"readPacket", "MQTTPacket_read", "MQTTPacket_readnb", "sendPacket"}
=============================================================================
