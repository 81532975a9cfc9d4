------------------------------- MODULE MCSlip -------------------------------
(* Instances of SlipDatalink for TLC: packets with special characters in    *)
(* every place, with and without checksum, and for one instance a packet    *)
(* that is longer than the buffer.                                          *)
EXTENDS SlipDatalink

CONSTANT Oversize   \* whether the sender also sends a packet that is too long

Plain(p) == <<0>> \o p
Checked(p) == <<128>> \o Crc16(p) \o p

MCPackets ==
    { Plain(<<ESC_END>>), Plain(<<END, ESC>>), Checked(<<ESC>>) }
      \cup (IF Oversize THEN { Plain(<<1, 1, 1, 1>>) } ELSE {})

MCNoise == {0, END, ESC, ESC_END}
=============================================================================
