--------------------------- MODULE MCTrafficAgent ---------------------------
(* Instances of TrafficAgent for TLC: the profiles a test manager configures. *)
EXTENDS TrafficAgent

Sender(kind, loop) ==
  [dir |-> "SEND", kind |-> kind, loop |-> loop, timed |-> TRUE, zero |-> FALSE, delay |-> FALSE]
Receiver(kind) == [Sender(kind, "long") EXCEPT !.dir = "RECV"]

LongSend  == Sender("FILE", "long")
LateSend  == [Sender("IPTV", "long") EXCEPT !.delay = TRUE]
CountEcho == [Sender("CALI", "long") EXCEPT !.timed = FALSE]

\* The tests the habits describe, and the streams that make each of them harder.
TestProfiles    == {LongSend, Receiver("IPTV")}
EchoProfiles    == TestProfiles \cup {CountEcho, Sender("IPTV", "burst")}
DelayedProfiles == TestProfiles \cup {LateSend}
TransacProfiles == {LongSend, Receiver("TRANSC")}

\* Bursts and transactions, which end by more than one cause.
MixedProfiles == {Sender("IPTV", "burst"), Receiver("TRANSC")}
=============================================================================
