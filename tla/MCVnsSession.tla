---------------------------- MODULE MCVnsSession ----------------------------
(* Instances of VnsSession for TLC *)
EXTENDS VnsSession, TLC

\* a switch that fits the routing table, and one that does not
TwoSwitches == "s1" :> {"eth1", "eth2"} @@ "s2" :> {"eth3"}
Arp  == [ether_type |-> 2054, long |-> TRUE, forOther |-> FALSE]
Ip   == [ether_type |-> 2048, long |-> FALSE, forOther |-> FALSE]
ArpElsewhere == [Arp EXCEPT !.forOther = TRUE]
SomeFrames == {Arp, ArpElsewhere, Ip}
=============================================================================
