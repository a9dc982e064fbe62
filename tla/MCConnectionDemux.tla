------------------------- MODULE MCConnectionDemux -------------------------
(* Instances of ConnectionDemux for TLC *)
EXTENDS ConnectionDemux

\* every attempt comes from an address of its own
OwnAddr == [c \in Attempts |-> c]

OneSlot == 1..1
TwoSlots == 1..2
=============================================================================
