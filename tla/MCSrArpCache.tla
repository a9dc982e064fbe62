---------------------------- MODULE MCSrArpCache ----------------------------
(***************************************************************************)
(* Three packets for two next hops, of which one has two packets.          *)
(***************************************************************************)
EXTENDS SrArpCache, TLC

CONSTANTS p1, p2, p3, i1, i2, m1, m2

MCPackets == {p1, p2, p3}
MCHop == p1 :> i1 @@ p2 :> i1 @@ p3 :> i2
MCMacsOf == i1 :> {m1} @@ i2 :> {m2}
=============================================================================
