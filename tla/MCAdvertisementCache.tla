----------------------- MODULE MCAdvertisementCache -----------------------
(* AdvertisementCache for TLC: a device more than the table holds, a clock   *)
(* that wraps within a silence, and the packets of an L1241 controller that  *)
(* tells its service in one and its complete name in another.                *)
EXTENDS AdvertisementCache, TLC

CONSTANTS d1, d2, d3

Packet(hid, iine, appearance, name, complete) ==
  [hid |-> hid, iine |-> iine, appearance |-> appearance, name |-> name, complete |-> complete]

MCDevices == {d1, d2, d3}
MCPackets ==
  {Packet(FALSE, TRUE, "generic", "other", FALSE), Packet(FALSE, FALSE, "absent", "iine", TRUE),
   Packet(TRUE, FALSE, "remote", "", FALSE)}
MCSymmetry == Permutations(MCDevices)
=============================================================================
