---------------------------- MODULE MCController ----------------------------
(* Controller for TLC: a gamepad and an L1241, both of which fit the list.   *)
EXTENDS Controller

CONSTANTS pad, iine

MCPeers == {pad, iine}
MCIine == {iine}
=============================================================================
