---------------------------- MODULE MCManagement ----------------------------
(* Management for TLC: two names and two ROMs, so that a name can be taken *)
(* and a ROM be installed twice; a new device, or one that comes with two  *)
(* rows of one ROM, or with two games.                                     *)
EXTENDS Management

CONSTANTS n1, n2, red, blue

Row(name, rom) == [name |-> name, rom |-> rom]

MCPreinstalled == { <<>>, <<Row(n1, red), Row(n2, red)>> }

MCPair == { <<Row(n1, red), Row(n2, blue)>> }
=============================================================================
