------------------------------ MODULE MCCatalog ------------------------------
(* A flash of five data sectors, a two-sector and a three-sector ROM, room *)
(* for two games, and a generation counter that wraps after four           *)
(* publications.                                                           *)
EXTENDS Catalog

CONSTANTS n1, n2, red, blue

MCSectors == red :> 2 @@ blue :> 3

Row(name, rom, offset) == [name |-> name, rom |-> rom, offset |-> offset]

(* No header; one preinstalled game that leaves a gap below it; a table    *)
(* with overlapping rows.                                                  *)
MCLegacy == { <<>>,
              <<Row(n1, red, 3)>>,
              <<Row(n1, red, 1), Row(n2, blue, 2)>> }
=============================================================================
