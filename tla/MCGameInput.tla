---------------------------- MODULE MCGameInput ----------------------------
(* GameInput for TLC: the menu key A, which the game uses too, and Select,  *)
(* which pauses it. Neither is one of a pair that cancels.                  *)
EXTENDS GameInput

MCButtons == {"a", "view"}
=============================================================================
