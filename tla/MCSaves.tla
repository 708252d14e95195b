------------------------------ MODULE MCSaves ------------------------------
(* Saves for TLC: three contents of cartridge RAM, so that an old, a new   *)
(* and an abandoned save can differ, and sequences that wrap after four.   *)
EXTENDS Saves, TLC

CONSTANTS p1, p2, p3

MCProgress == {p1, p2, p3}
Contents == Permutations(MCProgress)
=============================================================================
