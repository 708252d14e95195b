--------------------------- MODULE MCInputBuffer ---------------------------
(* InputBuffer for TLC: a ring of three, two keys, reports enough to fill   *)
(* the ring twice.                                                          *)
EXTENDS InputBuffer, TLC

CONSTANTS k1, k2

MCButtons == {k1, k2}
Keys == Permutations(MCButtons)
=============================================================================
