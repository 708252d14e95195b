---------------------------- MODULE SerialNumber ----------------------------
(***************************************************************************)
(* Unsigned counters that wrap, as gb_storage.c (directory generations)    *)
(* and gb_saves.c (save sequences) use them.  The width, 2^32 in the code, *)
(* is the parameter m.                                                     *)
(***************************************************************************)
EXTENDS Integers

(* (int32_t)(a - b) > 0 *)
Newer(a, b, m) == LET d == (a - b) % m IN 0 < d /\ 2 * d < m

Successor(a, m) == (a + 1) % m
=============================================================================
