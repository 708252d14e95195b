---------------------------- MODULE MCPlayback ----------------------------
(* Playback for TLC: a picture of two strips of two shades, and a queue that *)
(* holds one block more than are awaited at the start.                       *)
EXTENDS Playback
MCShades == {"light", "dark"}
=============================================================================
