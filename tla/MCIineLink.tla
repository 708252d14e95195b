----------------------------- MODULE MCIineLink -----------------------------
(* IineLink for TLC, with the two attempts of the code.                      *)
EXTENDS IineLink
=============================================================================
