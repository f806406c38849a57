---------------------------- MODULE MC_S2SOut ----------------------------
(* S2SOut for TLC. *)
EXTENDS S2SOut

CONSTANTS s1, s2, m1, m2
=============================================================================
