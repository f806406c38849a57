---------------------------- MODULE MC_Roster ----------------------------
(* Roster for TLC. *)
EXTENDS Roster, TLC

CONSTANTS Alice, Bob

(* The two users play the same part. *)
Symmetry == Permutations(Users)
=============================================================================
