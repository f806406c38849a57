----------------------------- MODULE MC_Async -----------------------------
(* Async for TLC. *)
EXTENDS Async, TLC

CONSTANTS r1, r2, r3

(* Runners are interchangeable. *)
Symmetry == Permutations(Runners)
=============================================================================
