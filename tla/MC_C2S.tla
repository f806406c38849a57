------------------------------- MODULE MC_C2S -------------------------------
(* Model-checking instances of C2S. *)
EXTENDS C2S, TLC

\* Connections and users are interchangeable in every instance.
Symmetry == Permutations(Conns) \cup Permutations(Users)

\* A .cfg file cannot hold a negative number.
SignedPriorities == {-1, 0, 1}
=============================================================================
