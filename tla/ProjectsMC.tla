----------------------------- MODULE ProjectsMC -----------------------------
(* Projects for TLC: its requests are interchangeable. *)
EXTENDS Projects, TLC

Symmetry ==
    Permutations(Creates) \cup Permutations(KeyCreates) \cup Permutations(Deletes)
    \cup Permutations(Ingests)
=============================================================================
