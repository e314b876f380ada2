--------------------------- MODULE RunLifecycleMC ---------------------------
(* RunLifecycle for TLC: its requests are interchangeable. *)
EXTENDS RunLifecycle, TLC

Symmetry ==
    Permutations(Completes) \cup Permutations(Analyses) \cup Permutations(Components)
    \cup Permutations(Repairs)
=============================================================================
