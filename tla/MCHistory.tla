----------------------------- MODULE MCHistory -----------------------------
(* History on small instances: messages, workers and goroutines are alike. *)
EXTENDS History, TLC

Symmetry ==
  Permutations(Theirs) \cup Permutations(Own)
    \cup Permutations(Workers) \cup Permutations(Procs)
=============================================================================
