--------------------------- MODULE MCUserRegistry ---------------------------
EXTENDS UserRegistry, TLC

Symmetry ==
  Permutations(Conns) \cup Permutations(Ids) \cup Permutations(Objs)
    \cup Permutations(Workers)
=============================================================================
