--------------------------- MODULE MCPushDelivery ---------------------------
EXTENDS PushDelivery, TLC

Symmetry ==
  Permutations(Notes) \cup Permutations(Conns) \cup Permutations(Workers)
=============================================================================
