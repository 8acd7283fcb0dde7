--------------------------- MODULE MCChannelView ---------------------------
(* ChannelView on a small instance: the other people are alike. *)
EXTENDS ChannelView, TLC

Symmetry == Permutations(Others)
=============================================================================
