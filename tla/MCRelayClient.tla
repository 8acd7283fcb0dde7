---------------------------- MODULE MCRelayClient ----------------------------
(* RelayClient on small instances: the channels and the workers are alike. *)
EXTENDS RelayClient, TLC

Symmetry == Permutations(Chans) \cup Permutations(Workers)
=============================================================================
