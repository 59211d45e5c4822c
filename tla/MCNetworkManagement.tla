------------------------- MODULE MCNetworkManagement -------------------------
(* Small networks for TLC.  Every device but the first leader is alike.      *)
EXTENDS NetworkManagement, TLC

Others == Permutations(Node \ {FirstLeader})
=============================================================================
