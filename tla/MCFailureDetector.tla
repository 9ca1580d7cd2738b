------------------------- MODULE MCFailureDetector -------------------------
(* FailureDetector with model values for peers, heap and descriptors.      *)
EXTENDS FailureDetector, TLC

(* Peers, addresses and descriptors are interchangeable; used by runs      *)
(* without liveness properties only.                                       *)
Symmetry == Permutations(Peers) \cup Permutations(Addrs) \cup Permutations(Fds)
=============================================================================
