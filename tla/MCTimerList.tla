----------------------------- MODULE MCTimerList -----------------------------
(* TimerList with interchangeable peers, addresses and descriptors.        *)
EXTENDS TimerList, TLC

Symmetry == Permutations(Peers) \cup Permutations(Addrs) \cup Permutations(Fds)
==============================================================================
