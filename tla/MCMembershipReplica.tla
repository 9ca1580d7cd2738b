------------------------ MODULE MCMembershipReplica ------------------------
(* MembershipReplica with model values for the replicas; no symmetry, as   *)
(* the run checks liveness too.                                            *)
EXTENDS MembershipReplica
=============================================================================
