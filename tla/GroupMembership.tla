--------------------------- MODULE GroupMembership ---------------------------
(***************************************************************************)
(* What one process of the failure detector promises to the rest of the    *)
(* system, whatever its two threads do: a membership group that always     *)
(* holds the process itself, that changes by one peer at a time, and whose *)
(* every change is handed to Paxos in the same indivisible step.           *)
(*                                                                         *)
(* FailureDetector is shown to implement this module.                      *)
(***************************************************************************)
CONSTANTS
  Self,   \* the address of this process
  Peers   \* the addresses beacons can come from

VARIABLES
  members,    \* the group this process believes in
  announced   \* the sequence of one or no views: the last view given to Paxos

vars == <<members, announced>>

Init ==
  /\ members = {Self}
  /\ announced = <<>>

(* A beacon from an address that is not in the group.                      *)
Join(p) ==
  /\ p \notin members
  /\ members' = members \cup {p}
  /\ announced' = <<members'>>

(* The timeout of a member expires.                                        *)
Leave(p) ==
  /\ p \in members
  /\ members' = members \ {p}
  /\ announced' = <<members'>>

Next == \E p \in Peers : Join(p) \/ Leave(p)

Spec == Init /\ [][Next]_vars

==============================================================================
