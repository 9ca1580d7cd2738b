-------------------------- MODULE MembershipReplica --------------------------
(***************************************************************************)
(* The Paxos replicas of all the processes: each submits its membership    *)
(* group whenever its failure detector changes it and learns the groups of *)
(* the others in the order Paxos chose.                                    *)
(*                                                                         *)
(* The failure detector is the one GroupMembership specifies: it adds or   *)
(* removes one peer and submits before it changes the group again, since   *)
(* it holds hashmap_lock across paxos_serialize_and_submit.  Paxos itself  *)
(* is libpaxos, used through evpaxos_replica_submit and the on_deliver     *)
(* callback: it may lose a value or choose it in more than one instance,   *)
(* and calls every replica with the same sequence of values.               *)
(*                                                                         *)
(* A group is a set of replicas: serialize_hash sorts the table by address *)
(* and deserialize_hash reverses every list it reads, so two lists are     *)
(* equal exactly when they hold the same addresses.                        *)
(*                                                                         *)
(* pthread_mutex_lock may fail in on_deliver, at either of its two locks;  *)
(* each failure has its return, and the second one leaves the first mutex  *)
(* locked.                                                                 *)
(***************************************************************************)
EXTENDS Naturals, Sequences, FiniteSets

CONSTANTS
  Replicas,     \* the processes, by their address
  MaxRuns,      \* bound: how many Paxos runs are started
  MaxInstances, \* bound: how many instances choose a value
  MaxRestarts,  \* bound: how many times processes crash and come back
  MaxLockFailures, \* bound: how many times pthread_mutex_lock fails
  NULL

ASSUME BoundsAreNat ==
  {MaxRuns, MaxInstances, MaxRestarts, MaxLockFailures} \subseteq Nat
ASSUME NullIsNoUuid == NULL \notin Nat

VARIABLES
  \* the failure detector of each process
  nodes,            \* the keys of its hash table
  \* paxos_serialize_and_submit
  submitting,       \* the UUID registered and not submitted yet, or NULL
  detected_states,  \* the UUIDs of the runs started and not seen back
  \* the learner of each process
  listener_mutex,   \* "free", "held" by on_deliver, or "left" locked by a
                    \* call of on_deliver that returned
  value,            \* the value on_deliver is handling, or NULL
  delivered,        \* how many instances on_deliver was called for
  skipped,          \* those of them where a lock failed
  paxos_state,      \* paxos_state_array: the group learned, {} at first
  instance_id,      \* the instance paxos_state was learned from, 0 at first
  \* Paxos and the environment
  in_flight,        \* values submitted, chosen or not
  log,              \* the values chosen, by instance
  runs,             \* how many UUIDs have been generated
  restarts,         \* how many times a process has restarted
  lock_failures     \* how many times pthread_mutex_lock has failed

submitVars == <<nodes, submitting, detected_states, runs>>
learnVars  == <<value, delivered, skipped, paxos_state, instance_id>>
faults     == <<restarts, lock_failures>>
vars == <<submitVars, listener_mutex, learnVars, in_flight, log, faults>>

(* main() until the first beacon: init_nodes_struct and init_state.        *)
Init ==
  /\ nodes = [r \in Replicas |-> {r}]
  /\ submitting = [r \in Replicas |-> NULL]
  /\ detected_states = [r \in Replicas |-> {}]
  /\ listener_mutex = [r \in Replicas |-> "free"]
  /\ value = [r \in Replicas |-> NULL]
  /\ delivered = [r \in Replicas |-> 0]
  /\ skipped = [r \in Replicas |-> {}]
  /\ paxos_state = [r \in Replicas |-> {}]
  /\ instance_id = [r \in Replicas |-> 0]
  /\ in_flight = {}
  /\ log = <<>>
  /\ runs = 0
  /\ restarts = 0
  /\ lock_failures = 0

------------------------------------------------------------------------------
(* Submitting a group.                                                     *)

(* The failure detector adds or removes p and calls                        *)
(* paxos_serialize_and_submit, which registers the UUID of a new run.      *)
Detect(r, p) ==
  /\ submitting[r] = NULL
  /\ p # r
  /\ runs < MaxRuns
  /\ runs' = runs + 1
  /\ nodes' = [nodes EXCEPT ![r] =
       IF p \in nodes[r] THEN nodes[r] \ {p} ELSE nodes[r] \cup {p}]
  /\ submitting' = [submitting EXCEPT ![r] = runs']
  /\ detected_states' = [detected_states EXCEPT ![r] = @ \cup {runs'}]
  /\ UNCHANGED <<listener_mutex, learnVars, in_flight, log, faults>>

(* serialize_hash and evpaxos_replica_submit, hashmap_lock still held.     *)
Submit(r) ==
  /\ submitting[r] # NULL
  /\ in_flight' = in_flight \cup
       {[uuid |-> submitting[r], sender |-> r, view |-> nodes[r]]}
  /\ submitting' = [submitting EXCEPT ![r] = NULL]
  /\ UNCHANGED <<nodes, detected_states, runs, listener_mutex, learnVars,
                 log, faults>>

------------------------------------------------------------------------------
(* Paxos: a value is chosen, perhaps again.  Nothing makes Paxos choose: a *)
(* value that is never chosen is a lost one.                               *)
Choose(m) ==
  /\ Len(log) < MaxInstances
  /\ m \in in_flight
  /\ log' = Append(log, m)
  /\ UNCHANGED <<submitVars, listener_mutex, learnVars, in_flight, faults>>

------------------------------------------------------------------------------
(* on_deliver: learning a group.                                           *)

(* The learner calls on_deliver with the next value: take the mutex and    *)
(* deserialize.                                                            *)
OnDeliver(r) ==
  /\ value[r] = NULL
  /\ delivered[r] < Len(log)
  /\ listener_mutex[r] = "free"
  /\ listener_mutex' = [listener_mutex EXCEPT ![r] = "held"]
  /\ value' = [value EXCEPT ![r] = log[delivered[r] + 1]]
  /\ UNCHANGED <<submitVars, delivered, skipped, paxos_state, instance_id,
                 in_flight, log, faults>>

NoneOwn(r) == FALSE

(* "Message sent from proposer of paxos replica on same node"              *)
Own(r) == value[r].sender = r

SameSize(group, other) == Cardinality(group) = Cardinality(other)

(* is_equal_lists: an empty list equals nothing, not even an empty one.    *)
IsEqual(group, other) == group # {} /\ other # {} /\ group = other

(* on_deliver returns: the learner goes on to the next instance.           *)
Return(r) ==
  /\ value' = [value EXCEPT ![r] = NULL]
  /\ delivered' = [delivered EXCEPT ![r] = @ + 1]

Unlock(r) == listener_mutex' = [listener_mutex EXCEPT ![r] = "free"]

(* pthread_mutex_lock returns an error.                                    *)
LockFails ==
  /\ lock_failures < MaxLockFailures
  /\ lock_failures' = lock_failures + 1

(* This call of on_deliver leaves its value aside.                         *)
Skip(r) == skipped' = [skipped EXCEPT ![r] = @ \cup {delivered[r] + 1}]

(* "ERROR: can't get Paxos listener mutex": on_deliver returns at once.    *)
OnDeliverFails(r) ==
  /\ value[r] = NULL
  /\ delivered[r] < Len(log)
  /\ LockFails
  /\ Skip(r)
  /\ Return(r)
  /\ UNCHANGED <<submitVars, listener_mutex, paxos_state, instance_id, in_flight,
                 log, restarts>>

RunKept(r) == detected_states

(* HASH_FIND and HASH_DEL of the run that ended, if it is known.  HASH_DEL *)
(* reads its links after free(): where the allocator has altered them the  *)
(* process may crash, which is Restart.                                    *)
RunEnded(r) == [detected_states EXCEPT ![r] = @ \ {value[r].uuid}]

(* This replica's own group came back: note the run's end, learn nothing.  *)
DeliverOwn(r) ==
  /\ value[r] # NULL
  /\ Own(r)
  /\ detected_states' = RunEnded(r)
  /\ Unlock(r)
  /\ Return(r)
  /\ UNCHANGED <<nodes, submitting, runs, skipped, paxos_state, instance_id,
                 in_flight, log, faults>>

(* "ERROR: can't get mutex": the lock of detected_states fails; on_deliver *)
(* returns, the run is not ended, and paxos_listener_mutex stays locked.   *)
DeliverOwnFails(r) ==
  /\ value[r] # NULL
  /\ Own(r)
  /\ LockFails
  /\ Skip(r)
  /\ listener_mutex' = [listener_mutex EXCEPT ![r] = "left"]
  /\ Return(r)
  /\ UNCHANGED <<submitVars, paxos_state, instance_id, in_flight, log, restarts>>

ReturnLocked(r) ==
  /\ value[r] # NULL
  /\ ~Own(r)
  /\ IsEqual(value[r].view, paxos_state[r])
  /\ Return(r)
  /\ UNCHANGED <<submitVars, listener_mutex, skipped, paxos_state, instance_id,
                 in_flight, log, faults>>

(* "State is the same as current state"                                    *)
DeliverSame(r) ==
  /\ value[r] # NULL
  /\ ~Own(r)
  /\ IsEqual(value[r].view, paxos_state[r])
  /\ Unlock(r)
  /\ Return(r)
  /\ UNCHANGED <<submitVars, skipped, paxos_state, instance_id, in_flight, log,
                 faults>>

InstanceForgotten(r) == instance_id

InstanceAfter(r) == [instance_id EXCEPT ![r] = delivered[r] + 2]

(* replica->instance_id = iid                                              *)
InstanceNoted(r) == [instance_id EXCEPT ![r] = delivered[r] + 1]

(* A group this replica did not know: copy and log it.                     *)
DeliverNew(r) ==
  /\ value[r] # NULL
  /\ ~Own(r)
  /\ ~IsEqual(value[r].view, paxos_state[r])
  /\ paxos_state' = [paxos_state EXCEPT ![r] = value[r].view]
  /\ instance_id' = InstanceNoted(r)
  /\ Unlock(r)
  /\ Return(r)
  /\ UNCHANGED <<submitVars, skipped, in_flight, log, faults>>

------------------------------------------------------------------------------
(* The process crashes and is started again: init_state sets instance_id   *)
(* to 0 and evpaxos_replica_set_instance_id has the learner start over.    *)
Restart(r) ==
  /\ restarts < MaxRestarts
  /\ restarts' = restarts + 1
  /\ nodes' = [nodes EXCEPT ![r] = {r}]
  /\ submitting' = [submitting EXCEPT ![r] = NULL]
  /\ detected_states' = [detected_states EXCEPT ![r] = {}]
  /\ listener_mutex' = [listener_mutex EXCEPT ![r] = "free"]
  /\ value' = [value EXCEPT ![r] = NULL]
  /\ delivered' = [delivered EXCEPT ![r] = 0]
  /\ skipped' = [skipped EXCEPT ![r] = {}]
  /\ paxos_state' = [paxos_state EXCEPT ![r] = {}]
  /\ instance_id' = [instance_id EXCEPT ![r] = 0]
  /\ UNCHANGED <<runs, in_flight, log, lock_failures>>

Learn(r) ==
  \/ OnDeliver(r) \/ DeliverOwn(r) \/ DeliverSame(r) \/ DeliverNew(r)
  \/ OnDeliverFails(r) \/ DeliverOwnFails(r)

Next ==
  \/ \E r, p \in Replicas : Detect(r, p)
  \/ \E r \in Replicas : Submit(r) \/ Learn(r) \/ Restart(r)
  \/ \E m \in in_flight : Choose(m)

Spec == Init /\ [][Next]_vars

(* The event loop of every replica runs and learns what was chosen.        *)
FairSpec == Spec /\ \A r \in Replicas : WF_vars(Learn(r))

------------------------------------------------------------------------------
(* Properties.                                                             *)

(* What serialize_hash packs: UUID, sender, addresses.                     *)
Messages == [uuid : 1..MaxRuns, sender : Replicas, view : SUBSET Replicas]

(* Every variable holds a value of its type.                               *)
TypeOK ==
  /\ nodes \in [Replicas -> SUBSET Replicas]
  /\ submitting \in [Replicas -> 1..MaxRuns \cup {NULL}]
  /\ detected_states \in [Replicas -> SUBSET (1..MaxRuns)]
  /\ listener_mutex \in [Replicas -> {"free", "held", "left"}]
  /\ value \in [Replicas -> Messages \cup {NULL}]
  /\ delivered \in [Replicas -> 0..Len(log)]
  /\ skipped \in [Replicas -> SUBSET (1..Len(log))]
  /\ paxos_state \in [Replicas -> SUBSET Replicas]
  /\ instance_id \in [Replicas -> 0..Len(log)]
  /\ in_flight \subseteq Messages
  /\ log \in Seq(Messages)
  /\ runs \in 0..MaxRuns
  /\ restarts \in 0..MaxRestarts
  /\ lock_failures \in 0..MaxLockFailures

(* The instances on_deliver got its locks for, at r.                       *)
Handled(r) == 1..delivered[r] \ skipped[r]

(* r has learned nothing and handled only its own groups, or has the last  *)
(* group of another replica.                                               *)
LastForeign(r) ==
  \/ /\ paxos_state[r] = {}
     /\ \A i \in Handled(r) : log[i].sender = r
  \/ \E i \in Handled(r) :
       /\ log[i].sender # r
       /\ log[i].view = paxos_state[r]
       /\ \A j \in Handled(r) : j > i => log[j].sender = r

(* The state of a replica is the last group another replica got chosen     *)
(* among the instances handled here: not an older one, not its own one,    *)
(* and the empty group only before the first; also after a restart.        *)
StateIsLastForeign == \A r \in Replicas : LastForeign(r)

(* Two replicas that are at the same instance, have both handled it, and   *)
(* got it from a third replica, have the same state, whatever they skipped *)
(* before.                                                                 *)
Agreement ==
  \A r, s \in Replicas :
    /\ delivered[r] = delivered[s]
    /\ delivered[r] \in Handled(r) \cap Handled(s)
    /\ log[delivered[r]].sender \notin {r, s}
    => paxos_state[r] = paxos_state[s]

(* instance_id names the instance the state was learned from; it is 0 only *)
(* while nothing was learned.                                              *)
InstanceNamesState ==
  \A r \in Replicas :
    IF instance_id[r] = 0
    THEN paxos_state[r] = {}
    ELSE /\ instance_id[r] <= delivered[r]
         /\ log[instance_id[r]].view = paxos_state[r]
         /\ log[instance_id[r]].sender # r

(* A run still waiting for its end has not been handled when it came back, *)
(* and the run being submitted is registered before anyone can deliver it. *)
RunsPending ==
  \A r \in Replicas :
    /\ \A i \in Handled(r) : log[i].uuid \notin detected_states[r]
    /\ submitting[r] # NULL => submitting[r] \in detected_states[r]

(* Every chosen group is delivered to every replica, restarted or not, and *)
(* each is ready for the next one then: on_deliver returns with its mutex  *)
(* unlocked.  The return after a failing lock of detected_states is the    *)
(* one that does not (paxos_replica.c:131-134), and the one excepted here: *)
(* a replica that took it learns no further group until it is restarted.   *)
EveryReplicaCatchesUp ==
  \A i \in 1..MaxInstances :
    Len(log) >= i ~>
      \A r \in Replicas :
        \/ delivered[r] >= i /\ listener_mutex[r] = "free"
        \/ listener_mutex[r] = "left"
==============================================================================
