----------------------- MODULE MembershipReplicaProofs -----------------------
(***************************************************************************)
(* What MembershipReplica's learners know, proved for every set of         *)
(* replicas, every number of runs, instances and restarts.                 *)
(***************************************************************************)
EXTENDS MembershipReplica, TLAPS

(* The value on_deliver handles is the next one of the log.                *)
ValueIsNext ==
  \A r \in Replicas : value[r] # NULL =>
    /\ delivered[r] < Len(log)
    /\ value[r] = log[delivered[r] + 1]

(* Only values on_deliver was called for are skipped.                      *)
SkippedDelivered ==
  \A r \in Replicas : \A i \in skipped[r] : i <= delivered[r]

(* Every UUID in use has been generated.                                   *)
UuidsGenerated ==
  /\ \A m \in in_flight : m.uuid <= runs
  /\ \A i \in 1..Len(log) : log[i].uuid <= runs
  /\ \A r \in Replicas : \A u \in detected_states[r] : u <= runs

(* A UUID belongs to one replica: the one that waits for it sent it.       *)
UuidsOwned ==
  /\ \A r, s \in Replicas : r # s => detected_states[r] \cap detected_states[s] = {}
  /\ \A r \in Replicas : \A m \in in_flight :
       m.uuid \in detected_states[r] => m.sender = r
  /\ \A r \in Replicas : \A i \in 1..Len(log) :
       log[i].uuid \in detected_states[r] => log[i].sender = r

(* A group about to be submitted is not in Paxos yet.                      *)
NotYetSubmitted ==
  \A r \in Replicas : submitting[r] # NULL =>
    /\ \A m \in in_flight : m.uuid # submitting[r]
    /\ \A i \in 1..Len(log) : log[i].uuid # submitting[r]

(* The inductive invariant.                                                *)
IInv ==
  /\ TypeOK
  /\ ValueIsNext
  /\ SkippedDelivered
  /\ UuidsGenerated
  /\ UuidsOwned
  /\ NotYetSubmitted
  /\ StateIsLastForeign
  /\ InstanceNamesState
  /\ RunsPending

------------------------------------------------------------------------------
(* The state main() and init_state set up satisfies the invariant.         *)
LEMMA InitInv == Init => IInv
BY BoundsAreNat DEF Init, IInv, TypeOK, ValueIsNext, SkippedDelivered, UuidsGenerated, UuidsOwned,
   NotYetSubmitted, StateIsLastForeign, LastForeign, Handled, InstanceNamesState,
   RunsPending, Messages

(* on_deliver handles the entry of the log after the delivered ones.       *)
LEMMA NextValue ==
  ASSUME IInv, NEW r \in Replicas, value[r] # NULL
  PROVE  /\ delivered[r] \in Nat
         /\ delivered[r] + 1 \in 1..Len(log)
         /\ value[r] = log[delivered[r] + 1]
         /\ value[r] \in Messages
BY DEF IInv, TypeOK, ValueIsNext

(* The log holds messages and no replica is ahead of it.                   *)
LEMMA LogTyped ==
  ASSUME TypeOK
  PROVE  /\ Len(log) \in Nat
         /\ \A i \in 1..Len(log) : log[i] \in Messages
         /\ \A r \in Replicas : delivered[r] \in 0..Len(log)
BY DEF TypeOK

(* Registering a run: its UUID is new to tables, Paxos and log.            *)
LEMMA DetectInv ==
  ASSUME IInv, NEW r \in Replicas, NEW p \in Replicas, Detect(r, p) PROVE IInv'
<1> USE DEF IInv, submitVars, learnVars, faults
<1>1. runs \in Nat /\ runs' = runs + 1 /\ runs' \in 1..MaxRuns
  BY BoundsAreNat DEF Detect, TypeOK
<1>2. /\ detected_states' = [detected_states EXCEPT ![r] = detected_states[r] \cup {runs'}]
      /\ submitting' = [submitting EXCEPT ![r] = runs']
      /\ UNCHANGED <<in_flight, log, delivered, skipped, value, paxos_state, instance_id>>
  BY DEF Detect
<1>3. \A s \in Replicas : runs' \notin detected_states[s]
  BY <1>1 DEF UuidsGenerated, TypeOK
<1>4. \A m \in in_flight : m.uuid # runs' /\ m.uuid \in Nat
  BY <1>1 DEF UuidsGenerated, TypeOK, Messages
<1>5. \A i \in 1..Len(log) : log[i].uuid # runs' /\ log[i].uuid \in Nat
  BY <1>1, LogTyped DEF UuidsGenerated, Messages
<1>6. TypeOK'
  BY <1>1, BoundsAreNat DEF Detect, TypeOK
<1>7. UuidsGenerated'
  <2>1. \A s \in Replicas : \A u \in detected_states[s]' : u <= runs'
    BY <1>1, <1>2, BoundsAreNat DEF UuidsGenerated, TypeOK
  <2>. QED
    BY <1>1, <1>2, <1>4, <1>5, <2>1, LogTyped DEF UuidsGenerated
<1>8. UuidsOwned'
  <2>1. ASSUME NEW s \in Replicas, NEW t \in Replicas, s # t
        PROVE  detected_states[s]' \cap detected_states[t]' = {}
    BY <1>2, <1>3, <2>1 DEF UuidsOwned, TypeOK
  <2>2. ASSUME NEW s \in Replicas, NEW m \in in_flight, m.uuid \in detected_states[s]'
        PROVE  m.sender = s
    BY <1>2, <1>4, <2>2 DEF UuidsOwned, TypeOK
  <2>3. ASSUME NEW s \in Replicas, NEW i \in 1..Len(log),
               log[i].uuid \in detected_states[s]'
        PROVE  log[i].sender = s
    BY <1>2, <1>5, <2>3 DEF UuidsOwned, TypeOK
  <2>. QED
    BY <1>2, <2>1, <2>2, <2>3 DEF UuidsOwned
<1>9. NotYetSubmitted'
  BY <1>2, <1>4, <1>5 DEF NotYetSubmitted, TypeOK
<1>10. ValueIsNext' /\ SkippedDelivered' /\ StateIsLastForeign' /\ InstanceNamesState'
  BY <1>2 DEF ValueIsNext, SkippedDelivered, StateIsLastForeign, LastForeign, Handled,
     InstanceNamesState
<1>11. RunsPending'
  BY <1>2, <1>5, LogTyped DEF RunsPending, Handled, TypeOK
<1>. QED
  BY <1>6, <1>7, <1>8, <1>9, <1>10, <1>11

(* Submitting: only now does the UUID enter Paxos, from its owner.         *)
LEMMA SubmitInv ==
  ASSUME IInv, NEW r \in Replicas, Submit(r) PROVE IInv'
<1> USE DEF IInv, submitVars, learnVars, faults
<1> DEFINE new == [uuid |-> submitting[r], sender |-> r, view |-> nodes[r]]
<1>1. /\ submitting[r] \in 1..MaxRuns
      /\ submitting[r] \in detected_states[r]
      /\ submitting[r] <= runs
  BY DEF Submit, TypeOK, RunsPending, UuidsGenerated
<1>2. new \in Messages /\ new.uuid = submitting[r] /\ new.sender = r
  BY <1>1 DEF TypeOK, Messages
<1>3. /\ in_flight' = in_flight \cup {new}
      /\ submitting' = [submitting EXCEPT ![r] = NULL]
      /\ UNCHANGED <<nodes, detected_states, runs, listener_mutex, value,
                     delivered, skipped, paxos_state, instance_id, log, faults>>
  BY DEF Submit
<1> HIDE DEF new
<1>4. TypeOK'
  BY <1>2, <1>3 DEF TypeOK
<1>5. UuidsGenerated'
  BY <1>1, <1>2, <1>3 DEF UuidsGenerated
<1>6. UuidsOwned'
  <2>1. \A s \in Replicas : submitting[r] \in detected_states[s] => s = r
    BY <1>1 DEF UuidsOwned
  <2>. QED
    BY <1>2, <1>3, <2>1 DEF UuidsOwned
<1>7. NotYetSubmitted'
  <2>1. ASSUME NEW s \in Replicas, submitting[s]' # NULL
        PROVE  s # r /\ submitting[s]' = submitting[s] /\ submitting[s] # submitting[r]
    <3>1. s # r /\ submitting[s]' = submitting[s]
      BY <1>3, <2>1 DEF TypeOK
    <3>2. submitting[s] \in detected_states[s]
      BY <2>1, <3>1 DEF RunsPending
    <3>. QED
      BY <1>1, <3>1, <3>2 DEF UuidsOwned
  <2>. QED
    BY <1>2, <1>3, <2>1 DEF NotYetSubmitted
<1>8. ValueIsNext' /\ SkippedDelivered' /\ StateIsLastForeign' /\ InstanceNamesState'
  BY <1>3 DEF ValueIsNext, SkippedDelivered, StateIsLastForeign, LastForeign, Handled,
     InstanceNamesState
<1>9. RunsPending'
  BY <1>3 DEF RunsPending, Handled, TypeOK
<1>. QED
  BY <1>4, <1>5, <1>6, <1>7, <1>8, <1>9

(* Choosing a value only adds an instance nobody has delivered.            *)
LEMMA ChooseInv ==
  ASSUME IInv, NEW m \in in_flight, Choose(m) PROVE IInv'
<1> USE DEF IInv, submitVars, learnVars, faults
<1>1. /\ m \in Messages /\ log \in Seq(Messages) /\ log' = Append(log, m)
      /\ UNCHANGED <<nodes, submitting, detected_states, runs, listener_mutex, value,
                     delivered, skipped, paxos_state, instance_id, in_flight, faults>>
  BY DEF Choose, TypeOK
<1>2. /\ Len(log') = Len(log) + 1
      /\ Len(log) \in Nat
      /\ \A i \in 1..Len(log) : log'[i] = log[i]
      /\ log'[Len(log) + 1] = m
  BY <1>1
<1>3. \A r \in Replicas : delivered[r] \in 0..Len(log)
  BY DEF TypeOK
<1>4. TypeOK'
  BY <1>1, <1>2 DEF TypeOK
<1>5. ValueIsNext' /\ SkippedDelivered'
  BY <1>1, <1>2, <1>3 DEF ValueIsNext, SkippedDelivered
<1>6. UuidsGenerated'
  BY <1>1, <1>2 DEF UuidsGenerated
<1>7. UuidsOwned'
  BY <1>1, <1>2 DEF UuidsOwned
<1>8. NotYetSubmitted'
  BY <1>1, <1>2 DEF NotYetSubmitted
<1>9. StateIsLastForeign'
  <2> SUFFICES ASSUME NEW r \in Replicas PROVE LastForeign(r)'
    BY DEF StateIsLastForeign
  <2>1. \A i \in Handled(r) : i \in 1..Len(log) /\ log'[i] = log[i]
    BY <1>2, <1>3 DEF Handled
  <2>2. LastForeign(r) /\ Handled(r)' = Handled(r)
    BY <1>1 DEF StateIsLastForeign, Handled
  <2>. QED
    BY <1>1, <2>1, <2>2 DEF LastForeign
<1>10. InstanceNamesState'
  BY <1>1, <1>2, <1>3 DEF InstanceNamesState, TypeOK
<1>11. RunsPending'
  BY <1>1, <1>2, <1>3 DEF RunsPending, Handled
<1>. QED
  BY <1>4, <1>5, <1>6, <1>7, <1>8, <1>9, <1>10, <1>11

(* Taking the mutex and reading the next value.                            *)
LEMMA OnDeliverInv ==
  ASSUME IInv, NEW r \in Replicas, OnDeliver(r) PROVE IInv'
<1> USE DEF IInv, submitVars, faults
<1>1. delivered[r] \in Nat /\ delivered[r] + 1 \in 1..Len(log)
      /\ log[delivered[r] + 1] \in Messages
  BY LogTyped DEF OnDeliver, TypeOK
<1>2. TypeOK'
  BY <1>1 DEF OnDeliver, TypeOK
<1>3. ValueIsNext' /\ SkippedDelivered'
  BY <1>1 DEF OnDeliver, ValueIsNext, SkippedDelivered, TypeOK
<1>4. UuidsGenerated' /\ UuidsOwned' /\ NotYetSubmitted' /\ RunsPending'
  BY DEF OnDeliver, UuidsGenerated, UuidsOwned, NotYetSubmitted, RunsPending, Handled
<1>5. StateIsLastForeign' /\ InstanceNamesState'
  BY DEF OnDeliver, StateIsLastForeign, LastForeign, Handled, InstanceNamesState
<1>. QED
  BY <1>2, <1>3, <1>4, <1>5

(* A replica's own group ends its run and leaves its state alone.          *)
LEMMA DeliverOwnInv ==
  ASSUME IInv, NEW r \in Replicas, DeliverOwn(r) PROVE IInv'
<1> USE DEF IInv, faults
<1>1. /\ delivered[r] \in Nat
      /\ delivered[r] + 1 \in 1..Len(log)
      /\ value[r] = log[delivered[r] + 1]
      /\ value[r] \in Messages
  BY NextValue DEF DeliverOwn
<1>2. /\ value[r].sender = r
      /\ delivered' = [delivered EXCEPT ![r] = delivered[r] + 1]
      /\ value' = [value EXCEPT ![r] = NULL]
      /\ detected_states' =
           [detected_states EXCEPT ![r] = detected_states[r] \ {value[r].uuid}]
      /\ UNCHANGED <<nodes, submitting, runs, skipped, paxos_state, instance_id,
                     in_flight, log, faults>>
  BY DEF DeliverOwn, Own, RunEnded, Return
<1>3. TypeOK'
  BY <1>1, <1>2 DEF TypeOK, DeliverOwn, Unlock
<1>4. ValueIsNext' /\ SkippedDelivered'
  BY <1>1, <1>2 DEF ValueIsNext, SkippedDelivered, TypeOK
<1>5. UuidsGenerated' /\ UuidsOwned' /\ NotYetSubmitted'
  BY <1>2 DEF UuidsGenerated, UuidsOwned, NotYetSubmitted, TypeOK
<1>9. \A q \in Replicas :
        Handled(q)' = IF q = r THEN Handled(r) \cup {delivered[r] + 1} ELSE Handled(q)
  BY <1>1, <1>2 DEF Handled, SkippedDelivered, TypeOK
<1>6. StateIsLastForeign'
  <2> SUFFICES ASSUME NEW q \in Replicas PROVE LastForeign(q)'
    BY DEF StateIsLastForeign
  <2>1. LastForeign(q)
    BY DEF StateIsLastForeign
  <2>2. CASE q = r
    BY <1>1, <1>2, <1>9, <2>1, <2>2 DEF LastForeign
  <2>3. CASE q # r
    BY <1>2, <1>9, <2>1, <2>3 DEF LastForeign, TypeOK
  <2>. QED
    BY <2>2, <2>3
<1>7. InstanceNamesState'
  BY <1>1, <1>2 DEF InstanceNamesState, TypeOK
<1>8. RunsPending'
  <2>1. value[r].uuid # submitting[r] \/ submitting[r] = NULL
    BY <1>1 DEF NotYetSubmitted
  <2>2. ASSUME NEW q \in Replicas, NEW i \in Handled(q)'
        PROVE  log[i].uuid \notin detected_states'[q]
    <3>1. CASE q = r /\ i = delivered[r] + 1
      BY <1>1, <1>2, <3>1 DEF TypeOK
    <3>2. CASE i \in Handled(q)
      BY <1>2, <3>2 DEF RunsPending, TypeOK
    <3>. QED
      BY <1>9, <2>2, <3>1, <3>2
  <2>. QED
    BY <1>2, <2>1, <2>2 DEF RunsPending, TypeOK
<1>. QED
  BY <1>3, <1>4, <1>5, <1>6, <1>7, <1>8

(* A group equal to the state is now the last foreign one.                 *)
LEMMA DeliverSameInv ==
  ASSUME IInv, NEW r \in Replicas, DeliverSame(r) PROVE IInv'
<1> USE DEF IInv, faults
<1>1. /\ delivered[r] \in Nat
      /\ delivered[r] + 1 \in 1..Len(log)
      /\ value[r] = log[delivered[r] + 1]
      /\ value[r] \in Messages
  BY NextValue DEF DeliverSame
<1>2. /\ value[r].sender # r
      /\ value[r].view = paxos_state[r]
      /\ delivered' = [delivered EXCEPT ![r] = delivered[r] + 1]
      /\ value' = [value EXCEPT ![r] = NULL]
      /\ UNCHANGED <<nodes, submitting, detected_states, runs, skipped, paxos_state,
                     instance_id, in_flight, log, faults>>
  BY DEF DeliverSame, Own, IsEqual, Return, submitVars
<1>3. TypeOK'
  BY <1>1, <1>2 DEF TypeOK, DeliverSame, Unlock
<1>4. ValueIsNext' /\ SkippedDelivered'
  BY <1>1, <1>2 DEF ValueIsNext, SkippedDelivered, TypeOK
<1>5. UuidsGenerated' /\ UuidsOwned' /\ NotYetSubmitted'
  BY <1>2 DEF UuidsGenerated, UuidsOwned, NotYetSubmitted
<1>9. \A q \in Replicas :
        Handled(q)' = IF q = r THEN Handled(r) \cup {delivered[r] + 1} ELSE Handled(q)
  BY <1>1, <1>2 DEF Handled, SkippedDelivered, TypeOK
<1>6. StateIsLastForeign'
  <2> SUFFICES ASSUME NEW q \in Replicas PROVE LastForeign(q)'
    BY DEF StateIsLastForeign
  <2>1. LastForeign(q)
    BY DEF StateIsLastForeign
  <2>2. CASE q = r
    <3>1. delivered'[r] = delivered[r] + 1 /\ paxos_state'[r] = log[delivered[r] + 1].view
      BY <1>1, <1>2 DEF TypeOK
    <3>2. \A j \in Handled(r)' : ~(j > delivered[r] + 1)
      BY <1>1, <1>9 DEF Handled
    <3>3. delivered[r] + 1 \in Handled(r)' /\ log' = log
      BY <1>2, <1>9
    <3>. QED
      BY <1>1, <1>2, <2>2, <3>1, <3>2, <3>3 DEF LastForeign
  <2>3. CASE q # r
    BY <1>2, <1>9, <2>1, <2>3 DEF LastForeign, TypeOK
  <2>. QED
    BY <2>2, <2>3
<1>7. InstanceNamesState'
  BY <1>1, <1>2 DEF InstanceNamesState, TypeOK
<1>8. RunsPending'
  <2>1. value[r].uuid \notin detected_states[r]
    BY <1>1, <1>2 DEF UuidsOwned
  <2>2. ASSUME NEW q \in Replicas, NEW i \in Handled(q)'
        PROVE  log[i].uuid \notin detected_states[q]
    <3>1. CASE q = r /\ i = delivered[r] + 1
      BY <1>1, <2>1, <3>1
    <3>2. CASE i \in Handled(q)
      BY <3>2 DEF RunsPending
    <3>. QED
      BY <1>9, <2>2, <3>1, <3>2
  <2>. QED
    BY <1>2, <2>2 DEF RunsPending
<1>. QED
  BY <1>3, <1>4, <1>5, <1>6, <1>7, <1>8

(* A new group becomes the state, with its instance.                       *)
LEMMA DeliverNewInv ==
  ASSUME IInv, NEW r \in Replicas, DeliverNew(r) PROVE IInv'
<1> USE DEF IInv, faults
<1>1. /\ delivered[r] \in Nat
      /\ delivered[r] + 1 \in 1..Len(log)
      /\ value[r] = log[delivered[r] + 1]
      /\ value[r] \in Messages
  BY NextValue DEF DeliverNew
<1>2. /\ value[r].sender # r
      /\ delivered' = [delivered EXCEPT ![r] = delivered[r] + 1]
      /\ value' = [value EXCEPT ![r] = NULL]
      /\ paxos_state' = [paxos_state EXCEPT ![r] = value[r].view]
      /\ instance_id' = [instance_id EXCEPT ![r] = delivered[r] + 1]
      /\ UNCHANGED <<nodes, submitting, detected_states, runs, skipped, in_flight, log,
                     faults>>
  BY DEF DeliverNew, Own, InstanceNoted, Return, submitVars
<1>3. TypeOK'
  <2>1. value[r].view \in SUBSET Replicas
    BY <1>1 DEF Messages
  <2>. QED
    BY <1>1, <1>2, <2>1 DEF TypeOK, DeliverNew, Unlock
<1>4. ValueIsNext' /\ SkippedDelivered'
  BY <1>1, <1>2 DEF ValueIsNext, SkippedDelivered, TypeOK
<1>5. UuidsGenerated' /\ UuidsOwned' /\ NotYetSubmitted'
  BY <1>2 DEF UuidsGenerated, UuidsOwned, NotYetSubmitted
<1>9. \A q \in Replicas :
        Handled(q)' = IF q = r THEN Handled(r) \cup {delivered[r] + 1} ELSE Handled(q)
  BY <1>1, <1>2 DEF Handled, SkippedDelivered, TypeOK
<1>6. StateIsLastForeign'
  <2> SUFFICES ASSUME NEW q \in Replicas PROVE LastForeign(q)'
    BY DEF StateIsLastForeign
  <2>1. LastForeign(q)
    BY DEF StateIsLastForeign
  <2>2. CASE q = r
    <3>1. delivered'[r] = delivered[r] + 1 /\ paxos_state'[r] = log[delivered[r] + 1].view
      BY <1>1, <1>2 DEF TypeOK
    <3>2. \A j \in Handled(r)' : ~(j > delivered[r] + 1)
      BY <1>1, <1>9 DEF Handled
    <3>3. delivered[r] + 1 \in Handled(r)' /\ log' = log
      BY <1>2, <1>9
    <3>. QED
      BY <1>1, <1>2, <2>2, <3>1, <3>2, <3>3 DEF LastForeign
  <2>3. CASE q # r
    BY <1>2, <1>9, <2>1, <2>3 DEF LastForeign, TypeOK
  <2>. QED
    BY <2>2, <2>3
<1>7. InstanceNamesState'
  <2> SUFFICES ASSUME NEW q \in Replicas, instance_id'[q] # 0 \/ paxos_state'[q] # {}
               PROVE  /\ instance_id'[q] # 0
                      /\ instance_id'[q] <= delivered'[q]
                      /\ log[instance_id'[q]].view = paxos_state'[q]
                      /\ log[instance_id'[q]].sender # q
    BY <1>2 DEF InstanceNamesState
  <2>1. CASE q = r
    BY <1>1, <1>2, <2>1 DEF TypeOK
  <2>2. CASE q # r
    BY <1>2, <2>2 DEF InstanceNamesState, TypeOK
  <2>. QED
    BY <2>1, <2>2
<1>8. RunsPending'
  <2>1. value[r].uuid \notin detected_states[r]
    BY <1>1, <1>2 DEF UuidsOwned
  <2>2. ASSUME NEW q \in Replicas, NEW i \in Handled(q)'
        PROVE  log[i].uuid \notin detected_states[q]
    <3>1. CASE q = r /\ i = delivered[r] + 1
      BY <1>1, <2>1, <3>1
    <3>2. CASE i \in Handled(q)
      BY <3>2 DEF RunsPending
    <3>. QED
      BY <1>9, <2>2, <3>1, <3>2
  <2>. QED
    BY <1>2, <2>2 DEF RunsPending
<1>. QED
  BY <1>3, <1>4, <1>5, <1>6, <1>7, <1>8

(* A failing lock leaves the value, the run and the state as they were.    *)
LEMMA FailsInv ==
  ASSUME IInv, NEW r \in Replicas, OnDeliverFails(r) \/ DeliverOwnFails(r)
  PROVE  IInv'
<1> USE DEF IInv, faults
<1>1. delivered[r] \in Nat /\ delivered[r] + 1 \in 1..Len(log)
  BY LogTyped, NextValue DEF OnDeliverFails, DeliverOwnFails
<1>2. /\ delivered' = [delivered EXCEPT ![r] = delivered[r] + 1]
      /\ skipped' = [skipped EXCEPT ![r] = skipped[r] \cup {delivered[r] + 1}]
      /\ value' = [value EXCEPT ![r] = NULL]
      /\ UNCHANGED <<nodes, submitting, detected_states, runs, paxos_state,
                     instance_id, in_flight, log, restarts>>
  <2>1. CASE OnDeliverFails(r)
    BY <2>1 DEF OnDeliverFails, Skip, Return, submitVars
  <2>2. CASE DeliverOwnFails(r)
    BY <2>2 DEF DeliverOwnFails, Skip, Return, submitVars
  <2>. QED
    BY <2>1, <2>2
<1>3. /\ listener_mutex' \in [Replicas -> {"free", "held", "left"}]
      /\ lock_failures' \in 0..MaxLockFailures
  <2>1. listener_mutex' \in [Replicas -> {"free", "held", "left"}]
    BY DEF OnDeliverFails, DeliverOwnFails, TypeOK
  <2>2. /\ lock_failures \in 0..MaxLockFailures /\ MaxLockFailures \in Nat
        /\ lock_failures < MaxLockFailures /\ lock_failures' = lock_failures + 1
    BY BoundsAreNat DEF OnDeliverFails, DeliverOwnFails, LockFails, TypeOK
  <2>. QED
    BY <2>1, <2>2
<1>4. TypeOK'
  <2>1. skipped' \in [Replicas -> SUBSET (1..Len(log))]
    BY <1>1, <1>2 DEF TypeOK
  <2>2. /\ delivered' \in [Replicas -> 0..Len(log)]
        /\ value' \in [Replicas -> Messages \cup {NULL}]
    BY <1>1, <1>2 DEF TypeOK
  <2>. QED
    BY <1>2, <1>3, <2>1, <2>2 DEF TypeOK, Messages
<1>5. ValueIsNext' /\ SkippedDelivered'
  BY <1>1, <1>2 DEF ValueIsNext, SkippedDelivered, TypeOK
<1>6. UuidsGenerated' /\ UuidsOwned' /\ NotYetSubmitted'
  BY <1>2 DEF UuidsGenerated, UuidsOwned, NotYetSubmitted
<1>7. \A q \in Replicas : Handled(q)' = Handled(q)
  BY <1>1, <1>2 DEF Handled, TypeOK
<1>8. StateIsLastForeign' /\ RunsPending'
  BY <1>2, <1>7 DEF StateIsLastForeign, LastForeign, RunsPending
<1>9. InstanceNamesState'
  BY <1>1, <1>2 DEF InstanceNamesState, TypeOK
<1>. QED
  BY <1>4, <1>5, <1>6, <1>8, <1>9

(* A restarted replica knows nothing and starts the log over.              *)
LEMMA RestartInv ==
  ASSUME IInv, NEW r \in Replicas, Restart(r) PROVE IInv'
<1> USE DEF IInv, faults
<1>1. TypeOK'
  BY BoundsAreNat, LogTyped DEF Restart, TypeOK
<1>2. ValueIsNext' /\ SkippedDelivered'
  BY DEF Restart, ValueIsNext, SkippedDelivered, TypeOK
<1>3. UuidsGenerated' /\ UuidsOwned' /\ NotYetSubmitted' /\ RunsPending'
  BY DEF Restart, UuidsGenerated, UuidsOwned, NotYetSubmitted, RunsPending, Handled, TypeOK
<1>4. StateIsLastForeign'
  <2> SUFFICES ASSUME NEW q \in Replicas PROVE LastForeign(q)'
    BY DEF StateIsLastForeign
  <2>1. LastForeign(q)
    BY DEF StateIsLastForeign
  <2>2. CASE q = r
    BY <2>2 DEF Restart, LastForeign, Handled, TypeOK
  <2>3. CASE q # r
    BY <2>1, <2>3 DEF Restart, LastForeign, Handled, TypeOK
  <2>. QED
    BY <2>2, <2>3
<1>5. InstanceNamesState'
  BY DEF Restart, InstanceNamesState, TypeOK
<1>. QED
  BY <1>1, <1>2, <1>3, <1>4, <1>5

(* Nothing changes.                                                        *)
LEMMA StutterInv ==
  ASSUME IInv, UNCHANGED vars PROVE IInv'
<1> USE DEF vars, submitVars, learnVars, faults
<1>1. TypeOK' /\ ValueIsNext' /\ SkippedDelivered' /\ UuidsGenerated' /\ UuidsOwned'
  BY DEF IInv, TypeOK, ValueIsNext, SkippedDelivered, UuidsGenerated, UuidsOwned
<1>2. NotYetSubmitted' /\ StateIsLastForeign' /\ InstanceNamesState' /\ RunsPending'
  BY DEF IInv, NotYetSubmitted, StateIsLastForeign, LastForeign,
     Handled, InstanceNamesState, RunsPending
<1>. QED
  BY <1>1, <1>2 DEF IInv

(* No step of any replica, of Paxos or of a crash breaks the invariant.    *)
LEMMA StepInv == IInv /\ [Next]_vars => IInv'
BY DetectInv, SubmitInv, ChooseInv, OnDeliverInv, DeliverOwnInv,
   DeliverSameInv, DeliverNewInv, FailsInv, RestartInv, StutterInv DEF Next, Learn

(* IInv holds in every reachable state.                                    *)
THEOREM Invariance == Spec => []IInv
BY InitInv, StepInv, PTL DEF Spec

(* Every variable has its type.                                            *)
THEOREM TypeCorrect == Spec => []TypeOK
BY Invariance, PTL DEF IInv

(* A replica's state is the last group of another replica it delivered,    *)
(* through duplicates, losses and restarts.                                *)
THEOREM LearnsLastForeign == Spec => []StateIsLastForeign
BY Invariance, PTL DEF IInv

(* instance_id names the instance the state came from.                     *)
THEOREM InstanceIdCorrect == Spec => []InstanceNamesState
BY Invariance, PTL DEF IInv

(* A run waited for has not come back; one being submitted is waited for.  *)
THEOREM RunsEndOnce == Spec => []RunsPending
BY Invariance, PTL DEF IInv

(* After a foreign group the state is that group, for whoever delivered    *)
(* it.                                                                     *)
LEMMA AgreementFollows == IInv => Agreement
<1> SUFFICES ASSUME IInv, NEW r \in Replicas, NEW s \in Replicas,
                    delivered[r] = delivered[s],
                    delivered[r] \in Handled(r) \cap Handled(s),
                    log[delivered[r]].sender \notin {r, s}
             PROVE  paxos_state[r] = paxos_state[s]
  BY DEF Agreement
<1>1. \A q \in Replicas :
        delivered[q] \in Handled(q) /\ log[delivered[q]].sender # q =>
          paxos_state[q] = log[delivered[q]].view
  <2> SUFFICES ASSUME NEW q \in Replicas, delivered[q] \in Handled(q),
                      log[delivered[q]].sender # q
               PROVE  paxos_state[q] = log[delivered[q]].view
    OBVIOUS
  <2>1. delivered[q] \in Nat /\ LastForeign(q)
    BY LogTyped DEF IInv, StateIsLastForeign
  <2>2. \A i \in Handled(q) : i \in 1..delivered[q]
    BY DEF Handled
  <2>. QED
    BY <2>1, <2>2 DEF LastForeign
<1>. QED
  BY <1>1

(* Replicas agree on the groups of third replicas.                         *)
THEOREM ReplicasAgree == Spec => []Agreement
BY Invariance, AgreementFollows, PTL
==============================================================================
