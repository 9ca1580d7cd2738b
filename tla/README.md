# A verification project for the HONS failure detector

The program is a distributed failure detector in C.  Every node broadcasts a beacon each
`HEARTBEAT_INTERVAL` (50 ms), estimates from the beacons of each peer when the next one is due, takes a peer
whose timer runs out from its membership group, and submits every new group to a Paxos replica (libpaxos)
that runs inside the same process.  The TLA+ modules here model the program's own code; libpaxos, the
kernel, CZMQ and libevent are modelled only by how that code uses them.

Paths are relative to the repository; `fd.c` below stands for `src/failure_detector_main.c`, `replica.c` for
`src/paxos_replica.c`, `delay.c` for `src/adaptive_delay_model.c`.

## 1. Inventory

| Component | State it keeps | Operations |
| --- | --- | --- |
| Beacon loop (`main`, fd.c) | hash table `nodes` of `node_struct` (address, `timer_id`, delay metadata), `silenced` | receive a beacon, look the sender up, add it or restart its timer, obey the orchestrator |
| Timeout handler (`handle_timeout`, fd.c) | the same table, under `hashmap_lock` | find a node by address, delete it, submit the group |
| Timer manager (`src/timer.c`) | list `g_head` of `timer_node` (descriptor, callback, copy of its argument) under **no** lock | `start_timer`, `stop_timer`, the timer thread's collect / poll / read / look up / call back loop, start and termination |
| Adaptive delay model (delay.c) | per peer: two windows of normalised arrivals with rolling sums, a window of gaps, an average, the next timeout | `init_adaptive_timeout_struct`, `estimate_next_delay` |
| Paxos glue (replica.c) | `detected_states` (runs started), `paxos_state_array` (group learned), `instance_id`, two mutexes | `paxos_serialize_and_submit`, `on_deliver`, start-up handshake, SIGINT handler, clean-up |
| Lists and serialisation (`src/utils.c`) | none | `serialize_hash`, `deserialize_hash`, `is_equal_lists`, `copy_list`, `ip_to_id`, printing |
| Orchestrator (`src/test_orchestrator.c`) | none | broadcasts an address: the host of that address is to be silenced or restarted |
| libpaxos | the log of chosen values | external (git submodule) |
| uthash (`src/include/uthash.h`, vendored) | behind `nodes` and `detected_states`: buckets, chains, the list of insertion order | find, add (doubling the buckets), delete, iterate, sort |
| TPL (`src/tpl.c`, vendored) | a map of the fields of a message | map, pack, dump, load with its checks, unpack |
| `time_rdtsc.h`, `proposer_timeout.c` | -- | unused, outside the build |

**How they interact.** A process has three threads of its own.

* The *main thread* receives beacons.  Under `hashmap_lock` it updates the table and calls `stop_timer`,
  `estimate_next_delay`, `start_timer` and, for a new peer, `paxos_serialize_and_submit`.
* The *timer thread* walks the timer list without a lock and calls `handle_timeout`, which takes
  `hashmap_lock` only then.
* The *Paxos thread* runs libevent and calls `on_deliver`, under `paxos_listener_mutex`; it shares
  `detected_states` with the submitting threads under `detected_states_hashmap_lock`.

**What is hard.** (a) The timer list is shared with no lock and its nodes are freed while the timer thread
may hold one.  (b) A descriptor number is an identity only while it is open: `close` and `timerfd_create` can
hand the same number to another timer between two steps of the timer thread.  The number chosen is not
determined by the program alone, because zlog, libevent and zbeacon open and close descriptors in their own
threads.  (c) `read` of a timerfd that has not expired blocks the only timer thread.  (d) An expiry already
read is acted on after a wait for the lock, by address, whatever happened to that peer meanwhile.  (e) A
timer that expired is neither stopped nor unlinked.  (f) Values submitted to Paxos are lost, chosen twice and
learned again after a restart; a replica skips its own.  (g) A timeout is a double cast to `unsigned int`.
(h) Start-up and shut-down order of mutexes and threads; a cancelled thread keeps its mutexes.  (i) The hash table
is sorted each time it is serialised, between additions and deletions.  (j) The size of a message is summed up
apart from the code that writes it, and what arrives must be refused unless it is whole.

`PROJECT.json` lists each hazard at its line with the properties that would catch it.

**What makes each component correct.**

* Beacon loop and timeouts: the group never loses the host itself; each change is one peer and is submitted in
  the same critical section (`GroupMembership`); a node under the main thread's hands is not freed; a silent
  peer is removed, unless the timer thread has read the same expiry twice, which ends detection; a peer leaves only on its own current timeout (does not hold).
* Timer manager: `stop_timer` is only ever given the node's own live timer; live timers have open descriptors
  of their own; the unlocked walk of the list ends and misses no running timer; termination releases every
  timer; the callback called is of a timer that expired, the list fits in the poll array, and termination
  returns (these three do not hold).
* Delay model: the rolling sums and average equal their definitions over the windows; a steady peer whose
  gap is within the fixed first timeout is given more than one gap, always; the estimate is a usable timeout (does not hold).
* Paxos glue: a replica's state is the last chosen group of another replica, also after a restart; replicas
  that handled the same instances agree about third replicas; `instance_id` names where the state came from;
  a run is registered until its group comes back; `on_deliver` gives its mutex back on each return (the return at
  replica.c:133 does not: a replica that takes it learns nothing more).
* Tables and messages: the table finds exactly its members, in whatever order they came; what one process
  serialises another one reads back whole or refuses; equal lists are equal groups.
* Start-up and shut-down: the handshake survives spurious wake-ups; nobody uses a mutex before it exists or
  after it is gone, or waits for one a dead thread has kept; SIGTERM ends the process.

## 2. Plan

Done, in this order:

1. `GroupMembership` -- what a process promises (abstract specification).
2. `FailureDetector` -- main thread, timer thread, timer list and timerfds; it implements `GroupMembership`.
3. `FailureDetectorProofs` -- its inductive invariant and the refinement, proved.
4. `MembershipReplica` -- the Paxos glue of all processes over lossy, duplicating submission, with restarts.
5. `MembershipReplicaProofs` -- its inductive invariant and what follows from it, proved.
6. `AdaptiveDelay` -- the arithmetic of the timeouts, against reference definitions.

7. `TimerList` -- the timer list as pointers, read by read and store by store, and its termination.
8. `Lifecycle` -- handshake, initialisation and destruction of mutexes, signals, cancellation, clean-up.
9. `HashTable`, `Tpl`, `GroupCodec` -- the table a group is kept in, the bytes it travels as, and their use.
10. `TimerListProofs` -- the list and its walks, proved for every heap.
11. `SumTheorems`, `AdaptiveDelayProofs` -- sums over finite sets; the windows, the average and the timeout of a
    steady peer, proved for every window size.
12. `LifecycleProofs` -- the invariants of start-up and shut-down, by an inductive invariant.
13. `HashTableProofs` -- each macro of uthash keeps the table in order, merge sort and expansion included, for every
    number of elements and buckets and every hash function.
14. `GroupCodecProofs` -- the invariants of the table, the message and the list, for every set of addresses.

To come:

15. `MembershipSystem` -- several `GroupMembership` processes, the beacons between them, the orchestrator and
    `MembershipReplica` composed, with `ip_to_id`.

## 3. The modules

### GroupMembership (abstract)

`members` is the group, `announced` the last view given to Paxos.  A step adds or removes one peer and
announces the result in the same step.  Nothing else may happen.

### FailureDetector

The variables are the program's, by its names: `nodes` and `timer_id` are the hash table, `timers` the nodes
linked behind `g_head`, `fd` and `user_ip` the fields of `timer_node` at each heap address (they stay after
`free`, as they do in memory), `mpc` and `tpc` the program counters.  `timerfd` is the kernel's state of each
descriptor and `held` the state of a timerfd that a blocked `read` keeps alive after its number was closed.

One action per point between which the other thread can act on something shared:

| Code | Actions |
| --- | --- |
| `zstr_recvx`, own beacons dropped | `Receive` |
| lock, `HASH_FIND`, `HASH_ADD` | `FindKnown`, `AddNew` |
| `stop_timer` | `StopTimer` (close, unlink, free; nothing for a `timer_id` of 0) |
| `start_timer` up to `timerfd_settime`, or its return of 0 | `CreateTimer`, `CreateTimerFails` |
| link into the list, keep the id, submit, unlock, obey a command | `InsertTimer` |
| copy descriptors node by node, `poll` | `StartWalk`, `CollectFd`, `StartOver`, `Poll` |
| `read`: an expiry, an error, or a wait | `Read`, `ReadReturns` |
| `_get_timer_from_fd` | `Lookup` |
| the callback, through a pointer that may be stale | `Call` |
| `handle_timeout` | `HandleTimeout`, `HandleStale` |
| the clock, the network | `Expire`, `ExpireHeld`, `FallSilent` |

`handle_timeout` and the insertion are single steps because everything they touch besides the list insertion
is under the lock, and the insertion is one store to `g_head` after the node is filled in.  `stop_timer` is
one step here and store by store in `TimerList`, whose `ListIsTimers` is what justifies the set.

The timer thread's walk (timer.c:133-142) is a step for each node.  `walk` is the set of nodes still ahead of it,
which it may take in any order.  It goes on over nodes that are stopped meanwhile, since a freed node keeps its
`next`.  A node the walk stands on or has ahead of it that `start_timer` gets again and makes the head of the list
(`relinked`) leads the walk back to the head: `StartOver`.  Descriptors are then collected a second time, so `ufds` and
`revents` count the entries of each, and the second `read` of a single-shot timer's one expiry blocks for good: `Stuck`.
`MaxRestarts` bounds how often one walk starts over.

A crash through a
freed node is undefined behaviour the model does not follow: every behaviour of `Spec` may stop after any step,
and no safety property is about what comes after.  Delay and loss of beacons need no action of their own: they are
beacons received later or never.

`poll` is one step that looks at the descriptors as they are when it returns.  The kernel keeps a timerfd that
is closed while `poll` waits alive until it returns, so it may still report it; what follows is what the model
has when the expiry came just before the close.  The array is visited in any order, which includes the code's
newest-first.

After a silence and a restart the code leaves `silenced` set, so a third command cannot silence the node again;
no comment says what it should do, and no property speaks of it (`Toggle` has the branch as it is).

### MembershipReplica

All processes with their learners and the log.  `Detect` and `Submit` are the two halves of
`paxos_serialize_and_submit` (the run is registered under its own mutex, then the group is serialised and
submitted; `hashmap_lock` is held from one to the other, so the group cannot change between them).
`OnDeliver` takes the listener mutex; `DeliverOwn`, `DeliverSame`, `DeliverNew` are the three ways
`on_deliver` ends with its locks.  `OnDeliverFails` and `DeliverOwnFails` are its two returns after a
`pthread_mutex_lock` that fails; the value is `skipped`, and the second one leaves `listener_mutex` locked (`"left"`),
so that the next call waits for ever.  `Choose` is libpaxos: any submitted value may be chosen, more than once, or
never, which is how one is lost.  `Restart` is a crash and a new start: `init_state` puts `instance_id` to 0 and the learner starts from
the first instance again (`paxos.conf`: the learner catches up from past instances by default).

A group is a set: the list `deserialize_hash` returns is in the reverse of the sorted order for every message,
so element-wise comparison in `is_equal_lists` is equality of sets, except that it never finds two empty lists
equal; that exception is in `IsEqual`.

Worth knowing, though no comment of the code claims the contrary: a replica skips its own chosen groups, so
the states of *all* replicas need not be equal even when all have delivered the same log; `Agreement` speaks
of third replicas for this reason.  `DeliverOwn` frees the run before `HASH_DEL` reads its links (replica.c:149-151);
where the process crashes on that, it is a `Restart`.

### AdaptiveDelay

One peer's metadata.  Times are integers of milliseconds, derived quantities integers of 1/`Scale`
milliseconds, with `Scale` a square of a common multiple of the numbers of samples so that both divisions are
exact; the rounding of doubles is abstracted away.  `poisoned` is the fact that the uninitialised average read
at the first beacon was a NaN.  `Interval` is what `(unsigned int) next_timeout` and `start_timer` make of the
value: below one millisecond it is zero and disarms the timerfd, which is the `"zero"` interval of
`FailureDetector`.  `Remove` is the timer running out: the peer's metadata is freed, and its next beacon is a first one.
The gap of `Beacon` may be longer than the timeout in force: when the process was stopped for a while, the main thread
may handle the beacons that queued up before the timer thread handles the expiry.

The timeout after the first beacon is fixed, twice `HEARTBEAT_INTERVAL`.  A peer that is slower than that is removed
after its first beacon, each time it comes back, however steady it is; `SteadyNotSuspected` is about the others.

### TimerList

`timer.c` alone, with its client reduced to one timer per peer.  A store of the main thread or a read of the
timer thread is one action: `Close`, `Unhead`, `Unlink`, `Free`, `Malloc`, `CreateTimerfd`, `Link`, `SetHead`;
`TestCancel`, `CollectFd`, `CollectNext`, `Poll`, `Read`, `Lookup`, `LookupNext`, `Call`.  The search for the
predecessor in `stop_timer` is one step with the store that follows it: only the main thread writes `next`.
A node keeps its memory after `free`, as it does in the allocators the program is built with, but for the first
word, `fd`, and perhaps the second, `callback`; `next` lies behind them.  So `Call` of a freed node has three outcomes:
the callback is still there and gets the stale argument, it is NULL and is not called, or what it has become is called
and the process crashes.  A walk that stands on such a node therefore goes
on to what followed it, and `WalkEnds` and `WalkCoversTimers` hold *because* of that: the mutant of the second is
a `free` that clears the node.  The allocator may reuse the address at once, and then a walk restarts from the new
head: it sees descriptors twice, which is how `stuck_termination` comes about.  `terminate_timer_manager` runs
without `hashmap_lock`, so a `handle_timeout` may come in between (`LockFree`).

### Lifecycle

The three threads from the first line of `main` to its last, with each mutex's `status` and `owner`.  A label of
`pc` is the point before the step of that name.  What happens between start and end is reduced to which mutex is
taken in which order; `Locks`, `Unlocks` and `Goes` are the three kinds of plain steps.  Modelled as they are:
`pthread_cond_wait` may wake up without a signal; CZMQ's signal handlers set `zctx_interrupted`, but while
libevent runs, SIGINT ends libevent's loop instead (`EndsLoop`), which stops the Paxos thread and not `main`; the
timer thread can be cancelled at `pthread_testcancel` only, the Paxos thread at any cancellation point, also
inside `on_deliver`, and keeps the mutexes it holds; events that are active when the loop is told to exit are still
delivered.  A mutex cannot be locked once it is destroyed, and only then, so the return of replica.c:133 is in
`LockOwnRun` but not reachable here (`MembershipReplica` has failures of a live mutex).  Use of freed memory is `GotoOrCrash`: the program goes on
or crashes.  So after SIGINT the properties exempt what the code plainly does (`signalled`): `main` and the timer
thread go on submitting to a freed replica.  Using `hashmap_lock` before its initialisation is harmless on
the platforms the program is built for, where a zeroed mutex is an initialised one.

### HashTable, Tpl, GroupCodec

`HashTable` has one operator per macro of uthash that the program uses, on a table `[head, tbl, hh]` with both of its
doubly linked lists.  `hh` is a record of functions, one for each field of a handle (`hh.next[e]` is `e->hh.next`), so
that a macro's stores are `EXCEPT`s of these functions.  `HASH_ITER` with `HASH_DEL` is `AllDeleted`; `HASH_SORT` is its
bottom-up merge sort (`Taken` takes one element of a merge, `Run` and `Pass` are the inner and the outer loop, `Relinked`
the stores to the links and the tail).  The hash value is a parameter.

`Tpl` has `tpl_map`, `tpl_pack`, `tpl_dump`, `tpl_load` and `tpl_unpack` for the formats that occur: `c` with `#`,
and one level of `A(...)`.  An image is a sequence of cells (a field with its width) and the size the reader is told.
Sizes are counted as the code counts them, so `DumpFillsBuffer` compares two independent sums.  `Sanity` has the checks
of `tpl_sanity` in their order; `SerlenAtoms` states what a loop over `n` fields of fixed length finds: all of them end
within the buffer, or it fails.

A loop is a function from the number of turns made to the state after them, with a finite domain
(`at[n] == IF n = 0 THEN ... ELSE Step(at[n - 1])`): `Steps`, `MovedUpTo`, `Turns`, `MergeSteps`, `Passes`, `MapSteps`,
`PackedUpTo`, `Offsets`, `Serlen`, `UnpackAll`.  Where the code's loop ends on a condition, the state stays as it is from
there on, and the domain is large enough for any list of `Elements`.

`GroupCodec` composes both as `utils.c` does and lets one process add and delete peers in every order, sorting and
serialising after each change as `paxos_serialize_and_submit` does, and another one learn the values or miss them.
Lengths are unbounded integers: a group would need 2^28 addresses to overflow the 32 bits of the length word.

## 4. The runs

| Run | Instance | Shows |
| --- | --- | --- |
| `detector_safety` | 2 peers, 2 heap addresses, 3 descriptors, both kinds of interval, commands, 1 restart of a walk; 1,296,893 states | the table, the list and the kernel stay consistent and the process implements `GroupMembership` |
| `detector_liveness` | 2 peers, 2 addresses, 2 descriptors, every interval positive, 1 restart of a walk; 698,824 states, fair | a watched peer that falls silent is removed, unless an expiry is read twice |
| `replica` | 3 replicas, 2 runs, 2 instances, 1 restart, 1 failed lock; 486,615 states, fair | what replicas learn, and that every chosen group reaches every replica, but one that has left its mutex locked |
| `delay_windows` | windows of 2 and 3, gaps of 0, 1, 50, 99 and 400 ms, 8 beacons; 195,314 states | sums and average equal their definitions before, while and after the windows wrap; a steady peer is never given too little time |
| `group_codec` | 4 addresses, 3 hash functions, tables from 1 to 16 buckets; 1,495 states | the table is sound after every operation; groups survive the wire whole or are refused |
| `timer_list` | 2 peers, 3 addresses, 3 descriptors, 4 starts; 321,971 states | the unlocked list is right after every store; walks end and miss nothing; termination releases all |
| `lifecycle` | no parameters; 1,628 states, fair | start-up and shut-down |

Five runs show where the code does not do what a line of it says; TLC finds each violated.

| Run | Violated | Because |
| --- | --- | --- |
| `late_timeout` | a peer leaves only on its own timeout | `handle_timeout` waits for the lock with an expiry a beacon has overtaken, then finds the peer by address |
| `wrong_timer` | the timer called back has expired | the descriptor was closed and reused between `read` and the lookup |
| `leaked_timers` | the list fits the poll array | an expired timer is never unlinked; one flapping peer is enough |
| `stuck_termination` | `terminate_timer_manager` returns | a walk that restarts through a reused node collects a descriptor twice; the second `read` blocks, with cancellation disabled |
| `timeout_too_short` | the timeout is at least a millisecond | a first gap of a second (the process was stopped, and handles the beacons that queued up before the expiry), then beacons a millisecond apart: at the sixth the freshness point is in the past |

**Bounds.**  Two peers are the smallest number for which a descriptor can pass from one peer's timer to
another's.  Two addresses allow a leaked timer next to a live one, so that starts fail, addresses are reused under the
timer thread's hands and a walk is led back to the head; three descriptors allow a number that is closed to come back
or another one to be taken.  `MaxRestarts` 1 is enough for a walk to have each descriptor twice, and it keeps `ufds`
finite; nothing else of the model needs a bound.  Three replicas are needed for two to agree about a third; `MaxRuns` 2 gives groups of two
senders, or two of one, `MaxInstances` 2 both of them chosen in either order, or one of them twice.  `MaxLockFailures` 1 lets either lock
fail at any one delivery, before or after a restart.  Windows of 2 and 3 with 8 beacons wrap both,
at different beacons; of the gaps, 1 and 50 lie below and at the interval, 99 just within the first timeout, and 400 is
a stall; the run about short timeouts uses the real sizes, 10 and 10000.

In `group_codec` the initial number of buckets and the capacity of a chain are 1, where uthash has 32 and 10, so that
four addresses are enough for expansions, ineffective ones and the end of expanding; one of the hash functions puts
all keys in one bucket, one lets two of them part only when the buckets double.  In `timer_list` four starts over
three addresses let a node be unlinked, freed and reused under one walk, with another timer in front of it and
one behind.

**Symmetry** is used in `detector_safety` and `timer_list`, over sets no action or property tells apart.

**Deadlock.**  The runs of `FailureDetector` turn the check off: when all peers are silent, and all of the timers
disarmed or the timer thread blocked for good on a second `read`, the process really waits for ever.  `lifecycle` ends when `main` has
returned or crashed.  The others stop at their bounds.

**Fairness.**  `FairSpec` of `FailureDetector` assumes that each thread that can run does
(`WF(MainStep)`, `WF(TimerStep)`), that armed timers expire, and *strong* fairness of taking the lock in
`handle_timeout`: the mutex is not fair, but the main thread releases it after each beacon and spends its time
waiting for the next.  Nothing is assumed about the network: `Receive` has no fairness.
`SilentPeerDetected` is about watched peers, whose last beacon has been handled and armed a timer; without
zero intervals, since a disarmed timer defeats it at once.  What it promises is that the peer leaves the group or the
timer thread is `Stuck`, on the second `read` of one expiry.  That exception is not for convenience: the state is
reachable, detection has then ended for good, and `stuck_termination` shows the same in `TimerList`.  Every other
wait of the thread, for a recycled descriptor or a closed one, ends.  In `MembershipReplica` only the learners are fair; nothing is assumed of Paxos.  In
`TimerList` both threads and the clock are weakly fair, which makes its counterexample one of a running system.
`Lifecycle` assumes strong fairness of each thread: one that waits for a mutex that is released again and again
gets it; and of the Paxos thread leaving the loop, as a round of libevent has finitely many events.  Beacons, deliveries, signals and spurious wake-ups may come or not.

## 5. The proofs

`FailureDetectorProofs` proves, for every set of peers, heap and descriptors:

* `TypeCorrect`, `SelfNeverLeaves`, `NodeStays`, `TimerOwned`, `DescriptorOwned` -- the five invariants;
* `Refinement` -- the specification implements `GroupMembership`.

Assumptions: the host is not one of its peers, `NULL` is not an address, the kinds of intervals and commands, a
number for `MaxRestarts`.
The inductive invariant `IInv` adds to the five:
`MainHoldsLock` (the lock is held exactly at the program counters of the critical section; without it the two
threads' steps could not be told apart), `PeersOnly` (an address handed to `handle_timeout`, even out of freed
memory, was once a peer's: this is why the host can never remove itself), `BlockedOnDescriptor`,
`NewTimer` (the timer under construction is in no list and has its own open descriptor, which makes its
insertion safe) and `StopsKnown` (only a node that was in the table has its timer stopped, which the mapping of
a peer being added needs).  For the refinement, each action is a stutter of `GroupMembership` except
`InsertTimer` of a new peer (`Join`) and `HandleTimeout` (`Leave`).

`MembershipReplicaProofs` proves, for every number of replicas, runs, instances, restarts and failed locks:
`TypeCorrect`, `LearnsLastForeign`, `InstanceIdCorrect`, `RunsEndOnce` and `ReplicasAgree`.  The strengthening is
`ValueIsNext` (the value being handled is the next of the log), `UuidsGenerated`, `UuidsOwned` (a run waits in
the table of its sender only) and `NotYetSubmitted`; they are what excludes that a run delivered back is still
registered.  `SkippedDelivered` says that only instances on_deliver was called for are skipped.  `ReplicasAgree` needs
no induction of its own: two replicas whose last handled group came from a third both have exactly that group.

`TimerListProofs` proves, for every heap, every set of peers and descriptors and any number of timers:
`ListCorrect`, `WalksEnd`, `WalksCover` and `TerminationReleases`.  A path is defined as the least closed set with
its first node, so no induction along pointers is needed.  The invariant behind the four is that *no* set of
nodes in the whole heap, freed ones included, leads only to itself (`Acyclic`).  `SkipKeepsPaths` and
`LinkKeepsPaths` say what the two stores to `next` do to the path from any address: it loses nothing but the node
skipped, and keeps what it had of the list although stale nodes may lead to the new one.  They are what carries a
walk over the steps of the main thread (`WalkInv`).  `MemoryInv`, `DescriptorInv` and `TableInv` tie the list to the
allocator, the kernel and the client's table.  `TypeCorrect` adds `RoundInv`: wherever the thread has an entry of the
polled array before it, the array is not empty, and what a blocked `read` keeps of a closed descriptor was open.

`AdaptiveDelayProofs` proves, for all window sizes with the first no larger than the second, every beacon interval,
every sequence of gaps, removals and returns, and every number of beacons: `TypeCorrect`, `SumsCorrect`, `AverageCorrect` and `SteadySafe`.
Assumed are a positive interval (`HEARTBEAT_INTERVAL` is 50), a clock that does not go back (`zclock_usecs` is
monotonic) and a unit of measure that is a positive number; that the unit divides evenly (`UnitDivides`) is needed
for TLC's numbers to mean milliseconds, not by a proof.  The code never adds up a window: each beacon adds its value
and subtracts the one it overwrites.  So the sums can only be right if the value in that slot is the one of the beacon
a window ago (`RingsKept`, with `SlotsDiffer` and `SlotReused` about remainders), and the invariant carries, besides
the properties, that arrivals are in order (`Times`) and that the gaps in the window add up to the time it spans
(`TotalIsSpan`, a telescoping sum).  `RolledSum` is the step of one ring.  For a steady peer the normalised
arrivals are all 0 but the second, which still has the nominal interval for its average (`SteadyValues`); so each
window's sum is one of two values (`SteadySum`) and the estimate exceeds the gap by a millisecond with either
(`SteadyExpected`, `DivMore`).  After the first beacon it is the fixed timeout that does (`TimeoutEstimated`), which is
where the bound on the gap comes from.  The theorem excepts a timeout that is a NaN: it starts no timer.
`SumTheorems` has what is needed of `SumFunctionOnSet` of the community modules: `SumEmpty`, `SumRemove`, `SumSame`.
It is a fold over a set whose elements are chosen in an order nobody knows; that the fold exists and that the order
does not matter are proved by induction on the number of elements, which is first-order here: a set of naturals with
0 and each successor is `Nat` (`NaturalsByInduction`, from the well-foundedness of `<`).

`LifecycleProofs` proves the invariants `TypeCorrect`, `HandshakeSafe`, `SubmitSafe`, `DestroySafe`, `LockLiveSafe` and
`GoneHoldsNothingWanted`.  `Lifecycle` has no constants, so TLC's run covers every case already; the proof says *why*
they hold.  The inductive invariant relates the stage of `main` to everything else: which threads exist and where
they can be (`Stages`), that the Paxos thread has left the handshake when `main` has (`Shaken`), the status of each
mutex (`Statuses`), its owner by the labels of the threads, and that a mutex kept by a thread that is gone was
kept by a cancelled Paxos thread (`Owners`), and why a thread or the replica has come to its end (`Ends`).  A crash
stops all threads at once and is not possible before the handshake is over (`CrashesTogether`, `HandshakeFree`).

`HashTableProofs` proves what the macros of uthash do to *any* table in order, for every finite set of elements, every
initial number of buckets, every capacity threshold and every hash value.  `TableIs(h, s)` says that `h` is a table
in order with the elements of the sequence `s`: the list of insertion order is `s`, linked in both directions and ended
by `tail`; each bucket's chain is such a list, of as many elements as it counts, and holds exactly the elements that hash
to it; no chain is longer than its `expand_mult` allows.  `AddedKeeps`, `DeletedKeeps`, `AllDeletedKeeps` and `SortKeeps`
take such a table to another one, for `Append(s, e)`, `s` without an element, `<<>>`, and an ascending sequence of the
same elements; `FindIs` and `FsckHolds` read it.  What is in the way of each:

* expansion moves every element to a new bucket, in the order of the old chains: after `n` elements, the new buckets hold
  the first `n` (`Moving`), and a chain that grows beyond the ideal length is paid for by its `expand_mult`
  (`MovedKeeps`, `DivBound`);
* `HASH_SORT` merges runs of `2^k` in place and walks its second run from where the first ended; `RunInOrder` and `PassIs`
  say that a pass doubles the sorted runs and loses nothing, and `AgainKeeps` that the loop stops only when the last pass
  had a single merge, that is when all is one run;
* `HASH_ITER` reads the successor before the element is deleted (`TurnKeeps`).

`GroupCodecProofs` proves all nine invariants of `GroupCodec`, for every set of addresses and every set of hash functions:
`TypeCorrect`, `TableIntact`, `FindCorrect`, `TailCorrect`, `ChainsStayBounded`, `BufferFilled`, `RoundTrips`,
`DamageRejected` and `ListFollowsGroup`.  The inductive invariant `Inv` has three parts.  `TableInv`: the table is in order
for some sequence of exactly the members, each with the hash value it was added with (`free_node_struct` clears the one
of a deleted node, which is why `FreedKeeps` is needed before a submission sorts the table); the process itself is a
member until `clean_up_hashmap`, so the list is never empty when it is sent.  `ValueInv`: the value is the image of an
ascending sequence of the group it was made of, and while the process runs, of the list of its table.  `ListInv`: the
receiver's list repeats nothing and has the group delivered last.  `IsImage(im, list)` describes an image cell by cell.
`SerializeIs` shows that `serialize_hash` makes one, through the map of three fields (`GroupMapIs`), the two packings of
the root, one packing for each address (`PackNext`) and the flattening of the array (`DumpIs`); `BytesOfImage` that its
cells fill the size `tpl_ser_osz` counted.  `ImageAccepted` takes such an image through the checks of `tpl_sanity`,
`DeserializeIs` through `tpl_unpack` to its end: each address is pushed in front of the others, so the list comes back
reversed (`ReadBackIs`).  `DamagedImage` finds, for each way of damaging an image, the check that fails.

Assumed are: the elements are natural numbers, in the order `strcmp` gives the addresses they stand for, and finitely
many; `NULL` is none of them; sizes are positive; the process has an address of its own (`SelfIsElement`); a hash value is
a natural number (`HashesAreFunctions`).  No bound on the buckets is used: `MaxBuckets` is for TLC only.

**Only model-checked:** the four liveness properties (`SilentPeerDetected`, `EveryReplicaCatchesUp`, `HandshakeEnds`,
`ShutsDown`), whose fairness needs `ENABLED`.  Every invariant and the refinement that a passing run checks is also proved.

## 6. What is not modelled

* The orchestrator's menu: terminal input.  Its effect on a process is `Receive` with a command.
* libpaxos: not in the repository; used by its effect.  A failing `evpaxos_replica_init` exits the process.
* TPL beyond the formats in use: strings, blobs and structures (`s`, `B`, `S`, `$`), nested arrays, files and
  descriptors, `tpl_gather`, foreign byte order, `tpl_free`.  uthash beyond the operations in use.
* Locks inside zlog and CZMQ that a cancelled thread might keep; descriptors other libraries open, which could
  take a number the timer thread is about to read.
* `ip_to_id` and the printing of `utils.c`.
* `proposer_timeout.c` is no target of the build; `time_rdtsc.h` is not used by the logic.
* Failures of `pthread_mutex_lock` on a live mutex elsewhere than in `on_deliver`; of `malloc` outside `start_timer`,
  and of `tpl` on well-formed values.
* Floating-point rounding.
