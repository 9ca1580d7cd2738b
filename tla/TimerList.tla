------------------------------ MODULE TimerList ------------------------------
(***************************************************************************)
(* timer.c at the level of its pointers: start_timer, stop_timer and the   *)
(* termination of the manager store by store in the main thread, and the   *)
(* timer thread's walks of the list read by read, with no lock between     *)
(* them.  FailureDetector has a set for this list and one step for a walk. *)
(*                                                                         *)
(* The memory of a timer_node is [fd, user_ip, next]; after free it keeps  *)
(* its content until start_timer gets the address again, except for the    *)
(* first word, which the allocator uses, fd, and perhaps the second, the   *)
(* callback, which is kept here as what a call of it does.                 *)
(* The client is failure_detector_main.c: one timer for each peer in the   *)
(* table, restarted by a beacon and forgotten by handle_timeout.           *)
(***************************************************************************)
EXTENDS Naturals, SequencesExt

CONSTANTS
  Peers,      \* addresses beacons come from
  Addrs,      \* heap addresses timer_nodes get
  Fds,        \* descriptors: enough that timerfd_create does not fail
  Armings,    \* what timerfd_settime does: "armed", and "disarmed" for zero
  MaxStarts,  \* bound: calls of start_timer
  NULL

ASSUME ArmingKinds == Armings \subseteq {"armed", "disarmed"}
ASSUME NullIsElsewhere == NULL \notin Addrs \cup Peers \cup Fds
ASSUME EnoughDescriptors == Cardinality(Fds) >= Cardinality(Addrs)
ASSUME StartsBound == MaxStarts \in Nat

VARIABLES
  g_head,       \* the first timer of the list
  heap,         \* the content of every address
  allocated,    \* the addresses malloc has given out
  timerfd,      \* the kernel: the state of each descriptor
  timer_id,     \* the client's table: NULL for a peer not in it
  mpc,          \* main thread: where it is
  node,         \* main thread: the timer_node it starts or stops
  peer,         \* main thread: the peer it does so for; NULL when terminating
  starts,       \* calls of start_timer so far
  tpc,          \* timer thread: where it is
  tmp,          \* timer thread: the pointer it walks with
  ufds,         \* timer thread: the descriptors collected
  ready,        \* timer thread: what of them it has yet to read after poll
  args,         \* timer thread: the address handle_timeout was given
  held,         \* what it is blocked on, once the descriptor was closed
  cancelled,    \* pthread_cancel was called
  timers,       \* history: the timers started and not stopped
  throughout    \* history: those that were so ever since the walk began

mainVars == <<mpc, node, peer, starts>>
threadVars == <<tpc, tmp, ufds, ready, args>>
vars == <<g_head, heap, allocated, timerfd, timer_id, mainVars, threadVars,
          held, cancelled, timers, throughout>>

memory == <<heap, allocated, timerfd>>
operation == <<node, peer, starts>>
others == <<threadVars, held, cancelled>>
history == <<timers, throughout>>

NoFd == NULL

(* The nodes met from n along next in a heap h: the least set that has n    *)
(* and, with a node, the one behind it.                                    *)
Closed(h, S) == \A a \in S : h[a].next \in S \cup {NULL}
Path(h, n) ==
  {a \in Addrs :
     \A S \in SUBSET Addrs : n \in S \cup {NULL} /\ Closed(h, S) => a \in S}

------------------------------------------------------------------------------
Init ==
  /\ g_head = NULL
  /\ heap = [a \in Addrs |-> [fd |-> NoFd, user_ip |-> NULL, next |-> NULL]]
  /\ allocated = {}
  /\ timerfd = [f \in Fds |-> "closed"]
  /\ timer_id = [p \in Peers |-> NULL]
  /\ mpc = "idle" /\ node = NULL /\ peer = NULL /\ starts = 0
  /\ tpc = "test" /\ tmp = NULL /\ ufds = <<>> /\ ready = <<>> /\ args = NULL
  /\ held = "none"
  /\ cancelled = FALSE
  /\ timers = {}
  /\ throughout = {}

------------------------------------------------------------------------------
(* The main thread.                                                        *)

(* A beacon: under hashmap_lock, the timer of a known peer is stopped, and *)
(* a new one started.                                                      *)
Receive(p) ==
  /\ mpc = "idle"
  /\ starts < MaxStarts
  /\ timer_id[p] # NULL \/ allocated # Addrs
  /\ starts' = starts + 1
  /\ peer' = p
  /\ node' = timer_id[p]
  /\ mpc' = IF timer_id[p] = NULL THEN "malloc" ELSE "close"
  /\ UNCHANGED <<g_head, memory, timer_id, others, history>>

(* stop_timer: the kernel keeps a file that is being read.                 *)
Close ==
  /\ mpc = "close"
  /\ timerfd' = [timerfd EXCEPT ![heap[node].fd] = "closed"]
  /\ held' = IF tpc = "blocked" /\ held = "none" /\ Head(ready) = heap[node].fd
             THEN timerfd[heap[node].fd] ELSE held
  /\ mpc' = "unhead"
  /\ UNCHANGED <<g_head, heap, allocated, timer_id, operation, threadVars,
                 cancelled, history>>

(* Move the head past the node.                                            *)
Unhead ==
  /\ mpc = "unhead"
  /\ g_head' = IF node = g_head THEN heap[node].next ELSE g_head
  /\ timers' = IF node = g_head THEN timers \ {node} ELSE timers
  /\ throughout' = IF node = g_head THEN throughout \ {node} ELSE throughout
  /\ mpc' = "unlink"
  /\ UNCHANGED <<memory, timer_id, operation, others>>

(* A mutant: no search for the node before.                                *)
LeftLinked(n) == heap

(* The node before n, if there is one, is made to skip it.                 *)
Skipped(n) ==
  [a \in Addrs |-> IF heap[a].next = n /\ a \in Path(heap, g_head)
                   THEN [heap[a] EXCEPT !.next = heap[n].next] ELSE heap[a]]

Unlink ==
  /\ mpc = "unlink"
  /\ heap' = Skipped(node)
  /\ timers' = timers \ {node}
  /\ throughout' = throughout \ {node}
  /\ mpc' = "free"
  /\ UNCHANGED <<g_head, allocated, timerfd, timer_id, operation, others>>

(* A mutant: the memory is cleared as well.                                *)
Zeroed(n) == [n EXCEPT !.fd = NoFd, !.next = NULL]

(* What the allocator leaves of a freed timer_node.                        *)
Freed(n) == [n EXCEPT !.fd = NoFd]

Free ==
  /\ mpc = "free"
  /\ heap' = [heap EXCEPT ![node] = Freed(@)]
  /\ allocated' = allocated \ {node}
  /\ mpc' = IF peer = NULL THEN "terminate" ELSE "malloc"
  /\ UNCHANGED <<g_head, timerfd, timer_id, operation, others, history>>

(* start_timer.                                                            *)
Malloc ==
  /\ mpc = "malloc"
  /\ \E a \in Addrs \ allocated :
       /\ node' = a
       /\ allocated' = allocated \cup {a}
       /\ heap' = [heap EXCEPT ![a].user_ip = peer]
  /\ mpc' = "create"
  /\ UNCHANGED <<g_head, timerfd, timer_id, peer, starts, others, history>>

CreateTimerfd ==
  /\ mpc = "create"
  /\ \E f \in {g \in Fds : timerfd[g] = "closed"}, arming \in Armings :
       /\ heap' = [heap EXCEPT ![node].fd = f]
       /\ timerfd' = [timerfd EXCEPT ![f] = arming]
  /\ mpc' = "link"
  /\ UNCHANGED <<g_head, allocated, timer_id, operation, others, history>>

(* A mutant: next is not set.                                              *)
NotLinked(n) == heap

LinkedBefore(n) == [heap EXCEPT ![n].next = g_head]

Link ==
  /\ mpc = "link"
  /\ heap' = LinkedBefore(node)
  /\ mpc' = "head"
  /\ UNCHANGED <<g_head, allocated, timerfd, timer_id, operation, others,
                 history>>

(* A mutant.                                                               *)
DescriptorReturned(n) == heap[n].fd

Returned(n) == n

(* The timer becomes the head, its id is kept and the lock released.       *)
SetHead ==
  /\ mpc = "head"
  /\ g_head' = node
  /\ timers' = timers \cup {node}
  /\ timer_id' = [timer_id EXCEPT ![peer] = Returned(node)]
  /\ mpc' = "idle" /\ node' = NULL /\ peer' = NULL
  /\ UNCHANGED <<memory, starts, others, throughout>>

(* terminate_timer_manager, called without a lock.                         *)
Terminate ==
  /\ mpc = "idle"
  /\ mpc' = "terminate"
  /\ UNCHANGED <<g_head, memory, timer_id, operation, others, history>>

(* A mutant: only the timers of peers in the table are stopped.            *)
NextToStopInTable ==
  LET known == {timer_id[p] : p \in Peers} \cap timers
  IN IF known = {} THEN NULL ELSE CHOOSE a \in known : TRUE

NextToStop == g_head

StopNext ==
  /\ mpc = "terminate"
  /\ NextToStop # NULL
  /\ node' = NextToStop
  /\ mpc' = "close"
  /\ UNCHANGED <<g_head, memory, timer_id, peer, starts, others, history>>

Cancel ==
  /\ mpc = "terminate"
  /\ NextToStop = NULL
  /\ cancelled' = TRUE
  /\ mpc' = "join"
  /\ UNCHANGED <<g_head, memory, timer_id, operation, threadVars, held,
                 history>>

Join ==
  /\ mpc = "join"
  /\ tpc = "gone"
  /\ mpc' = "joined"
  /\ UNCHANGED <<g_head, memory, timer_id, operation, others, history>>

------------------------------------------------------------------------------
(* The timer thread.                                                       *)

shared == <<g_head, heap, allocated, timer_id, cancelled, timers>>

(* The one point where it can be cancelled, then a new walk.               *)
TestCancel ==
  /\ tpc = "test"
  /\ IF cancelled THEN tpc' = "gone" /\ UNCHANGED <<tmp, throughout>>
     ELSE tpc' = "collect" /\ tmp' = g_head /\ throughout' = timers
  /\ UNCHANGED <<shared, timerfd, mainVars, ufds, ready, args, held>>

CollectFd ==
  /\ tpc = "collect"
  /\ tmp # NULL
  /\ ufds' = Append(ufds, heap[tmp].fd)
  /\ tpc' = "advance"
  /\ UNCHANGED <<shared, timerfd, mainVars, tmp, ready, args, held, throughout>>

CollectNext ==
  /\ tpc = "advance"
  /\ tmp' = heap[tmp].next
  /\ tpc' = "collect"
  /\ UNCHANGED <<shared, timerfd, mainVars, ufds, ready, args, held,
                 throughout>>

(* The array as poll leaves it: NoFd for an entry without POLLIN.  A       *)
(* descriptor may be in it more than once.                                 *)
Polled ==
  [i \in DOMAIN ufds |->
     IF ufds[i] # NoFd /\ timerfd[ufds[i]] = "expired" THEN ufds[i] ELSE NoFd]

Poll ==
  /\ tpc = "collect"
  /\ tmp = NULL
  /\ IF ToSet(Polled) \subseteq {NoFd} THEN tpc' = "test" /\ ready' = <<>>
                                       ELSE tpc' = "read" /\ ready' = Polled
  /\ ufds' = <<>>
  /\ throughout' = {}
  /\ UNCHANGED <<shared, timerfd, mainVars, tmp, args, held>>

(* On to the next entry of the array, or to the next round.                *)
Goes(rest) ==
  /\ ready' = rest
  /\ tpc' = IF rest = <<>> THEN "test" ELSE "read"
  /\ tmp' = NULL

(* read of a single-shot timerfd: its expiry is consumed.                  *)
Read ==
  /\ tpc = "read"
  /\ LET f == Head(ready)
     IN IF f = NoFd THEN Goes(Tail(ready)) /\ UNCHANGED timerfd
        ELSE CASE timerfd[f] = "expired" ->
                    /\ timerfd' = [timerfd EXCEPT ![f] = "disarmed"]
                    /\ tmp' = g_head
                    /\ tpc' = "lookup"
                    /\ UNCHANGED ready
               [] timerfd[f] = "closed" -> Goes(Tail(ready)) /\ UNCHANGED timerfd
               [] OTHER -> tpc' = "blocked" /\ UNCHANGED <<timerfd, tmp, ready>>
  /\ UNCHANGED <<shared, mainVars, ufds, args, held, throughout>>

ReadReturns ==
  /\ tpc = "blocked"
  /\ \/ /\ held = "none"
        /\ timerfd[Head(ready)] = "expired"
        /\ timerfd' = [timerfd EXCEPT ![Head(ready)] = "disarmed"]
        /\ UNCHANGED held
     \/ held = "expired" /\ held' = "none" /\ UNCHANGED timerfd
  /\ tmp' = g_head
  /\ tpc' = "lookup"
  /\ UNCHANGED <<shared, mainVars, ufds, ready, args, throughout>>

(* _get_timer_from_fd, another walk.                                       *)
Lookup ==
  /\ tpc = "lookup"
  /\ IF tmp = NULL THEN Goes(Tail(ready))
     ELSE /\ tpc' = IF heap[tmp].fd = Head(ready) THEN "call" ELSE "lookup next"
          /\ UNCHANGED <<tmp, ready>>
  /\ UNCHANGED <<shared, timerfd, mainVars, ufds, args, held, throughout>>

LookupNext ==
  /\ tpc = "lookup next"
  /\ tmp' = heap[tmp].next
  /\ tpc' = "lookup"
  /\ UNCHANGED <<shared, timerfd, mainVars, ufds, ready, args, held,
                 throughout>>

(* The callback and its argument are read from the node.  The callback of  *)
(* a freed one is still there, and gets the stale argument (a fastbin      *)
(* takes one word only), or is NULL, or what is there instead is called.   *)
Call ==
  /\ tpc = "call"
  /\ \/ /\ tpc' = "handle"
        /\ args' = heap[tmp].user_ip
        /\ UNCHANGED <<mpc, tmp, ready>>
     \/ /\ tmp \notin allocated
        /\ Goes(Tail(ready))
        /\ UNCHANGED <<mpc, args>>
     \/ /\ tmp \notin allocated
        /\ tpc' = "crashed" /\ mpc' = "crashed"
        /\ UNCHANGED <<tmp, ready, args>>
  /\ UNCHANGED <<shared, timerfd, operation, ufds, held, throughout>>

(* The main thread holds hashmap_lock from the beacon to the new timer.    *)
LockFree == mpc = "idle" \/ peer = NULL

(* handle_timeout takes the peer from the table; its timer stays.          *)
HandleTimeout ==
  /\ tpc = "handle"
  /\ LockFree
  /\ timer_id' = [timer_id EXCEPT ![args] = NULL]
  /\ args' = NULL
  /\ Goes(Tail(ready))
  /\ UNCHANGED <<g_head, memory, cancelled, history, mainVars, ufds, held>>

------------------------------------------------------------------------------
(* The clock.                                                              *)

Expire(f) ==
  /\ timerfd[f] = "armed"
  /\ timerfd' = [timerfd EXCEPT ![f] = "expired"]
  /\ UNCHANGED <<shared, mainVars, threadVars, held, throughout>>

ExpireHeld ==
  /\ held = "armed"
  /\ held' = "expired"
  /\ UNCHANGED <<shared, mainVars, threadVars, timerfd, throughout>>

------------------------------------------------------------------------------
MainStep == Close \/ Unhead \/ Unlink \/ Free \/ Malloc \/ CreateTimerfd \/ Link
              \/ SetHead \/ StopNext \/ Cancel \/ Join
TimerStep == TestCancel \/ CollectFd \/ CollectNext \/ Poll \/ Read \/ ReadReturns
               \/ Lookup \/ LookupNext \/ Call \/ HandleTimeout
Clock == ExpireHeld \/ \E f \in Fds : Expire(f)

Next ==
  \/ \E p \in Peers : Receive(p)
  \/ Terminate \/ MainStep \/ TimerStep \/ Clock

Spec == Init /\ [][Next]_vars

(* Both threads run, and armed timers expire; beacons and the decision to  *)
(* terminate come or not.                                                  *)
FairSpec == Spec /\ WF_vars(MainStep) /\ WF_vars(TimerStep) /\ WF_vars(Clock)

------------------------------------------------------------------------------
(* Properties.                                                             *)

FdStates == {"closed", "armed", "expired", "disarmed"}

(* Every variable holds a value of its type; the list, what is being       *)
(* walked and what is being read are never garbage.                        *)
TypeOK ==
  /\ {g_head, node, tmp} \subseteq Addrs \cup {NULL}
  /\ heap \in [Addrs -> [fd : Fds \cup {NoFd}, user_ip : Peers \cup {NULL},
                         next : Addrs \cup {NULL}]]
  /\ allocated \subseteq Addrs
  /\ timerfd \in [Fds -> FdStates]
  /\ timer_id \in [Peers -> Addrs \cup {NULL}]
  /\ {peer, args} \subseteq Peers \cup {NULL}
  /\ ToSet(ufds) \subseteq Fds \cup {NoFd}
  /\ ToSet(ready) \subseteq Fds \cup {NoFd}
  /\ held \in {"none", "armed", "expired", "disarmed"}
  /\ starts \in 0..MaxStarts

(* After every store of the main thread the list from g_head is exactly    *)
(* the timers started and not stopped: what FailureDetector takes for      *)
(* granted when it has a set in its place.                                 *)
ListIsTimers == Path(heap, g_head) = timers

(* Wherever the timer thread is in a walk, on a freed node or a reused one *)
(* as well, following next from there comes to an end, and so does a walk  *)
(* from g_head: no set of nodes on the way leads only to itself.           *)
WalkEnds ==
  \A S \in (SUBSET (Path(heap, tmp) \cup Path(heap, g_head))) \ {{}} :
    \E a \in S : heap[a].next \notin S

(* A walk collects every timer that is in the list from its beginning to   *)
(* its end, although nodes it stands on are unlinked, freed and reused     *)
(* meanwhile: no running timer goes unwatched for a round.                 *)
WalkCoversTimers ==
  tpc = "collect" /\ tmp = NULL => {heap[a].fd : a \in throughout} \subseteq ToSet(ufds)

(* When terminate_timer_manager comes to cancel the thread it has closed   *)
(* every descriptor and freed every node, those that expired included.     *)
NothingLeaks ==
  mpc \in {"join", "joined"} => allocated = {} /\ \A f \in Fds : timerfd[f] = "closed"

(* "Stop timer management thread": once main terminates the manager, the   *)
(* thread is joined (or the process has crashed).                          *)
TerminationReturns == mpc = "terminate" ~> mpc \in {"joined", "crashed"}
==============================================================================
