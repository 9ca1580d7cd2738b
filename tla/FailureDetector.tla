--------------------------- MODULE FailureDetector ---------------------------
(***************************************************************************)
(* One process of the failure detector: the main thread, which turns       *)
(* beacons into timer restarts, and the timer thread, which turns expired  *)
(* timers into removals from the membership group.                         *)
(*                                                                         *)
(* The two threads share the hash table `nodes', protected by              *)
(* hashmap_lock, and the list of timers behind g_head, protected by        *)
(* nothing: the main thread writes it (start_timer, stop_timer) while the  *)
(* timer thread walks it, one node at a time, over timers that are stopped *)
(* and started under its feet.  TimerList has the pointers of that walk;   *)
(* here it is the set of nodes still ahead of the thread, in any order.    *)
(* Between them sits the kernel: a timerfd number that is closed can be    *)
(* handed out again at once, and read() of a timerfd that has not expired  *)
(* blocks the timer thread.                                                *)
(*                                                                         *)
(* How long a timeout is belongs to AdaptiveDelay; here an interval either *)
(* arms the timer, and it may expire at any later moment, or it is zero    *)
(* milliseconds, which disarms a timerfd.                                  *)
(***************************************************************************)
EXTENDS Naturals, FiniteSets

CONSTANTS
  Self,       \* hostname: the address of this process
  Peers,      \* the other addresses a beacon can come from
  Addrs,      \* the heap addresses malloc can return for a struct timer_node
  Fds,        \* the descriptor numbers left for timerfd_create
  Intervals,  \* which intervals the delay model yields: "positive", "zero"
  Commands,   \* {FALSE}, or BOOLEAN: can a beacon carry an orchestrator command?
  MAX_TIMER_COUNT,  \* entries of the array the timer thread polls
  MaxRestarts,  \* bound: how often one walk can be led back to the head
  NULL

ASSUME SelfIsNotAPeer  == Self \notin Peers
ASSUME NullIsNoAddress == NULL \notin Addrs
ASSUME IntervalKinds   == Intervals \subseteq {"positive", "zero"}
ASSUME CommandKinds    == Commands \subseteq BOOLEAN
ASSUME RestartsBound   == MaxRestarts \in Nat

Nodes == Peers \cup {Self}

VARIABLES
  \* shared, under hashmap_lock
  nodes,         \* the keys of the hash table
  timer_id,      \* node_struct.timer_id of each key
  hashmap_lock,  \* "free" or the thread that holds it
  \* shared, under no lock
  timers,        \* the nodes of the list behind g_head
  fd,            \* timer_node.fd at each heap address
  user_ip,       \* timer_node.user_data.ip_address, left in place by free()
  \* the kernel
  timerfd,       \* per descriptor: closed, armed, disarmed, expired or read
  \* the main thread
  mpc,           \* where it stands in its loop
  ipaddress,     \* the sender of the beacon it handles
  received,      \* is the beacon a command for this host?
  fresh,         \* is the sender new to the hash table?
  new_node,      \* the timer it is starting
  silenced,      \* has it been silenced?
  publishing,    \* is the speaker sending beacons?
  submitted,     \* the last view given to Paxos, as a sequence of one or none
  \* the timer thread
  tpc,           \* where it stands in its loop
  walk,          \* the nodes its walk of the list may still come to
  relinked,      \* those of them, and the one it stands on, that start_timer
                 \* has made the head of the list since
  restarts,      \* how often this walk has started over
  ufds,          \* how many entries of the poll array each descriptor has
  revents,       \* how many readable ones it has not visited yet
  cur,           \* the descriptor it reads
  held,          \* the state of the timerfd its blocked read() keeps alive
                 \* after the main thread closed it, "none" otherwise
  tmp,           \* the node it stands on, or found for that descriptor
  args_ip,       \* the address it passes to handle_timeout
  \* the network
  silent         \* peers no beacon will come from any more

hashVars  == <<nodes, timer_id, submitted>>
listVars  == <<timers, fd, user_ip>>
mainVars  == <<mpc, ipaddress, received, fresh, new_node>>
beaconVars == <<silenced, publishing>>
walkVars  == <<walk, relinked, restarts, ufds>>
pollVars  == <<tpc, walkVars, revents, cur, held, tmp, args_ip>>
vars == <<hashVars, hashmap_lock, listVars, timerfd, mainVars, beaconVars,
          pollVars, silent>>

(* memset(ufds, 0, ...): a poll array without entries.                     *)
NoEntries == [f \in Fds |-> 0]

(* main() up to its loop: the table holds this host only, no timer runs,   *)
(* the speaker publishes, and the timer thread has been created.           *)
Init ==
  /\ nodes = {Self}
  /\ timer_id = [n \in Nodes |-> NULL]
  /\ hashmap_lock = "free"
  /\ timers = {}
  /\ fd = [a \in Addrs |-> NULL]
  /\ user_ip = [a \in Addrs |-> NULL]
  /\ timerfd = [f \in Fds |-> "closed"]
  /\ mpc = "recv"
  /\ ipaddress = NULL
  /\ received = FALSE
  /\ fresh = FALSE
  /\ new_node = NULL
  /\ silenced = FALSE
  /\ publishing = TRUE
  /\ submitted = <<>>
  /\ tpc = "start"
  /\ walk = {}
  /\ relinked = {}
  /\ restarts = 0
  /\ ufds = NoEntries
  /\ revents = NoEntries
  /\ cur = NULL
  /\ held = "none"
  /\ tmp = NULL
  /\ args_ip = NULL
  /\ silent = {}

------------------------------------------------------------------------------
(* The main thread.                                                        *)

(* zstr_recvx returns a beacon; those of this host are dropped.  Any delay *)
(* or loss on the network is a beacon received later or never.             *)
NoFilter(p) == TRUE

Foreign(p) == p # Self

Receive(p, command) ==
  /\ mpc = "recv"
  /\ Foreign(p)
  /\ p \notin silent
  /\ mpc' = "find"
  /\ ipaddress' = p
  /\ received' = command
  /\ UNCHANGED <<hashVars, hashmap_lock, listVars, timerfd, fresh, new_node,
                 beaconVars, pollVars, silent>>

NoMutex == TRUE

(* pthread_mutex_lock(&hashmap_lock) returns.                              *)
Lock == hashmap_lock = "free"

(* Lock and look the sender up: a known one has its timer restarted.       *)
FindKnown ==
  /\ mpc = "find"
  /\ Lock
  /\ ipaddress \in nodes
  /\ hashmap_lock' = "main"
  /\ fresh' = FALSE
  /\ mpc' = "stop"
  /\ UNCHANGED <<hashVars, listVars, timerfd, ipaddress, received, new_node,
                 beaconVars, pollVars, silent>>

(* ... and a new one enters the table.                                     *)
AddNew ==
  /\ mpc = "find"
  /\ Lock
  /\ ipaddress \notin nodes
  /\ hashmap_lock' = "main"
  /\ nodes' = nodes \cup {ipaddress}
  /\ fresh' = TRUE
  /\ mpc' = "create"
  /\ UNCHANGED <<timer_id, submitted, listVars, timerfd, ipaddress, received,
                 new_node, beaconVars, pollVars, silent>>

(* close() of a descriptor the timer thread is blocked on takes the number *)
(* away and leaves the timer running until that read() returns.            *)
HeldAfterClose(f) ==
  IF tpc = "blocked" /\ cur = f /\ held = "none" THEN timerfd[f] ELSE held

Unchained(node) == timers

Unlinked(node) == timers \ {node}

(* stop_timer(node->timer_id): close, unlink, free.  The walk comes to the *)
(* freed node all the same when it stands before it with the old link.     *)
StopTimer ==
  /\ mpc = "stop"
  /\ LET node == timer_id[ipaddress] IN
       IF node = NULL
       THEN UNCHANGED <<listVars, timerfd, held, walk>>
       ELSE /\ timerfd' = [timerfd EXCEPT ![fd[node]] = "closed"]
            /\ held' = HeldAfterClose(fd[node])
            /\ timers' = Unlinked(node)
            /\ fd' = [fd EXCEPT ![node] = NULL]
            /\ walk' \in {walk, walk \ {node}}
            /\ UNCHANGED user_ip
  /\ mpc' = "create"
  /\ UNCHANGED <<hashVars, hashmap_lock, ipaddress, received, fresh, new_node,
                 beaconVars, tpc, relinked, restarts, ufds, revents, cur, tmp,
                 args_ip, silent>>

(* start_timer: malloc, timerfd_create and timerfd_settime.  Both the heap *)
(* address and the number may be ones that were freed a moment ago.        *)
CreateTimer ==
  /\ mpc = "create"
  /\ \E a \in Addrs \ timers, f \in Fds, interval \in Intervals :
       /\ timerfd[f] = "closed"
       /\ new_node' = a
       /\ fd' = [fd EXCEPT ![a] = f]
       /\ user_ip' = [user_ip EXCEPT ![a] = ipaddress]
       /\ timerfd' = [timerfd EXCEPT
            ![f] = IF interval = "zero" THEN "disarmed" ELSE "armed"]
  /\ mpc' = "insert"
  /\ UNCHANGED <<hashVars, hashmap_lock, timers, ipaddress, received, fresh,
                 beaconVars, pollVars, silent>>

(* No memory or no descriptor is left: start_timer returns 0.              *)
CreateTimerFails ==
  /\ mpc = "create"
  /\ \/ Addrs \subseteq timers
     \/ \A f \in Fds : timerfd[f] # "closed"
  /\ new_node' = NULL
  /\ mpc' = "insert"
  /\ UNCHANGED <<hashVars, hashmap_lock, listVars, timerfd, ipaddress, received,
                 fresh, beaconVars, pollVars, silent>>

(* The orchestrator's command, obeyed after the lock is released.          *)
Toggle ==
  IF received
  THEN /\ silenced' = TRUE
       /\ publishing' = silenced
  ELSE UNCHANGED beaconVars

StartedDescriptor == IF new_node = NULL THEN NULL ELSE fd[new_node]

(* What start_timer returns: the address of the timer, or 0.               *)
Started == new_node

TimerIdOfNewOnly ==
  IF fresh THEN [timer_id EXCEPT ![ipaddress] = Started] ELSE timer_id

(* node->timer_id = start_timer(...), in both branches.                    *)
TimerIdKept == [timer_id EXCEPT ![ipaddress] = Started]

(* The nodes whose link a walk may still follow, and start over.           *)
Underfoot ==
  IF tpc = "collect" /\ restarts < MaxRestarts
  THEN walk \cup ({tmp} \ {NULL}) ELSE {}

(* The rest of start_timer and of the loop body: link the timer in, keep   *)
(* its id, tell Paxos of a new member, unlock, obey a command.             *)
InsertTimer ==
  /\ mpc = "insert"
  /\ timers' = timers \cup ({new_node} \ {NULL})
  /\ relinked' = relinked \cup ({new_node} \cap Underfoot)
  /\ timer_id' = TimerIdKept
  /\ submitted' = IF fresh THEN <<nodes>> ELSE submitted
  /\ hashmap_lock' = "free"
  /\ Toggle
  /\ mpc' = "recv"
  /\ ipaddress' = NULL
  /\ received' = FALSE
  /\ fresh' = FALSE
  /\ new_node' = NULL
  /\ UNCHANGED <<nodes, fd, user_ip, timerfd, tpc, walk, restarts, ufds, revents,
                 cur, held, tmp, args_ip, silent>>

------------------------------------------------------------------------------
(* The timer thread.                                                       *)

(* An empty poll array; tmp = g_head.                                      *)
StartWalk ==
  /\ tpc = "start"
  /\ walk' = timers
  /\ restarts' = 0
  /\ ufds' = NoEntries
  /\ tpc' = "collect"
  /\ UNCHANGED <<hashVars, hashmap_lock, listVars, timerfd, mainVars, beaconVars,
                 relinked, revents, cur, held, tmp, args_ip, silent>>

(* The walk comes to node a and copies its descriptor into the poll array: *)
(* that of a live timer, of one started at this address in the meantime,   *)
(* or nothing poll() could find readable, when a has been freed.           *)
CollectFd(a) ==
  /\ tpc = "collect"
  /\ a \in walk
  /\ ufds' = IF fd[a] = NULL THEN ufds ELSE [ufds EXCEPT ![fd[a]] = @ + 1]
  /\ walk' = walk \ {a}
  /\ tmp' = a
  /\ UNCHANGED <<hashVars, hashmap_lock, listVars, timerfd, mainVars, beaconVars,
                 tpc, relinked, restarts, revents, cur, held, args_ip, silent>>

(* tmp->next of a node that was freed and became the head of the list: the *)
(* walk is led to the old head and collects once more what it has already  *)
(* collected.                                                              *)
StartOver ==
  /\ tpc = "collect"
  /\ tmp \in relinked
  /\ restarts < MaxRestarts
  /\ restarts' = restarts + 1
  /\ relinked' = IF restarts' < MaxRestarts THEN relinked \ {tmp} ELSE {}
  /\ walk' = timers \ {tmp}
  /\ UNCHANGED <<hashVars, hashmap_lock, listVars, timerfd, mainVars, beaconVars,
                 tpc, ufds, revents, cur, held, tmp, args_ip, silent>>

(* The walk is over; poll() returns, readable descriptors or not.          *)
Poll ==
  /\ tpc = "collect"
  /\ walk = {}
  /\ revents' = [f \in Fds |-> IF timerfd[f] = "expired" THEN ufds[f] ELSE 0]
  /\ ufds' = NoEntries
  /\ relinked' = {}
  /\ restarts' = 0
  /\ tmp' = NULL
  /\ tpc' = IF revents' = NoEntries THEN "start" ELSE "read"
  /\ UNCHANGED <<hashVars, hashmap_lock, listVars, timerfd, mainVars, beaconVars,
                 walk, cur, held, args_ip, silent>>

(* read() of the next readable descriptor: its expiry, an error when it    *)
(* was closed since, or a wait when its number is another timer's by now   *)
(* or when the walk collected it twice and the expiry has been read.       *)
(* The array is visited newest timer first; here in any order.             *)
Read(f) ==
  /\ tpc = "read"
  /\ revents[f] > 0
  /\ revents' = [revents EXCEPT ![f] = @ - 1]
  /\ \/ /\ timerfd[f] = "expired"
        /\ timerfd' = [timerfd EXCEPT ![f] = "read"]
        /\ cur' = f
        /\ tpc' = "lookup"
     \/ /\ timerfd[f] = "closed"
        /\ UNCHANGED <<timerfd, cur, tpc>>
     \/ /\ timerfd[f] \notin {"expired", "closed"}
        /\ cur' = f
        /\ tpc' = "blocked"
        /\ UNCHANGED timerfd
  /\ UNCHANGED <<hashVars, hashmap_lock, listVars, mainVars, beaconVars,
                 walkVars, held, tmp, args_ip, silent>>

(* The blocked read() returns: its timerfd expired.                        *)
ReadReturns ==
  /\ tpc = "blocked"
  /\ \/ /\ held = "none"
        /\ timerfd[cur] = "expired"
        /\ timerfd' = [timerfd EXCEPT ![cur] = "read"]
     \/ /\ held = "expired"
        /\ UNCHANGED timerfd
  /\ held' = "none"
  /\ tpc' = "lookup"
  /\ UNCHANGED <<hashVars, hashmap_lock, listVars, mainVars, beaconVars,
                 walkVars, revents, cur, tmp, args_ip, silent>>

(* Every readable descriptor has been visited.                             *)
LoopAgain ==
  /\ tpc = "read"
  /\ revents = NoEntries
  /\ tpc' = "start"
  /\ UNCHANGED <<hashVars, hashmap_lock, listVars, timerfd, mainVars, beaconVars,
                 walkVars, revents, cur, held, tmp, args_ip, silent>>

(* _get_timer_from_fd: the timer that has this number now, if any.         *)
Lookup ==
  /\ tpc = "lookup"
  /\ \/ \E a \in timers :
          /\ fd[a] = cur
          /\ tmp' = a
          /\ tpc' = "call"
     \/ /\ \A a \in timers : fd[a] # cur
        /\ tpc' = "read"
        /\ UNCHANGED tmp
  /\ cur' = NULL
  /\ UNCHANGED <<hashVars, hashmap_lock, listVars, timerfd, mainVars, beaconVars,
                 walkVars, revents, held, args_ip, silent>>

(* tmp->callback(tmp, tmp->user_data): the structure may have been freed,  *)
(* and reused by start_timer, since it was found.  When free() or another  *)
(* malloc has overwritten it the process may also crash: every behaviour   *)
(* may end here, and no property is about what comes after a crash.        *)
Call ==
  /\ tpc = "call"
  /\ args_ip' = user_ip[tmp]
  /\ tmp' = NULL
  /\ tpc' = "handle"
  /\ UNCHANGED <<hashVars, hashmap_lock, listVars, timerfd, mainVars, beaconVars,
                 walkVars, revents, cur, held, silent>>

ViewBeforeRemoval == nodes

(* The table as handle_timeout submits it, after HASH_DEL.                 *)
ViewAfterRemoval == nodes \ {args_ip}

(* handle_timeout: under the lock, remove whatever node has that address   *)
(* now and give Paxos the new view.  The expired timer stays in the list.  *)
HandleTimeout ==
  /\ tpc = "handle"
  /\ Lock
  /\ args_ip \in nodes
  /\ nodes' = nodes \ {args_ip}
  /\ submitted' = <<ViewAfterRemoval>>
  /\ timer_id' = [timer_id EXCEPT ![args_ip] = NULL]
  /\ args_ip' = NULL
  /\ tpc' = "read"
  /\ UNCHANGED <<hashmap_lock, listVars, timerfd, mainVars, beaconVars,
                 walkVars, revents, cur, held, tmp, silent>>

ReturnLocked ==
  /\ tpc = "handle"
  /\ Lock
  /\ args_ip \notin nodes
  /\ args_ip' = NULL
  /\ hashmap_lock' = "timer"
  /\ tpc' = "read"
  /\ UNCHANGED <<hashVars, listVars, timerfd, mainVars, beaconVars,
                 walkVars, revents, cur, held, tmp, silent>>

(* ... or unlock and return when no node has that address any more.        *)
HandleStale ==
  /\ tpc = "handle"
  /\ Lock
  /\ args_ip \notin nodes
  /\ args_ip' = NULL
  /\ tpc' = "read"
  /\ UNCHANGED <<hashVars, hashmap_lock, listVars, timerfd, mainVars, beaconVars,
                 walkVars, revents, cur, held, tmp, silent>>

------------------------------------------------------------------------------
(* The kernel's clock and the network.                                     *)

Expire(f) ==
  /\ timerfd[f] = "armed"
  /\ timerfd' = [timerfd EXCEPT ![f] = "expired"]
  /\ UNCHANGED <<hashVars, hashmap_lock, listVars, mainVars, beaconVars, pollVars,
                 silent>>

ExpireHeld ==
  /\ held = "armed"
  /\ held' = "expired"
  /\ UNCHANGED <<hashVars, hashmap_lock, listVars, timerfd, mainVars, beaconVars,
                 tpc, walkVars, revents, cur, tmp, args_ip, silent>>

(* The last beacon of p has been received: it crashed or was cut off.      *)
FallSilent(p) ==
  /\ p \notin silent
  /\ silent' = silent \cup {p}
  /\ UNCHANGED <<hashVars, hashmap_lock, listVars, timerfd, mainVars, beaconVars,
                 pollVars>>

MainStep ==
  \/ FindKnown \/ AddNew \/ StopTimer
  \/ CreateTimer \/ CreateTimerFails \/ InsertTimer

TimerStep ==
  \/ StartWalk \/ StartOver \/ Poll \/ ReadReturns \/ LoopAgain
  \/ Lookup \/ Call
  \/ \E a \in Addrs : CollectFd(a)
  \/ \E f \in Fds : Read(f)

Next ==
  \/ \E p \in Nodes, command \in Commands : Receive(p, command)
  \/ MainStep
  \/ TimerStep
  \/ HandleTimeout \/ HandleStale
  \/ \E f \in Fds : Expire(f)
  \/ ExpireHeld
  \/ \E p \in Peers : FallSilent(p)

Spec == Init /\ [][Next]_vars

(* Threads are scheduled, an armed timer expires, and handle_timeout gets  *)
(* the mutex sooner or later, although the mutex is not fair: the main     *)
(* thread holds it for a few microseconds per beacon.  Nothing is assumed  *)
(* of the network.                                                         *)
Fairness ==
  /\ WF_vars(MainStep)
  /\ WF_vars(TimerStep)
  /\ SF_vars(HandleTimeout \/ HandleStale)
  /\ \A f \in Fds : WF_vars(Expire(f))
  /\ WF_vars(ExpireHeld)

FairSpec == Spec /\ Fairness

------------------------------------------------------------------------------
(* Properties.                                                             *)

(* Every variable holds a value of its type.                               *)
TypeOK ==
  /\ nodes \subseteq Nodes
  /\ timer_id \in [Nodes -> Addrs \cup {NULL}]
  /\ hashmap_lock \in {"free", "main"}
  /\ timers \subseteq Addrs
  /\ fd \in [Addrs -> Fds \cup {NULL}]
  /\ user_ip \in [Addrs -> Peers \cup {NULL}]
  /\ timerfd \in [Fds -> {"closed", "armed", "disarmed", "expired", "read"}]
  /\ mpc \in {"recv", "find", "stop", "create", "insert"}
  /\ ipaddress \in Peers \cup {NULL}
  /\ received \in BOOLEAN
  /\ fresh \in BOOLEAN
  /\ new_node \in Addrs \cup {NULL}
  /\ silenced \in BOOLEAN
  /\ publishing \in BOOLEAN
  /\ submitted \in {<<>>} \cup {<<view>> : view \in SUBSET Nodes}
  /\ tpc \in {"start", "collect", "read", "blocked", "lookup", "call", "handle"}
  /\ walk \subseteq Addrs
  /\ relinked \subseteq Addrs
  /\ restarts \in 0 .. MaxRestarts
  /\ ufds \in [Fds -> Nat]
  /\ revents \in [Fds -> Nat]
  /\ cur \in Fds \cup {NULL}
  /\ held \in {"none", "armed", "disarmed", "expired", "read"}
  /\ tmp \in Addrs \cup {NULL}
  /\ args_ip \in Peers \cup {NULL}
  /\ silent \subseteq Peers

(* This host stays in its own group, whichever freed or recycled timer the *)
(* timer thread calls back: init_nodes_struct adds it once and no beacon   *)
(* could add it again.                                                     *)
SelfStays == Self \in nodes

(* From HASH_FIND to the unlock the main thread works on a node_struct     *)
(* that is still in the table: handle_timeout frees none under its hands.  *)
MainOwnsNode ==
  mpc \in {"stop", "create", "insert"} => ipaddress \in nodes

(* The timer_id of a node is 0 or a timer that is in the list and carries  *)
(* the node's own address, so stop_timer never frees a timer twice nor     *)
(* stops the timer of another node; the node the main thread is restarting *)
(* is excepted between its stop_timer and its start_timer.                 *)
OwnTimer ==
  \A p \in nodes \cap Peers :
    \/ mpc \in {"create", "insert"} /\ ipaddress = p
    \/ timer_id[p] = NULL
    \/ timer_id[p] \in timers /\ user_ip[timer_id[p]] = p

(* Timers in the list have open descriptors of their own, so the search by *)
(* descriptor has one answer and no close() hits another timer.            *)
OwnDescriptor ==
  \A a \in timers :
    /\ fd[a] \in Fds
    /\ timerfd[fd[a]] # "closed"
    /\ \A b \in timers : fd[a] = fd[b] => a = b

(* The process implements the group it promises: the group changes by one  *)
(* peer at a time, never loses this host, and every change is handed to    *)
(* Paxos before anyone can see the next one.  A peer being added under the *)
(* lock is a member once the lock is released.                             *)
Membership == INSTANCE GroupMembership WITH
  members <- IF mpc \in {"create", "insert"} /\ fresh
             THEN nodes \ {ipaddress} ELSE nodes,
  announced <- submitted

MembershipSpec == Membership!Spec

(* p is silent, its last beacon has been handled, and the timer of its     *)
(* node runs or has expired unread.                                        *)
Watched(p) ==
  /\ p \in silent \cap nodes
  /\ ~(mpc # "recv" /\ ipaddress = p)
  /\ timer_id[p] # NULL
  /\ timerfd[fd[timer_id[p]]] \in {"armed", "expired"}

(* The timer thread reads the one expiry of a single-shot timer a second   *)
(* time, which it may do when its walk collected the descriptor twice      *)
(* (timer.c:133-142): that read() never returns and nobody is detected any *)
(* more.                                                                   *)
Stuck ==
  /\ tpc = "blocked"
  /\ (IF held = "none" THEN timerfd[cur] ELSE held) = "read"

(* A peer that has fallen silent is removed, whatever beacons of other     *)
(* peers do to the list under the walk, to the descriptors and to a        *)
(* blocked read(); the one thing that ends detection is a second read of   *)
(* an expiry, of this or of any other timer.                               *)
SilentPeerDetected ==
  \A p \in Peers : Watched(p) ~> p \notin nodes \/ Stuck

(* "restart the timer" (failure_detector_main.c:227): a peer leaves the    *)
(* group only when its current timer has run out.                          *)
LeavesOnOwnTimeout ==
  [][\A p \in nodes \ nodes' :
       /\ timer_id[p] # NULL
       /\ timerfd[fd[timer_id[p]]] \in {"expired", "read"}]_vars

(* "Timer for IP %s expired" (failure_detector_main.c:50): the timer whose *)
(* callback is called is one that has expired.                             *)
CalledTimerExpired ==
  tpc = "call" /\ tmp \in timers => timerfd[fd[tmp]] = "read"

(* "#define MAX_TIMER_COUNT 1000" (timer.c:13): the descriptors of the     *)
(* list fit in the array the timer thread polls; entries the same walk     *)
(* makes for a descriptor twice are not counted.                           *)
PollArrayFits ==
  Cardinality({f \in Fds : ufds[f] > 0}) <= MAX_TIMER_COUNT
==============================================================================
