------------------------ MODULE FailureDetectorProofs ------------------------
(***************************************************************************)
(* FailureDetector's invariants, and that it implements GroupMembership,   *)
(* proved for every set of peers, heap addresses and descriptors.          *)
(***************************************************************************)
EXTENDS FailureDetector, TLAPS

(* The main thread holds the lock exactly between HASH_FIND and unlock.    *)
MainHoldsLock ==
  hashmap_lock = "main" <=> mpc \in {"stop", "create", "insert"}

(* Only addresses of peers travel from beacons through timers to           *)
(* handle_timeout, through freed timers as well.                           *)
PeersOnly ==
  /\ mpc # "recv" => ipaddress \in Peers
  /\ \A a \in timers : user_ip[a] \in Peers
  /\ tpc = "call" => tmp \in Addrs /\ user_ip[tmp] \in Peers
  /\ tpc = "handle" => args_ip \in Peers

(* A blocked read() is on a descriptor.                                    *)
BlockedOnDescriptor == tpc = "blocked" => cur \in Fds

(* The timer being started is in no list yet, is for the sender of the     *)
(* beacon and has an open descriptor of its own.                           *)
NewTimer ==
  mpc = "insert" /\ new_node # NULL =>
    /\ new_node \notin timers
    /\ user_ip[new_node] = ipaddress
    /\ fd[new_node] \in Fds
    /\ timerfd[fd[new_node]] # "closed"
    /\ \A b \in timers : fd[b] # fd[new_node]

(* Only a node that was in the table has its timer stopped.                *)
StopsKnown == mpc = "stop" => ~fresh

(* The inductive invariant.                                                *)
IInv ==
  /\ TypeOK
  /\ MainHoldsLock
  /\ PeersOnly
  /\ BlockedOnDescriptor
  /\ NewTimer
  /\ StopsKnown
  /\ SelfStays
  /\ MainOwnsNode
  /\ OwnTimer
  /\ OwnDescriptor

------------------------------------------------------------------------------
(* The table of main() before its loop satisfies the invariant.            *)
LEMMA InitInv == Init => IInv
<1> SUFFICES ASSUME Init PROVE IInv
  OBVIOUS
<1>1. NoEntries \in [Fds -> Nat]
  BY DEF NoEntries
<1>2. restarts \in 0 .. MaxRestarts
  BY RestartsBound DEF Init
<1>3. TypeOK
  BY <1>1, <1>2 DEF Init, TypeOK, Nodes
<1>4. /\ MainHoldsLock /\ PeersOnly /\ BlockedOnDescriptor /\ NewTimer
      /\ StopsKnown /\ SelfStays /\ MainOwnsNode /\ OwnTimer /\ OwnDescriptor
  BY SelfIsNotAPeer DEF Init, MainHoldsLock, PeersOnly,
     BlockedOnDescriptor, NewTimer, StopsKnown, SelfStays, MainOwnsNode, OwnTimer,
     OwnDescriptor, Nodes
<1>. QED
  BY <1>3, <1>4 DEF IInv

(* No step of either thread, the kernel or the network breaks it.          *)
LEMMA StepInv == IInv /\ [Next]_vars => IInv'
<1> SUFFICES ASSUME IInv, [Next]_vars PROVE IInv'
  OBVIOUS
<1> USE SelfIsNotAPeer, NullIsNoAddress, IntervalKinds, CommandKinds, RestartsBound
        DEF IInv, TypeOK, MainHoldsLock, PeersOnly, BlockedOnDescriptor,
        NewTimer, StopsKnown, SelfStays, MainOwnsNode, OwnTimer, OwnDescriptor, Nodes,
        hashVars, listVars, mainVars, beaconVars, walkVars, pollVars, Lock
<1>1. ASSUME NEW p \in Nodes, NEW command \in Commands, Receive(p, command)
      PROVE IInv'
  BY <1>1 DEF Receive, Foreign
<1>2. ASSUME FindKnown PROVE IInv'
  <2>1. ipaddress \in Peers /\ ipaddress \in nodes
    BY <1>2 DEF FindKnown
  <2>2. TypeOK'
    <3>1. submitted' \in {<<>>} \cup {<<view>> : view \in SUBSET Nodes}
      BY <1>2 DEF FindKnown
    <3>2. fresh' \in BOOLEAN /\ hashmap_lock' \in {"free", "main"}
      BY <1>2 DEF FindKnown
    <3>. QED
      BY <1>2, <3>1, <3>2 DEF FindKnown
  <2>3. OwnTimer' /\ OwnDescriptor' /\ NewTimer'
    BY <1>2 DEF FindKnown
  <2>4. MainHoldsLock' /\ PeersOnly' /\ BlockedOnDescriptor' /\ StopsKnown'
    BY <1>2, <2>1 DEF FindKnown
  <2>5. SelfStays' /\ MainOwnsNode'
    BY <1>2, <2>1 DEF FindKnown
  <2>. QED
    BY <2>2, <2>3, <2>4, <2>5
<1>3. ASSUME AddNew PROVE IInv'
  BY <1>3 DEF AddNew
<1>4. ASSUME StopTimer PROVE IInv'
  <2>1. TypeOK'
    <3>1. walk' \subseteq Addrs /\ timers' \subseteq Addrs
      BY <1>4 DEF StopTimer, Unlinked
    <3>2. held' \in {"none", "armed", "disarmed", "expired", "read"}
      BY <1>4 DEF StopTimer, HeldAfterClose
    <3>3. fd' \in [Addrs -> Fds \cup {NULL}] /\ user_ip' \in [Addrs -> Peers \cup {NULL}]
      BY <1>4 DEF StopTimer
    <3>6. timerfd' \in [Fds -> {"closed", "armed", "disarmed", "expired", "read"}]
      BY <1>4 DEF StopTimer
    <3>4. mpc' = "create" /\ <<nodes, timer_id, submitted>>' = <<nodes, timer_id, submitted>>
      BY <1>4 DEF StopTimer
    <3>5. UNCHANGED <<hashmap_lock, ipaddress, received, fresh, new_node, silenced,
            publishing, tpc, relinked, restarts, ufds, revents, cur, tmp, args_ip, silent>>
      BY <1>4 DEF StopTimer
    <3>. QED
      BY <3>1, <3>2, <3>3, <3>4, <3>5, <3>6
  <2>2. OwnTimer' /\ OwnDescriptor'
    BY <1>4 DEF StopTimer, Unlinked
  <2>3. /\ MainHoldsLock' /\ PeersOnly' /\ BlockedOnDescriptor' /\ NewTimer'
        /\ StopsKnown' /\ SelfStays' /\ MainOwnsNode'
    BY <1>4 DEF StopTimer, Unlinked
  <2>. QED
    BY <2>1, <2>2, <2>3
<1>5. ASSUME CreateTimer PROVE IInv'
  BY <1>5 DEF CreateTimer
<1>6. ASSUME CreateTimerFails PROVE IInv'
  BY <1>6 DEF CreateTimerFails
<1>7. ASSUME InsertTimer PROVE IInv'
  <2>1. ipaddress \in nodes \cap Peers /\ ipaddress # Self
    BY <1>7 DEF InsertTimer
  <2>2. TypeOK'
    <3>1. submitted' \in {<<>>} \cup {<<view>> : view \in SUBSET Nodes}
      BY <1>7 DEF InsertTimer
    <3>2. silenced' \in BOOLEAN /\ publishing' \in BOOLEAN
      BY <1>7 DEF InsertTimer, Toggle
    <3>3. timers' \subseteq Addrs /\ timer_id' \in [Nodes -> Addrs \cup {NULL}]
      BY <1>7 DEF InsertTimer, TimerIdKept, Started
    <3>4. relinked' \subseteq Addrs
      BY <1>7 DEF InsertTimer, Underfoot
    <3>. QED
      BY <1>7, <3>1, <3>2, <3>3, <3>4 DEF InsertTimer
  <2>3. OwnTimer'
    BY <1>7, <2>1 DEF InsertTimer, TimerIdKept, Started
  <2>4. OwnDescriptor'
    BY <1>7 DEF InsertTimer
  <2>5. MainHoldsLock' /\ PeersOnly' /\ BlockedOnDescriptor' /\ NewTimer'
      /\ StopsKnown'
    BY <1>7, <2>1 DEF InsertTimer
  <2>6. SelfStays' /\ MainOwnsNode'
    BY <1>7 DEF InsertTimer
  <2>. QED
    BY <2>2, <2>3, <2>4, <2>5, <2>6
<1>8. ASSUME StartWalk PROVE IInv'
  BY <1>8 DEF StartWalk, NoEntries
<1>9. ASSUME Poll PROVE IInv'
  <2>1. revents' \in [Fds -> Nat] /\ ufds' \in [Fds -> Nat] /\ relinked' = {}
    BY <1>9 DEF Poll, NoEntries
  <2>2. tpc' \in {"start", "read"} /\ tmp' = NULL
    BY <1>9 DEF Poll
  <2>3. restarts' \in 0 .. MaxRestarts
    BY <1>9 DEF Poll
  <2>. QED
    BY <1>9, <2>1, <2>2, <2>3 DEF Poll
<1>10. ASSUME NEW f \in Fds, Read(f)
      PROVE IInv'
  <2>0. UNCHANGED <<nodes, timer_id, submitted, hashmap_lock, timers, fd, user_ip, mpc,
          ipaddress, received, fresh, new_node, silenced, publishing, walk, relinked,
          restarts, ufds, held, tmp, args_ip, silent>>
    BY <1>10 DEF Read
  <2>1. revents' \in [Fds -> Nat]
    BY <1>10 DEF Read
  <2>2. timerfd' \in [Fds -> {"closed", "armed", "disarmed", "expired", "read"}]
    BY <1>10 DEF Read
  <2>3. cur' \in Fds \cup {NULL}
      /\ tpc' \in {"start", "collect", "read", "blocked", "lookup", "call", "handle"}
    BY <1>10 DEF Read
  <2>4. TypeOK'
    BY <2>1, <2>2, <2>3, <2>0
  <2>5. OwnDescriptor' /\ NewTimer'
    BY <1>10 DEF Read
  <2>6. /\ MainHoldsLock' /\ PeersOnly' /\ BlockedOnDescriptor' /\ StopsKnown'
        /\ SelfStays' /\ MainOwnsNode' /\ OwnTimer'
    BY <1>10 DEF Read
  <2>. HIDE DEF TypeOK, MainHoldsLock, PeersOnly, BlockedOnDescriptor, NewTimer,
            StopsKnown, SelfStays, MainOwnsNode, OwnTimer, OwnDescriptor
  <2>. QED
    BY <2>4, <2>5, <2>6
<1>11. ASSUME ReadReturns PROVE IInv'
  <2>1. timerfd' \in [Fds -> {"closed", "armed", "disarmed", "expired", "read"}]
    <3>1. timerfd' = timerfd \/ timerfd' = [timerfd EXCEPT ![cur] = "read"]
      BY <1>11 DEF ReadReturns
    <3>. QED
      BY <3>1
  <2>2. \A f \in Fds : timerfd'[f] = "closed" <=> timerfd[f] = "closed"
    BY <1>11 DEF ReadReturns
  <2>3. UNCHANGED <<nodes, timer_id, submitted, hashmap_lock, timers, fd, user_ip, mpc,
          ipaddress, received, fresh, new_node, silenced, publishing, walk, relinked,
          restarts, ufds, revents, cur, tmp, args_ip, silent>>
    BY <1>11 DEF ReadReturns
  <2>4. tpc' = "lookup" /\ held' = "none"
    BY <1>11 DEF ReadReturns
  <2>. QED
    BY <2>1, <2>2, <2>3, <2>4
<1>12. ASSUME LoopAgain PROVE IInv'
  BY <1>12 DEF LoopAgain
<1>13. ASSUME Lookup PROVE IInv'
  BY <1>13 DEF Lookup
<1>14. ASSUME Call PROVE IInv'
  BY <1>14 DEF Call
<1>15. ASSUME HandleTimeout PROVE IInv'
  <2>1. args_ip \in Peers /\ mpc \in {"recv", "find"}
    BY <1>15 DEF HandleTimeout
  <2>2. TypeOK'
    <3>1. submitted' \in {<<>>} \cup {<<view>> : view \in SUBSET Nodes}
      BY <1>15 DEF HandleTimeout, ViewAfterRemoval
    <3>. QED
      BY <1>15, <3>1 DEF HandleTimeout
  <2>3. OwnTimer'
    BY <1>15, <2>1 DEF HandleTimeout
  <2>4. OwnDescriptor' /\ NewTimer'
    BY <1>15 DEF HandleTimeout
  <2>5. MainHoldsLock' /\ PeersOnly' /\ BlockedOnDescriptor' /\ StopsKnown'
    BY <1>15 DEF HandleTimeout
  <2>6. SelfStays' /\ MainOwnsNode'
    BY <1>15, <2>1 DEF HandleTimeout
  <2>. QED
    BY <2>2, <2>3, <2>4, <2>5, <2>6
<1>16. ASSUME HandleStale PROVE IInv'
  BY <1>16 DEF HandleStale
<1>17. ASSUME NEW f \in Fds, Expire(f)
      PROVE IInv'
  BY <1>17 DEF Expire
<1>18. ASSUME ExpireHeld PROVE IInv'
  BY <1>18 DEF ExpireHeld
<1>19. ASSUME NEW p \in Peers, FallSilent(p)
      PROVE IInv'
  BY <1>19 DEF FallSilent
<1>20. CASE UNCHANGED vars
  BY <1>20 DEF vars
<1>21. ASSUME NEW a \in Addrs, CollectFd(a)
      PROVE IInv'
  <2>1. ufds' \in [Fds -> Nat]
    BY <1>21 DEF CollectFd
  <2>. QED
    BY <1>21, <2>1 DEF CollectFd
<1>22. ASSUME StartOver PROVE IInv'
  BY <1>22 DEF StartOver
<1>. QED
  BY <1>1, <1>2, <1>3, <1>4, <1>5, <1>6, <1>7, <1>8, <1>9, <1>10, <1>11,
     <1>12, <1>13, <1>14, <1>15, <1>16, <1>17, <1>18, <1>19, <1>20, <1>21, <1>22
  DEF Next, MainStep, TimerStep

------------------------------------------------------------------------------
(* IInv holds in every reachable state: the two threads, for any number of *)
(* peers, addresses and descriptors, keep table, list and kernel in step.  *)
THEOREM Invariance == Spec => []IInv
BY InitInv, StepInv, PTL DEF Spec

(* Every variable has its type.                                            *)
THEOREM TypeCorrect == Spec => []TypeOK
BY Invariance, PTL DEF IInv

(* This host never leaves its own group.                                   *)
THEOREM SelfNeverLeaves == Spec => []SelfStays
BY Invariance, PTL DEF IInv

(* Outside its own restart a node's timer_id is 0 or a live timer of that  *)
(* node: stop_timer never frees twice nor stops another node's timer.      *)
THEOREM TimerOwned == Spec => []OwnTimer
BY Invariance, PTL DEF IInv

(* Listed timers have open descriptors of their own: the search by         *)
(* descriptor has one answer.                                              *)
THEOREM DescriptorOwned == Spec => []OwnDescriptor
BY Invariance, PTL DEF IInv

(* The node_struct the main thread works on is never freed by              *)
(* handle_timeout while it holds the lock.                                 *)
THEOREM NodeStays == Spec => []MainOwnsNode
BY Invariance, PTL DEF IInv

(* The initial table maps to the initial group.                            *)
LEMMA InitRefines == Init => Membership!Init
BY DEF Init, Membership!Init

(* Every step of the two threads maps to a Join, a Leave or a stutter.     *)
LEMMA StepRefines == IInv /\ [Next]_vars => [Membership!Next]_(Membership!vars)
<1> SUFFICES ASSUME IInv, [Next]_vars PROVE [Membership!Next]_(Membership!vars)
  OBVIOUS
<1> DEFINE members == IF mpc \in {"create", "insert"} /\ fresh
             THEN nodes \ {ipaddress} ELSE nodes
<1>1. CASE HandleTimeout
  <2>1. args_ip \in Peers /\ args_ip \in nodes /\ members = nodes
    BY <1>1 DEF HandleTimeout, IInv, PeersOnly, MainHoldsLock, Lock
  <2>2. members' = nodes \ {args_ip} /\ submitted' = <<members'>>
    BY <1>1, <2>1 DEF HandleTimeout, ViewAfterRemoval, mainVars, IInv, MainHoldsLock, Lock
  <2>3. Membership!Leave(args_ip)
    BY <2>1, <2>2 DEF Membership!Leave
  <2>. QED
    BY <2>1, <2>3 DEF Membership!Next
<1>2. CASE InsertTimer
  <2>1. ipaddress \in Peers /\ ipaddress \in nodes /\ members' = nodes
    BY <1>2 DEF InsertTimer, IInv, PeersOnly, MainOwnsNode
  <2>2. CASE fresh
    <3>1. members = nodes \ {ipaddress} /\ submitted' = <<members'>>
      BY <1>2, <2>1, <2>2 DEF InsertTimer
    <3>2. Membership!Join(ipaddress)
      BY <2>1, <3>1 DEF Membership!Join
    <3>. QED
      BY <2>1, <3>2 DEF Membership!Next
  <2>3. CASE ~fresh
    BY <1>2, <2>1, <2>3 DEF InsertTimer, Membership!vars
  <2>. QED
    BY <2>2, <2>3
<1>3. CASE AddNew
  BY <1>3 DEF AddNew, Membership!vars
<1>4. CASE StopTimer
  BY <1>4 DEF StopTimer, hashVars, IInv, StopsKnown, Membership!vars
<1>5. CASE \E p \in Nodes, command \in Commands : Receive(p, command)
  BY <1>5 DEF Receive, hashVars, Membership!vars
<1>6. CASE FindKnown
  BY <1>6 DEF FindKnown, hashVars, Membership!vars
<1>7. CASE CreateTimer \/ CreateTimerFails
  BY <1>7 DEF CreateTimer, CreateTimerFails, hashVars, Membership!vars
<1>8. CASE \/ TimerStep \/ HandleStale \/ ExpireHeld
           \/ \E f \in Fds : Expire(f)
           \/ \E p \in Peers : FallSilent(p)
  BY <1>8 DEF TimerStep, StartWalk, CollectFd, StartOver, Poll, ReadReturns, LoopAgain, Lookup, Call, Read,
     HandleStale, ExpireHeld, Expire, FallSilent, hashVars, mainVars, Membership!vars
<1>9. CASE UNCHANGED vars
  BY <1>9 DEF vars, hashVars, mainVars, Membership!vars
<1>. QED
  BY <1>1, <1>2, <1>3, <1>4, <1>5, <1>6, <1>7, <1>8, <1>9
  DEF Next, MainStep

(* Every behaviour of the two threads is a behaviour of GroupMembership.   *)
THEOREM Refinement == Spec => MembershipSpec
<1>1. Init => Membership!Init
  BY InitRefines
<1>. QED
  BY <1>1, Invariance, StepRefines, PTL DEF Spec, MembershipSpec, Membership!Spec
==============================================================================
