-------------------------- MODULE TimerListProofs --------------------------
(***************************************************************************)
(* What holds of the timer list for every heap, every number of peers,     *)
(* descriptors and timers.  The first part is about paths in a heap: what  *)
(* the three kinds of stores to `next' do to the path from any address.    *)
(***************************************************************************)
EXTENDS TimerList, SequenceTheorems, TLAPS

Links == Addrs \cup {NULL}
Heaps == [Addrs -> [fd : Fds \cup {NoFd}, user_ip : Peers \cup {NULL},
                    next : Links]]

(* No set of nodes leads only to itself: every path ends.                  *)
Acyclic(h) ==
  \A S \in (SUBSET Addrs) \ {{}} : \E a \in S : h[a].next \notin S

(* A path is itself closed.                                                *)
LEMMA PathIsClosed ==
  ASSUME NEW h \in Heaps, NEW n \in Links
  PROVE  /\ Path(h, n) \subseteq Addrs
         /\ Closed(h, Path(h, n))
         /\ n \in Path(h, n) \cup {NULL}
<1>1. Path(h, n) \subseteq Addrs
  BY DEF Path
<1>2. ASSUME NEW a \in Path(h, n), h[a].next # NULL
      PROVE  h[a].next \in Path(h, n)
  <2>1. a \in Addrs
    BY <1>1
  <2>2. h[a].next \in Addrs
    BY <1>2, <2>1 DEF Heaps, Links
  <2> SUFFICES ASSUME NEW S \in SUBSET Addrs, n \in S \cup {NULL}, Closed(h, S)
               PROVE  h[a].next \in S
    BY <2>2 DEF Path
  <2>3. a \in S
    BY DEF Path
  <2> QED
    BY <2>3, <1>2 DEF Closed
<1>3. n \in Path(h, n) \cup {NULL}
  BY DEF Path, Links
<1> QED
  BY <1>1, <1>2, <1>3 DEF Closed

(* And it is the least closed set that has its first node.                 *)
LEMMA PathIsLeast ==
  ASSUME NEW h, NEW n, NEW S \in SUBSET Addrs, n \in S \cup {NULL}, Closed(h, S)
  PROVE  Path(h, n) \subseteq S
  BY DEF Path

(* There is nothing behind NULL.                                           *)
LEMMA PathOfNull ==
  ASSUME NEW h
  PROVE  Path(h, NULL) = {}
<1>1. Closed(h, {})
  BY DEF Closed
<1> QED
  BY <1>1 DEF Path

(* The path from a node is the node and the path from the next one.        *)
LEMMA PathStep ==
  ASSUME NEW h \in Heaps, NEW n \in Addrs
  PROVE  Path(h, n) = {n} \cup Path(h, h[n].next)
<1>0. n \in Links /\ h[n].next \in Links
  BY DEF Heaps, Links
<1>1. Path(h, n) \subseteq {n} \cup Path(h, h[n].next)
  <2>1. Path(h, h[n].next) \subseteq Addrs
    BY <1>0, PathIsClosed
  <2>2. Closed(h, {n} \cup Path(h, h[n].next))
    BY <1>0, PathIsClosed DEF Closed
  <2> QED
    BY <2>1, <2>2, PathIsLeast
<1>2. n # NULL
  BY NullIsElsewhere
<1>3. n \in Path(h, n)
  BY <1>0, <1>2, PathIsClosed
<1>4. Path(h, h[n].next) \subseteq Path(h, n)
  <2>1. /\ Path(h, n) \in SUBSET Addrs /\ Closed(h, Path(h, n))
        /\ h[n].next \in Path(h, n) \cup {NULL}
    BY <1>0, <1>3, PathIsClosed DEF Closed
  <2> QED
    BY <2>1, PathIsLeast
<1> QED
  BY <1>1, <1>3, <1>4

(* Where no path is a cycle, none comes back to where it started.          *)
LEMMA NoReturn ==
  ASSUME NEW h \in Heaps, Acyclic(h), NEW n \in Addrs
  PROVE  n \notin Path(h, h[n].next)
<1> SUFFICES ASSUME n \in Path(h, h[n].next)
             PROVE  FALSE
  OBVIOUS
<1> DEFINE T == Path(h, h[n].next)
           S == {a \in T : n \in Path(h, a)}
<1>1. h[n].next \in Links /\ n \in Links /\ n # NULL
  BY NullIsElsewhere DEF Heaps, Links
<1>2. T \subseteq Addrs /\ Closed(h, T)
  BY <1>1, PathIsClosed
<1>3. n \in S
  BY <1>1, PathIsClosed
<1>4. ASSUME NEW a \in S
      PROVE  h[a].next \in S
  <2>1. a \in Addrs /\ h[a].next \in T \cup {NULL}
    BY <1>2 DEF Closed
  <2>2. n \in Path(h, h[a].next)
    BY <2>1, PathStep
  <2>3. h[a].next # NULL
    BY <2>2, PathOfNull
  <2> QED
    BY <2>1, <2>2, <2>3
<1> QED
  BY <1>2, <1>3, <1>4 DEF Acyclic

(* Stores to other fields than `next' do not matter.                       *)
LEMMA SameNext ==
  ASSUME NEW h, NEW k, \A a \in Addrs : k[a].next = h[a].next
  PROVE  /\ \A n : Path(k, n) = Path(h, n)
         /\ Acyclic(h) => Acyclic(k)
<1>1. \A S \in SUBSET Addrs : Closed(k, S) <=> Closed(h, S)
  BY DEF Closed
<1>2. \A n : Path(k, n) = Path(h, n)
  BY <1>1 DEF Path
<1>3. Acyclic(h) => Acyclic(k)
  BY DEF Acyclic
<1> QED
  BY <1>2, <1>3

(* stop_timer's store, wherever it is made: a path loses nothing but the   *)
(* node that is skipped.                                                   *)
LEMMA SkipKeepsPaths ==
  ASSUME NEW h \in Heaps, Acyclic(h), NEW n \in Addrs, NEW C, NEW k,
         k = [a \in Addrs |-> IF h[a].next = n /\ a \in C
                              THEN [h[a] EXCEPT !.next = h[n].next] ELSE h[a]]
  PROVE  /\ k \in Heaps
         /\ Acyclic(k)
         /\ \A x \in Links : Path(h, x) \ {n} \subseteq Path(k, x)
<1>1. k \in Heaps
  BY DEF Heaps
<1>2. ASSUME NEW a \in Addrs
      PROVE  k[a].next = h[a].next \/ (h[a].next = n /\ k[a].next = h[n].next)
  BY DEF Heaps
<1>3. h[n].next # n
  <2>1. \E a \in {n} : h[a].next \notin {n}
    BY DEF Acyclic
  <2> QED
    BY <2>1
<1>4. Acyclic(k)
  <2> SUFFICES ASSUME NEW S \in (SUBSET Addrs) \ {{}}
               PROVE  \E a \in S : k[a].next \notin S
    BY DEF Acyclic
  <2>1. PICK a \in S : h[a].next \notin S
    BY DEF Acyclic
  <2>2. PICK b \in S \cup {n} : h[b].next \notin S \cup {n}
    <3>1. S \cup {n} \in (SUBSET Addrs) \ {{}}
      OBVIOUS
    <3> QED
      BY <3>1 DEF Acyclic
  <2>3. CASE b \in S
    BY <1>2, <2>2, <2>3
  <2>4. CASE b = n
    BY <1>2, <2>1, <2>2, <2>4
  <2> QED
    BY <2>2, <2>3, <2>4
<1>5. ASSUME NEW x \in Links, NEW a \in Path(h, x) \ {n}
      PROVE  a \in Path(k, x)
  <2>0. a \in Addrs
    BY DEF Path
  <2> SUFFICES ASSUME NEW S \in SUBSET Addrs, x \in S \cup {NULL}, Closed(k, S)
               PROVE  a \in S
    BY <2>0 DEF Path
  <2>1. CASE Closed(h, S)
    BY <2>1, PathIsLeast
  <2>2. CASE ~Closed(h, S)
    <3>1. PICK b \in S : h[b].next \notin S \cup {NULL}
      BY <2>2 DEF Closed
    <3>2. h[b].next = n /\ k[b].next = h[n].next
      BY <1>2, <3>1 DEF Closed
    <3>3. h[n].next \in S \cup {NULL}
      BY <3>2 DEF Closed
    <3>4. Closed(h, S \cup {n})
      BY <1>2, <3>3 DEF Closed
    <3>5. a \in S \cup {n}
      BY <3>4, PathIsLeast
    <3> QED
      BY <3>5
  <2> QED
    BY <2>1, <2>2
<1> QED
  BY <1>1, <1>4, <1>5

(* start_timer's store to a node outside of the list: what a path had of   *)
(* the list it keeps, although other nodes may still lead to this one.     *)
LEMMA LinkKeepsPaths ==
  ASSUME NEW h \in Heaps, Acyclic(h), NEW n \in Addrs, NEW g \in Links,
         n \notin Path(h, g), NEW k \in Heaps, k[n].next = g,
         \A a \in Addrs \ {n} : k[a] = h[a]
  PROVE  /\ Acyclic(k)
         /\ Path(k, g) = Path(h, g)
         /\ \A x \in Links : Path(h, x) \cap Path(h, g) \subseteq Path(k, x)
<1> DEFINE T == Path(h, g)
<1>1. k[n].next = g /\ \A a \in Addrs \ {n} : k[a] = h[a]
  OBVIOUS
<1>2. T \subseteq Addrs /\ Closed(h, T) /\ g \in T \cup {NULL}
  BY PathIsClosed
<1>3. NULL \notin Addrs
  BY NullIsElsewhere
<1>4. Acyclic(k)
  <2> SUFFICES ASSUME NEW S \in (SUBSET Addrs) \ {{}}
               PROVE  \E a \in S : k[a].next \notin S
    BY DEF Acyclic
  <2>1. CASE S \cap T # {}
    <3>1. PICK a \in S \cap T : h[a].next \notin S \cap T
      BY <1>2, <2>1 DEF Acyclic
    <3>2. h[a].next \in T \cup {NULL}
      BY <1>2, <3>1 DEF Closed
    <3> QED
      BY <1>1, <1>2, <1>3, <3>1, <3>2
  <2>2. CASE S \cap T = {}
    <3>1. CASE n \in S
      BY <1>1, <1>2, <1>3, <2>2, <3>1
    <3>2. CASE n \notin S
      <4>1. PICK a \in S : h[a].next \notin S
        BY DEF Acyclic
      <4> QED
        BY <1>1, <3>2, <4>1
    <3> QED
      BY <3>1, <3>2
  <2> QED
    BY <2>1, <2>2
<1>5. ASSUME NEW x \in Links, NEW a \in Path(h, x) \cap T
      PROVE  a \in Path(k, x)
  <2>0. a \in Addrs
    BY <1>2
  <2> SUFFICES ASSUME NEW S \in SUBSET Addrs, x \in S \cup {NULL}, Closed(k, S)
               PROVE  a \in S
    BY <2>0 DEF Path
  <2>1. CASE n \in S
    <3>1. g \in S \cup {NULL}
      BY <1>1, <2>1 DEF Closed
    <3>2. Closed(h, S \cap T)
      BY <1>1, <1>2 DEF Closed
    <3>3. S \cap T \in SUBSET Addrs /\ g \in (S \cap T) \cup {NULL}
      BY <1>2, <3>1
    <3>4. T \subseteq S \cap T
      BY <3>2, <3>3, PathIsLeast
    <3> QED
      BY <3>4
  <2>2. CASE n \notin S
    <3>1. Closed(h, S)
      BY <1>1, <2>2 DEF Closed
    <3> QED
      BY <3>1, PathIsLeast
  <2> QED
    BY <2>1, <2>2
<1>6. Path(k, g) = T
  <2>1. Closed(k, T)
    BY <1>1, <1>2 DEF Closed
  <2>2. Path(k, g) \subseteq T
    BY <1>2, <2>1, PathIsLeast
  <2> QED
    BY <2>2, <1>5
<1> QED
  BY <1>4, <1>5, <1>6
------------------------------------------------------------------------------
(* The inductive invariant.                                                *)

Building == {"create", "link", "head"}
Stopping == {"close", "unhead", "unlink", "free"}
Ending == {"terminate", "join", "joined"}

(* The types of the variables, but for what poll reported.                 *)
Types ==
  /\ {g_head, node, tmp} \subseteq Links
  /\ heap \in Heaps
  /\ timerfd \in [Fds -> FdStates]
  /\ timer_id \in [Peers -> Links]
  /\ {peer, args} \subseteq Peers \cup {NULL}
  /\ ufds \in Seq(Fds \cup {NoFd})
  /\ timers \subseteq Addrs
  /\ mpc \in {"idle", "malloc", "crashed"} \cup Building \cup Stopping \cup Ending
  /\ mpc \in {"idle"} \cup Ending => peer = NULL
  /\ mpc \in {"malloc"} \cup Building => peer \in Peers
  /\ mpc \in Building \cup Stopping => node \in Addrs
  /\ tpc \in {"advance", "lookup next", "call"} => tmp \in Addrs

(* The list, and where the node under the main thread's hands is in it.    *)
ListInv ==
  /\ Acyclic(heap)
  /\ ListIsTimers
  /\ mpc \in {"close", "unhead"} => node \in timers
  /\ mpc = "unlink" => node # g_head
  /\ mpc \in {"free"} \cup Building => node \notin timers
  /\ mpc = "head" => heap[node].next = g_head
  /\ mpc \in {"join", "joined"} => g_head = NULL

(* The allocated nodes are the timers and the node under its hands.        *)
MemoryInv ==
  mpc # "crashed" =>
    allocated = timers \cup (IF mpc \in {"unlink", "free"} \cup Building
                             THEN {node} ELSE {})

(* The table of the client names different timers, except for the peer     *)
(* whose timer is being restarted; a manager that ends is past caring.     *)
TableInv ==
  mpc \notin Ending /\ (peer = NULL => mpc = "idle") =>
    \A p \in Peers : p # peer /\ timer_id[p] # NULL =>
      /\ timer_id[p] \in timers
      /\ mpc \in Stopping => timer_id[p] # node
      /\ \A q \in Peers : q # peer /\ q # p => timer_id[q] # timer_id[p]

(* Descriptors are open while they are some timer's, one for each.         *)
DescriptorInv ==
  /\ \A a \in timers : heap[a].fd \in Fds
  /\ \A a, b \in timers : a # b => heap[a].fd # heap[b].fd
  /\ mpc \in {"link", "head"} =>
       /\ heap[node].fd \in Fds
       /\ timerfd[heap[node].fd] # "closed"
       /\ \A a \in timers : heap[a].fd # heap[node].fd
  /\ mpc \in {"unhead", "unlink"} =>
       heap[node].fd \in Fds /\ timerfd[heap[node].fd] = "closed"
  /\ mpc # "crashed" =>
       /\ \A f \in Fds : timerfd[f] # "closed" =>
            \/ \E a \in timers : heap[a].fd = f
            \/ mpc \in {"link", "head"} /\ heap[node].fd = f
       /\ \A a \in timers :
            timerfd[heap[a].fd] # "closed" \/ (a = node /\ mpc \in {"unhead", "unlink"})

(* What a walk has not collected yet is on the way before it.              *)
Ahead(a, n) == heap[a].fd \in ToSet(ufds) \/ a \in Path(heap, n)

WalkInv ==
  /\ throughout \subseteq timers
  /\ tpc = "collect" => \A a \in throughout : Ahead(a, tmp)
  /\ tpc = "advance" => \A a \in throughout : Ahead(a, heap[tmp].next)

IInv == Types /\ ListInv /\ MemoryInv /\ TableInv /\ DescriptorInv /\ WalkInv

------------------------------------------------------------------------------
(* The initial states satisfy it.                                          *)
LEMMA InitInv == Init => IInv
<1> SUFFICES ASSUME Init PROVE IInv
  OBVIOUS
<1> USE DEF Init
<1>1. Types
  BY DEF Types, Links, Heaps, FdStates, NoFd, Building, Stopping, Ending
<1>2. ListInv
  <2>1. Acyclic(heap)
    BY NullIsElsewhere DEF Acyclic
  <2> QED
    BY <2>1, PathOfNull DEF ListInv, ListIsTimers, Building
<1>3. MemoryInv
  BY DEF MemoryInv, Building
<1>4. TableInv
  BY DEF TableInv
<1>5. DescriptorInv
  BY DEF DescriptorInv
<1>6. WalkInv
  BY DEF WalkInv
<1> QED
  BY <1>1, <1>2, <1>3, <1>4, <1>5, <1>6 DEF IInv

------------------------------------------------------------------------------
(* The timer thread and the clock: they write no pointer and no node, open *)
(* and close no descriptor, and forget at most a timer of the table.       *)
LEMMA StructureKept ==
  ASSUME IInv,
         UNCHANGED <<g_head, heap, allocated, timers, node, peer>>,
         mpc' = mpc \/ mpc' = "crashed",
         \A f \in Fds : timerfd'[f] = "closed" <=> timerfd[f] = "closed",
         \A p \in Peers : timer_id'[p] \in {timer_id[p], NULL}
  PROVE  ListInv' /\ MemoryInv' /\ TableInv' /\ DescriptorInv'
<1>1. ListInv'
  BY DEF IInv, ListInv, ListIsTimers, Acyclic, Path, Closed, Building
<1>2. MemoryInv'
  BY DEF IInv, MemoryInv, Building
<1>3. TableInv'
  <2>1. CASE mpc' = mpc
    BY <2>1 DEF IInv, TableInv
  <2>2. CASE mpc' = "crashed"
    <3>1. peer # NULL => mpc \notin Ending
      BY DEF IInv, Types
    <3> QED
      BY <2>2, <3>1 DEF IInv, TableInv, Stopping
  <2> QED
    BY <2>1, <2>2
<1>4. DescriptorInv'
  BY DEF IInv, DescriptorInv
<1> QED
  BY <1>1, <1>2, <1>3, <1>4

(* A step of the thread that leaves what it has collected as it is.        *)
LEMMA WalkKept ==
  ASSUME IInv, UNCHANGED <<heap, timers, throughout>>,
         tpc' \notin {"collect", "advance"} \/ UNCHANGED <<tpc, tmp, ufds>>
  PROVE  WalkInv'
BY DEF IInv, WalkInv, Ahead, Path, Closed

(* Every step of the timer thread preserves the invariant.                 *)
LEMMA ThreadInv ==
  ASSUME IInv, TimerStep
  PROVE  IInv'
<1> USE DEF IInv
<1>1. CASE TestCancel
  <2>1. Types'
    BY <1>1 DEF TestCancel, Types, shared, mainVars
  <2>2. WalkInv'
    BY <1>1 DEF TestCancel, WalkInv, Ahead, ListInv, ListIsTimers, shared, Path, Closed
  <2> QED
    BY <1>1, <2>1, <2>2, StructureKept DEF TestCancel, shared, mainVars
<1>2. CASE CollectFd
  <2>1. tmp \in Addrs /\ heap[tmp].fd \in Fds \cup {NoFd}
    BY <1>2 DEF CollectFd, Types, Links, Heaps
  <2>2. Types'
    BY <1>2, <2>1 DEF CollectFd, Types, shared, mainVars
  <2>3. WalkInv'
    <3>1. ToSet(ufds') = ToSet(ufds) \cup {heap[tmp].fd}
      BY <1>2, <2>1 DEF CollectFd, Types, ToSet
    <3>2. \A a \in throughout : heap[a].fd \in ToSet(ufds) \/ a \in Path(heap, tmp)
      BY <1>2 DEF CollectFd, WalkInv, Ahead
    <3>3. Path(heap, tmp) = {tmp} \cup Path(heap, heap[tmp].next)
      BY <2>1, PathStep DEF Types
    <3>4. \A a \in throughout :
            heap[a].fd \in ToSet(ufds') \/ a \in Path(heap, heap[tmp].next)
      BY <3>1, <3>2, <3>3
    <3> QED
      BY <1>2, <3>4 DEF CollectFd, WalkInv, Ahead, shared, Path, Closed
  <2> QED
    BY <1>2, <2>2, <2>3, StructureKept DEF CollectFd, shared, mainVars
<1>3. CASE CollectNext
  <2>1. Types'
    BY <1>3 DEF CollectNext, Types, shared, mainVars, Heaps
  <2>2. WalkInv'
    BY <1>3 DEF CollectNext, WalkInv, Ahead, shared, Path, Closed
  <2> QED
    BY <1>3, <2>1, <2>2, StructureKept DEF CollectNext, shared, mainVars
<1>4. CASE Poll
  <2>1. Types'
    <3>1. /\ UNCHANGED <<shared, timerfd, mainVars, tmp, args>>
          /\ tpc' \in {"test", "read"} /\ ufds' = <<>>
      BY <1>4 DEF Poll
    <3> QED
      BY <3>1, EmptySeq DEF Types, shared, mainVars
  <2>2. WalkInv'
    BY <1>4 DEF Poll, WalkInv, shared
  <2> QED
    BY <1>4, <2>1, <2>2, StructureKept DEF Poll, shared, mainVars
<1>5. CASE Read \/ ReadReturns
  <2>1. /\ timerfd' \in [Fds -> FdStates]
        /\ \A f \in Fds : timerfd'[f] = "closed" <=> timerfd[f] = "closed"
    BY <1>5 DEF Read, ReadReturns, Types, FdStates
  <2>2. /\ tmp' \in {g_head, tmp, NULL}
        /\ tpc' \in {"lookup", "blocked", "test", "read"}
        /\ UNCHANGED <<g_head, heap, allocated, timers, mpc, node, peer, timer_id,
                      args, ufds, throughout>>
    BY <1>5 DEF Read, ReadReturns, Goes, shared, mainVars
  <2>3. Types'
    BY <2>1, <2>2 DEF Types, Links
  <2>4. WalkInv'
    BY <2>2, WalkKept
  <2> QED
    BY <2>1, <2>2, <2>3, <2>4, StructureKept
<1>6. CASE Lookup \/ LookupNext
  <2>1. UNCHANGED <<g_head, heap, allocated, timers, mpc, node, peer, timer_id,
                    timerfd, args, ufds, throughout>>
    BY <1>6 DEF Lookup, LookupNext, shared, mainVars
  <2>2. tpc' \in {"test", "read", "call", "lookup next", "lookup"}
    BY <1>6 DEF Lookup, LookupNext, Goes
  <2>3. tmp' \in Links /\ (tpc' \in {"call", "lookup next"} => tmp' \in Addrs)
    BY <1>6 DEF Lookup, LookupNext, Goes, Types, Links, Heaps
  <2>4. Types'
    BY <2>1, <2>2, <2>3 DEF Types
  <2>5. WalkInv'
    BY <2>1, <2>2, WalkKept
  <2> QED
    BY <2>1, <2>4, <2>5, StructureKept
<1>7. CASE Call
  <2>1. /\ UNCHANGED <<g_head, heap, allocated, timers, node, peer, timer_id,
                      timerfd, ufds, throughout>>
        /\ mpc' = mpc \/ mpc' = "crashed"
        /\ tpc' \in {"handle", "crashed", "test", "read"}
        /\ tmp' \in {tmp, NULL}
    BY <1>7 DEF Call, Goes, shared, operation
  <2>2. Types'
    <3>1. args' \in Peers \cup {NULL}
      BY <1>7 DEF Call, Types, Heaps
    <3>2. tmp' \in Links
      BY <2>1 DEF Types, Links
    <3> QED
      BY <2>1, <3>1, <3>2 DEF Types, Building, Stopping, Ending
  <2>3. WalkInv'
    BY <2>1, WalkKept
  <2> QED
    BY <2>1, <2>2, <2>3, StructureKept
<1>8. CASE HandleTimeout
  <2>1. /\ UNCHANGED <<g_head, heap, allocated, timerfd, timers, mpc, node, peer,
                      ufds, throughout>>
        /\ tpc' \in {"test", "read"} /\ tmp' = NULL /\ args' = NULL
    BY <1>8 DEF HandleTimeout, Goes, memory, history, mainVars
  <2>2. timer_id' \in [Peers -> Links]
        /\ \A p \in Peers : timer_id'[p] \in {timer_id[p], NULL}
    BY <1>8 DEF HandleTimeout, Types, Links
  <2>3. Types'
    BY <2>1, <2>2 DEF Types, Links
  <2>4. WalkInv'
    BY <2>1, WalkKept
  <2> QED
    BY <2>1, <2>2, <2>3, <2>4, StructureKept
<1> QED
  BY <1>1, <1>2, <1>3, <1>4, <1>5, <1>6, <1>7, <1>8 DEF TimerStep

(* So does the clock.                                                      *)
LEMMA ClockInv ==
  ASSUME IInv, Clock
  PROVE  IInv'
<1> USE DEF IInv
<1>1. /\ UNCHANGED <<g_head, heap, allocated, timers, timer_id, mpc, node, peer, tpc,
                    tmp, ufds, args, throughout>>
      /\ timerfd' \in [Fds -> FdStates]
      /\ \A f \in Fds : timerfd'[f] = "closed" <=> timerfd[f] = "closed"
  BY DEF Clock, Expire, ExpireHeld, shared, mainVars, threadVars, Types, FdStates
<1>2. Types'
  BY <1>1 DEF Types
<1>3. WalkInv'
  BY <1>1, WalkKept
<1> QED
  BY <1>1, <1>2, <1>3, StructureKept

------------------------------------------------------------------------------
(* The main thread.                                                        *)

(* Steps that write neither the list nor the memory.                       *)
LEMMA ControlInv ==
  ASSUME IInv, Terminate \/ StopNext \/ Cancel \/ Join \/ \E p \in Peers : Receive(p)
  PROVE  IInv'
<1> USE DEF IInv
<1>1. UNCHANGED <<g_head, memory, timer_id, threadVars, history>>
  BY DEF Terminate, StopNext, Cancel, Join, Receive, operation, others
<1>2. WalkInv'
  BY <1>1 DEF WalkInv, Ahead, Path, Closed, memory, threadVars, history
<1>3. Acyclic(heap)' /\ ListIsTimers'
  BY <1>1 DEF ListInv, Acyclic, ListIsTimers, Path, Closed, memory, history
<1>4. CASE Terminate
  <2>1. mpc = "idle" /\ mpc' = "terminate" /\ UNCHANGED <<node, peer>>
    BY <1>4 DEF Terminate, operation
  <2>2. Types'
    BY <1>1, <2>1 DEF Types, Building, Stopping, Ending, memory, threadVars, history
  <2>3. ListInv' /\ MemoryInv' /\ TableInv'
    BY <1>1, <1>3, <2>1 DEF ListInv, MemoryInv, TableInv, Building, Stopping,
       Ending, memory, history
  <2>4. DescriptorInv'
    BY <1>1, <2>1 DEF DescriptorInv, memory, history
  <2> QED
    BY <1>2, <2>2, <2>3, <2>4
<1>5. CASE StopNext
  <2>1. /\ mpc = "terminate" /\ mpc' = "close" /\ UNCHANGED peer
        /\ node' = g_head /\ g_head # NULL
    BY <1>5 DEF StopNext, NextToStop
  <2>2. Types'
    BY <1>1, <2>1 DEF Types, Links, Building, Stopping, Ending, memory, threadVars,
       history
  <2>3. g_head \in timers
    BY <2>1, PathIsClosed DEF Types, ListInv, ListIsTimers
  <2>4. ListInv'
    BY <1>1, <1>3, <2>1, <2>3 DEF ListInv, Building, memory, history
  <2>5. MemoryInv' /\ TableInv'
    BY <1>1, <2>1 DEF Types, MemoryInv, TableInv, Building, Stopping, Ending,
       memory, history
  <2>6. DescriptorInv'
    BY <1>1, <2>1 DEF DescriptorInv, memory, history
  <2> QED
    BY <1>2, <2>2, <2>4, <2>5, <2>6
<1>6. CASE Cancel \/ Join
  <2>1. /\ mpc \in {"terminate", "join"} /\ mpc' \in {"join", "joined"}
        /\ g_head = NULL /\ UNCHANGED <<node, peer>>
    BY <1>6 DEF Cancel, Join, NextToStop, operation, ListInv
  <2>2. Types'
    BY <1>1, <2>1 DEF Types, Building, Stopping, Ending, memory, threadVars, history
  <2>3. ListInv' /\ MemoryInv' /\ TableInv'
    BY <1>1, <1>3, <2>1 DEF ListInv, MemoryInv, TableInv, Building, Stopping,
       Ending, memory, history
  <2>4. DescriptorInv'
    BY <1>1, <2>1 DEF DescriptorInv, memory, history
  <2> QED
    BY <1>2, <2>2, <2>3, <2>4
<1>7. ASSUME NEW p \in Peers, Receive(p)
      PROVE  IInv'
  <2>1. /\ mpc = "idle" /\ peer = NULL /\ peer' = p /\ node' = timer_id[p]
        /\ mpc' = IF timer_id[p] = NULL THEN "malloc" ELSE "close"
    BY <1>7 DEF Receive, Types
  <2>2. \A q \in Peers : q # NULL
    BY NullIsElsewhere
  <2>3. timer_id[p] = NULL \/ timer_id[p] \in timers
    BY <2>1, <2>2 DEF TableInv, Ending
  <2>4. Types'
    BY <1>1, <2>1, <2>3 DEF Types, Links, Building, Stopping, Ending, memory,
       threadVars, history
  <2>5. ListInv'
    BY <1>1, <1>3, <2>1, <2>3 DEF ListInv, Building, memory, history
  <2>6. MemoryInv'
    BY <1>1, <2>1 DEF MemoryInv, Building, memory, history
  <2>7. TableInv'
    BY <1>1, <2>1, <2>2, <2>3 DEF TableInv, Stopping, Ending, memory, history
  <2>8. DescriptorInv'
    BY <1>1, <2>1 DEF DescriptorInv, memory, history
  <2> QED
    BY <1>2, <2>4, <2>5, <2>6, <2>7, <2>8
<1> QED
  BY <1>4, <1>5, <1>6, <1>7

(* The descriptor is closed first, while the timer is in the list.         *)
LEMMA CloseInv ==
  ASSUME IInv, Close
  PROVE  IInv'
<1> USE DEF IInv
<1>1. /\ mpc = "close" /\ mpc' = "unhead"
      /\ UNCHANGED <<g_head, heap, allocated, timer_id, node, peer, tpc, tmp, ufds,
                    args, timers, throughout>>
      /\ timerfd' = [timerfd EXCEPT ![heap[node].fd] = "closed"]
  BY DEF Close, operation, threadVars, history
<1>2. node \in timers /\ heap[node].fd \in Fds
  BY <1>1 DEF ListInv, DescriptorInv
<1>3. Types'
  BY <1>1 DEF Types, FdStates, Building, Stopping, Ending
<1>4. ListInv'
  BY <1>1 DEF ListInv, ListIsTimers, Acyclic, Path, Closed, Building
<1>5. MemoryInv' /\ TableInv'
  BY <1>1 DEF MemoryInv, TableInv, Building, Stopping, Ending
<1>6. DescriptorInv'
  <2>1. \A f \in Fds : timerfd'[f] = IF f = heap[node].fd THEN "closed" ELSE timerfd[f]
    BY <1>1 DEF Types
  <2> QED
    BY <1>1, <1>2, <2>1 DEF DescriptorInv
<1>7. WalkInv'
  BY <1>1 DEF WalkInv, Ahead, Path, Closed
<1> QED
  BY <1>3, <1>4, <1>5, <1>6, <1>7

(* The head moves past the node, if it is the first.                       *)
LEMMA UnheadInv ==
  ASSUME IInv, Unhead
  PROVE  IInv'
<1> USE DEF IInv
<1>1. /\ mpc = "unhead" /\ mpc' = "unlink"
      /\ UNCHANGED <<heap, allocated, timerfd, timer_id, node, peer, tpc, tmp, ufds,
                    args>>
  BY DEF Unhead, memory, operation, others, threadVars
<1>2. CASE node # g_head
  <2>1. UNCHANGED <<g_head, timers, throughout>>
    BY <1>2 DEF Unhead
  <2>2. Types'
    BY <1>1, <2>1 DEF Types, Building, Stopping, Ending
  <2>3. ListInv'
    BY <1>1, <1>2, <2>1 DEF ListInv, ListIsTimers, Acyclic, Path, Closed, Building
  <2>4. MemoryInv' /\ TableInv'
    BY <1>1, <2>1 DEF ListInv, MemoryInv, TableInv, Building, Stopping, Ending
  <2>5. DescriptorInv'
    BY <1>1, <2>1 DEF DescriptorInv
  <2>6. WalkInv'
    BY <1>1, <2>1 DEF WalkInv, Ahead, Path, Closed
  <2> QED
    BY <2>2, <2>3, <2>4, <2>5, <2>6
<1>3. CASE node = g_head
  <2>1. /\ g_head' = heap[node].next /\ timers' = timers \ {node}
        /\ throughout' = throughout \ {node}
    BY <1>3 DEF Unhead
  <2>2. node \in Addrs /\ heap[node].next \in Links /\ node \in timers
    BY <1>1 DEF Types, Heaps, ListInv, Stopping
  <2>3. Types'
    BY <1>1, <2>1, <2>2 DEF Types, Building, Stopping, Ending
  <2>4. /\ Path(heap, node) = {node} \cup Path(heap, heap[node].next)
        /\ node \notin Path(heap, heap[node].next)
    BY <2>2, PathStep, NoReturn DEF Types, ListInv
  <2>5. Path(heap, g_head)' = timers'
    BY <1>1, <1>3, <2>1, <2>4 DEF ListInv, ListIsTimers, Path, Closed
  <2>6. heap[node].next # node
    BY <2>2, <2>4, PathIsClosed, NullIsElsewhere DEF Types
  <2>7. ListInv'
    BY <1>1, <2>1, <2>5, <2>6 DEF ListInv, ListIsTimers, Acyclic, Building
  <2>8. MemoryInv'
    BY <1>1, <2>1, <2>2 DEF MemoryInv, Building
  <2>9. TableInv'
    BY <1>1, <2>1 DEF TableInv, Building, Stopping, Ending
  <2>10. DescriptorInv'
    BY <1>1, <2>1, <2>2 DEF DescriptorInv
  <2>11. WalkInv'
    BY <1>1, <2>1 DEF WalkInv, Ahead, Path, Closed
  <2> QED
    BY <2>3, <2>7, <2>8, <2>9, <2>10, <2>11
<1> QED
  BY <1>2, <1>3

(* The store that skips the node, if it is still in the list.              *)
LEMMA UnlinkInv ==
  ASSUME IInv, Unlink
  PROVE  IInv'
<1> USE DEF IInv
<1>1. /\ mpc = "unlink" /\ mpc' = "free" /\ heap' = Skipped(node)
      /\ timers' = timers \ {node} /\ throughout' = throughout \ {node}
      /\ UNCHANGED <<g_head, allocated, timerfd, timer_id, node, peer, tpc, tmp, ufds,
                    args>>
  BY DEF Unlink, operation, others, threadVars
<1>2. node \in Addrs /\ node # g_head /\ node # NULL
  BY <1>1, NullIsElsewhere DEF Types, ListInv, Stopping
<1>3. /\ heap' \in Heaps
      /\ Acyclic(heap')
      /\ \A x \in Links : Path(heap, x) \ {node} \subseteq Path(heap', x)
  <2>1. heap' = [a \in Addrs |->
                   IF heap[a].next = node /\ a \in Path(heap, g_head)
                   THEN [heap[a] EXCEPT !.next = heap[node].next] ELSE heap[a]]
    BY <1>1 DEF Skipped
  <2>2. heap \in Heaps /\ Acyclic(heap)
    BY DEF Types, ListInv
  <2> DEFINE k == heap'
             C == Path(heap, g_head)
  <2> HIDE DEF k, C
  <2>3. k = [a \in Addrs |-> IF heap[a].next = node /\ a \in C
                             THEN [heap[a] EXCEPT !.next = heap[node].next] ELSE heap[a]]
    BY <2>1 DEF k, C
  <2>4. /\ k \in Heaps /\ Acyclic(k)
        /\ \A x \in Links : Path(heap, x) \ {node} \subseteq Path(k, x)
    BY <1>2, <2>2, <2>3, SkipKeepsPaths
  <2> QED
    BY <2>4 DEF k
<1>4. \A a \in Addrs :
        /\ heap'[a].fd = heap[a].fd
        /\ heap'[a].next = IF heap[a].next = node /\ a \in timers
                           THEN heap[node].next ELSE heap[a].next
  BY <1>1 DEF Skipped, Types, ListInv, ListIsTimers, Heaps
<1>5. Types'
  BY <1>1, <1>3 DEF Types, Building, Stopping, Ending
<1>6. Path(heap', g_head) = timers \ {node}
  <2>1. timers \subseteq Addrs /\ Closed(heap, timers) /\ g_head \in timers \cup {NULL}
    BY PathIsClosed DEF Types, ListInv, ListIsTimers
  <2>2. heap[node].next # node
    <3>1. \E a \in {node} : heap[a].next \notin {node}
      BY <1>2 DEF ListInv, Acyclic
    <3> QED
      BY <3>1
  <2>3. Closed(heap', timers \ {node})
    <3> SUFFICES ASSUME NEW a \in timers \ {node}
                 PROVE  heap'[a].next \in (timers \ {node}) \cup {NULL}
      BY DEF Closed
    <3>1. a \in Addrs /\ heap[a].next \in timers \cup {NULL}
      BY <2>1 DEF Closed
    <3>2. CASE heap[a].next = node
      <4>1. heap'[a].next = heap[node].next /\ node \in timers
        BY <1>2, <1>4, <3>1, <3>2
      <4>2. heap[node].next \in timers \cup {NULL}
        BY <2>1, <4>1 DEF Closed
      <4> QED
        BY <2>2, <4>1, <4>2
    <3>3. CASE heap[a].next # node
      BY <1>4, <3>1, <3>3
    <3> QED
      BY <3>2, <3>3
  <2>4. Path(heap', g_head) \subseteq timers \ {node}
    BY <1>2, <2>1, <2>3, PathIsLeast
  <2>5. timers \ {node} \subseteq Path(heap', g_head)
    BY <1>3 DEF Types, ListInv, ListIsTimers
  <2> QED
    BY <2>4, <2>5
<1>7. ListInv'
  <2>1. (Path(heap, g_head))' = Path(heap', g_head)
    BY <1>1 DEF Path, Closed
  <2> QED
    BY <1>1, <1>3, <1>6, <2>1 DEF ListInv, ListIsTimers, Acyclic, Building
<1>8. MemoryInv'
  BY <1>1 DEF MemoryInv, Building
<1>9. TableInv'
  BY <1>1 DEF TableInv, Building, Stopping, Ending
<1>10. DescriptorInv'
  <2>1. timers \subseteq Addrs
    BY DEF Types
  <2> QED
    BY <1>1, <1>2, <1>4, <2>1 DEF DescriptorInv
<1>11. WalkInv'
  <2>1. throughout' \subseteq timers' /\ throughout' \subseteq Addrs \ {node}
    BY <1>1 DEF WalkInv, Types
  <2>2. ASSUME tpc' = "collect", NEW a \in throughout'
        PROVE  heap'[a].fd \in ToSet(ufds) \/ a \in Path(heap', tmp)
    <3>1. heap[a].fd \in ToSet(ufds) \/ a \in Path(heap, tmp)
      BY <1>1, <2>2 DEF WalkInv, Ahead
    <3> QED
      BY <1>3, <1>4, <2>1, <3>1 DEF Types
  <2>3. ASSUME tpc' = "advance", NEW a \in throughout'
        PROVE  heap'[a].fd \in ToSet(ufds) \/ a \in Path(heap', heap'[tmp].next)
    <3>1. tmp \in Addrs /\ heap[tmp].next \in Links /\ heap'[tmp].next \in Links
      BY <1>1, <1>3, <2>3 DEF Types, Heaps
    <3>2. heap[a].fd \in ToSet(ufds) \/ a \in Path(heap, heap[tmp].next)
      BY <1>1, <2>3 DEF WalkInv, Ahead
    <3>3. a \in Path(heap, heap[tmp].next) => a \in Path(heap, heap'[tmp].next)
      <4>1. CASE heap'[tmp].next = heap[tmp].next
        BY <4>1
      <4>2. CASE heap[tmp].next = node /\ heap'[tmp].next = heap[node].next
        <5>1. heap \in Heaps
          BY DEF Types
        <5>2. Path(heap, node) = {node} \cup Path(heap, heap[node].next)
          BY ONLY <1>2, <5>1, PathStep
        <5>3. a # node
          BY ONLY <2>1, a \in throughout'
        <5> QED
          BY ONLY <4>2, <5>2, <5>3
      <4> QED
        BY <1>4, <3>1, <4>1, <4>2
    <3> QED
      BY <1>3, <1>4, <2>1, <3>1, <3>2, <3>3
  <2> QED
    BY <1>1, <2>1, <2>2, <2>3 DEF WalkInv, Ahead, Path, Closed
<1> QED
  BY <1>5, <1>7, <1>8, <1>9, <1>10, <1>11

(* Stores to a node outside of the list, to other fields than `next'.      *)
LEMMA FieldsKeepWalk ==
  ASSUME IInv, heap' \in Heaps,
         \A a \in Addrs : heap'[a].next = heap[a].next,
         \A a \in timers : heap'[a] = heap[a],
         UNCHANGED <<g_head, timers, throughout, tpc, tmp, ufds>>
  PROVE  Acyclic(heap') /\ (ListIsTimers)' /\ WalkInv'
<1> USE DEF IInv
<1>1. Acyclic(heap') /\ \A n : Path(heap', n) = Path(heap, n)
  BY SameNext DEF ListInv
<1>2. ListIsTimers'
  BY <1>1, ZenonT(30) DEF ListInv, ListIsTimers, Path, Closed
<1>3. WalkInv'
  <2>1. tpc = "advance" => heap'[tmp].next = heap[tmp].next
    BY DEF Types
  <2>2. throughout \subseteq timers
    BY DEF WalkInv
  <2>3. ASSUME NEW a \in throughout, NEW n
        PROVE  heap[a].fd \in ToSet(ufds) \/ a \in Path(heap, n)
                 => heap'[a].fd \in ToSet(ufds') \/ a \in Path(heap', n)
    BY <1>1, <2>2
  <2> QED
    BY <2>1, <2>2, <2>3 DEF WalkInv, Ahead, Path, Closed
<1> QED
  BY <1>1, <1>2, <1>3

(* The node is freed; its `next' stays readable.                           *)
LEMMA FreeInv ==
  ASSUME IInv, Free
  PROVE  IInv'
<1> USE DEF IInv
<1>1. /\ mpc = "free" /\ mpc' = IF peer = NULL THEN "terminate" ELSE "malloc"
      /\ heap' = [heap EXCEPT ![node] = Freed(heap[node])]
      /\ allocated' = allocated \ {node}
      /\ UNCHANGED <<g_head, timerfd, timer_id, node, peer, tpc, tmp, ufds, args,
                    timers, throughout>>
  BY DEF Free, operation, others, threadVars, history
<1>2. node \in Addrs /\ node \notin timers
  BY <1>1 DEF Types, ListInv, Stopping
<1>3. /\ heap' \in Heaps
      /\ \A a \in Addrs : heap'[a].next = heap[a].next
      /\ \A a \in timers : heap'[a] = heap[a]
  BY <1>1, <1>2 DEF Freed, Types, Heaps
<1>4. Types'
  BY <1>1, <1>3 DEF Types, Building, Stopping, Ending
<1>5. Acyclic(heap') /\ (ListIsTimers)' /\ WalkInv'
  BY <1>1, <1>3, FieldsKeepWalk
<1>6. ListInv'
  BY <1>1, <1>5 DEF ListInv, Acyclic, Building
<1>7. MemoryInv'
  BY <1>1, <1>2 DEF MemoryInv, Building
<1>8. TableInv'
  BY <1>1 DEF TableInv, Building, Stopping, Ending
<1>9. DescriptorInv'
  BY <1>1, <1>3 DEF DescriptorInv
<1> QED
  BY <1>4, <1>5, <1>6, <1>7, <1>8, <1>9

(* A node that is nobody's is allocated, perhaps one a walk still stands on.*)
LEMMA MallocInv ==
  ASSUME IInv, Malloc
  PROVE  IInv'
<1> USE DEF IInv
<1>1. /\ mpc = "malloc" /\ mpc' = "create"
      /\ UNCHANGED <<g_head, timerfd, timer_id, peer, tpc, tmp, ufds, args, timers,
                    throughout>>
  BY DEF Malloc, others, threadVars, history
<1>2. /\ node' \in Addrs \ allocated /\ allocated' = allocated \cup {node'}
      /\ heap' = [heap EXCEPT ![node'].user_ip = peer]
  BY DEF Malloc
<1>3. allocated = timers
  BY <1>1 DEF MemoryInv, Building
<1>4. /\ heap' \in Heaps
      /\ \A a \in Addrs : heap'[a].next = heap[a].next /\ heap'[a].fd = heap[a].fd
      /\ \A a \in timers : heap'[a] = heap[a]
  BY <1>1, <1>2, <1>3 DEF Types, Heaps, Building
<1>5. Types'
  BY <1>1, <1>2, <1>4 DEF Types, Links, Building, Stopping, Ending
<1>6. Acyclic(heap') /\ (ListIsTimers)' /\ WalkInv'
  BY <1>1, <1>4, FieldsKeepWalk
<1>7. ListInv'
  BY <1>1, <1>2, <1>3, <1>6 DEF ListInv, Acyclic, Building
<1>8. MemoryInv'
  BY <1>1, <1>2, <1>3 DEF MemoryInv, Building
<1>9. TableInv'
  BY <1>1 DEF Types, TableInv, Building, Stopping, Ending
<1>10. DescriptorInv'
  BY <1>1, <1>2, <1>3, <1>4 DEF DescriptorInv
<1> QED
  BY <1>5, <1>6, <1>7, <1>8, <1>9, <1>10

(* It gets a descriptor that no timer has.                                 *)
LEMMA CreateTimerfdInv ==
  ASSUME IInv, CreateTimerfd
  PROVE  IInv'
<1> USE DEF IInv
<1>1. /\ mpc = "create" /\ mpc' = "link"
      /\ UNCHANGED <<g_head, allocated, timer_id, node, peer, tpc, tmp, ufds, args,
                    timers, throughout>>
  BY DEF CreateTimerfd, operation, others, threadVars, history
<1>2. PICK f \in Fds, arming \in Armings :
        /\ timerfd[f] = "closed"
        /\ heap' = [heap EXCEPT ![node].fd = f]
        /\ timerfd' = [timerfd EXCEPT ![f] = arming]
  BY DEF CreateTimerfd
<1>3. node \in Addrs /\ node \notin timers
  BY <1>1 DEF Types, ListInv, Building
<1>4. /\ heap' \in Heaps /\ heap'[node].fd = f
      /\ \A a \in Addrs : heap'[a].next = heap[a].next
      /\ \A a \in timers : heap'[a] = heap[a]
  BY <1>2, <1>3 DEF Types, Heaps
<1>5. arming \in {"armed", "disarmed"}
  BY ArmingKinds
<1>6. Types'
  BY <1>1, <1>2, <1>4, <1>5 DEF Types, FdStates, Building, Stopping, Ending
<1>7. Acyclic(heap') /\ (ListIsTimers)' /\ WalkInv'
  BY <1>1, <1>4, FieldsKeepWalk
<1>8. ListInv'
  BY <1>1, <1>3, <1>7 DEF ListInv, Acyclic, Building
<1>9. MemoryInv'
  BY <1>1 DEF MemoryInv, Building
<1>10. TableInv'
  BY <1>1 DEF TableInv, Building, Stopping, Ending
<1>11. DescriptorInv'
  <2>1. \A g \in Fds : timerfd'[g] = IF g = f THEN arming ELSE timerfd[g]
    BY <1>2 DEF Types
  <2>2. \A a \in timers : heap[a].fd \in Fds /\ heap[a].fd # f
    BY <1>1, <1>2 DEF DescriptorInv
  <2> QED
    BY <1>1, <1>4, <1>5, <2>1, <2>2 DEF DescriptorInv
<1> QED
  BY <1>6, <1>7, <1>8, <1>9, <1>10, <1>11

(* The store that puts the new node before the list.                       *)
LEMMA LinkInv ==
  ASSUME IInv, Link
  PROVE  IInv'
<1> USE DEF IInv
<1>1. /\ mpc = "link" /\ mpc' = "head"
      /\ heap' = [heap EXCEPT ![node].next = g_head]
      /\ UNCHANGED <<g_head, allocated, timerfd, timer_id, node, peer, tpc, tmp, ufds,
                    args, timers, throughout>>
  BY DEF Link, LinkedBefore, operation, others, threadVars, history
<1>2. node \in Addrs /\ node \notin timers /\ timers = Path(heap, g_head)
  BY <1>1 DEF Types, ListInv, ListIsTimers, Building
<1>3. /\ heap' \in Heaps
      /\ Acyclic(heap')
      /\ Path(heap', g_head) = timers
      /\ \A x \in Links : Path(heap, x) \cap timers \subseteq Path(heap', x)
  <2> DEFINE k == heap'
  <2> HIDE DEF k
  <2>1. k \in Heaps /\ k[node].next = g_head /\ \A a \in Addrs \ {node} : k[a] = heap[a]
    BY <1>1, <1>2 DEF k, Types, Heaps
  <2>2. heap \in Heaps /\ Acyclic(heap) /\ g_head \in Links
        /\ node \notin Path(heap, g_head)
    BY <1>2 DEF Types, ListInv
  <2>3. /\ Acyclic(k) /\ Path(k, g_head) = Path(heap, g_head)
        /\ \A x \in Links : Path(heap, x) \cap Path(heap, g_head) \subseteq Path(k, x)
    BY <1>2, <2>1, <2>2, LinkKeepsPaths
  <2> QED
    BY <1>2, <2>1, <2>3 DEF k
<1>4. /\ heap'[node].next = g_head
      /\ \A a \in Addrs : heap'[a].fd = heap[a].fd
      /\ \A a \in Addrs \ {node} : heap'[a] = heap[a]
  BY <1>1, <1>2 DEF Types, Heaps
<1>5. Types'
  BY <1>1, <1>3 DEF Types, Building, Stopping, Ending
<1>6. ListInv'
  <2>1. ListIsTimers'
    BY <1>1, <1>3 DEF ListIsTimers, Path, Closed
  <2> QED
    BY <1>1, <1>2, <1>3, <1>4, <2>1 DEF ListInv, Acyclic, Building
<1>7. MemoryInv' /\ TableInv'
  BY <1>1 DEF MemoryInv, TableInv, Building, Stopping, Ending
<1>8. DescriptorInv'
  <2>1. timers \subseteq Addrs
    BY DEF Types
  <2> QED
    BY <1>1, <1>2, <1>4, <2>1 DEF DescriptorInv
<1>9. WalkInv'
  <2>1. throughout \subseteq timers /\ timers \subseteq Addrs
    BY DEF WalkInv, Types
  <2>2. ASSUME tpc = "collect", NEW a \in throughout
        PROVE  heap'[a].fd \in ToSet(ufds) \/ a \in Path(heap', tmp)
    <3>1. heap[a].fd \in ToSet(ufds) \/ a \in Path(heap, tmp)
      BY <2>2 DEF WalkInv, Ahead
    <3> QED
      BY <1>3, <1>4, <2>1, <3>1 DEF Types
  <2>3. ASSUME tpc = "advance", NEW a \in throughout
        PROVE  heap'[a].fd \in ToSet(ufds) \/ a \in Path(heap', heap'[tmp].next)
    <3>1. CASE tmp = node
      BY <1>3, <1>4, <2>1, <3>1
    <3>2. CASE tmp # node
      <4>1. tmp \in Addrs /\ heap[tmp].next \in Links
        BY <2>3 DEF Types, Heaps
      <4>2. heap[a].fd \in ToSet(ufds) \/ a \in Path(heap, heap[tmp].next)
        BY <2>3 DEF WalkInv, Ahead
      <4> QED
        BY <1>3, <1>4, <2>1, <3>2, <4>1, <4>2
    <3> QED
      BY <3>1, <3>2
  <2> QED
    BY <1>1, <2>1, <2>2, <2>3 DEF WalkInv, Ahead, Path, Closed
<1> QED
  BY <1>5, <1>6, <1>7, <1>8, <1>9

(* And it becomes the head.                                                *)
LEMMA SetHeadInv ==
  ASSUME IInv, SetHead
  PROVE  IInv'
<1> USE DEF IInv
<1>1. /\ mpc = "head" /\ mpc' = "idle" /\ g_head' = node /\ timers' = timers \cup {node}
      /\ timer_id' = [timer_id EXCEPT ![peer] = node]
      /\ node' = NULL /\ peer' = NULL
      /\ UNCHANGED <<heap, allocated, timerfd, tpc, tmp, ufds, args, throughout>>
  BY DEF SetHead, Returned, memory, others, threadVars
<1>2. /\ node \in Addrs /\ node \notin timers /\ peer \in Peers
      /\ heap[node].next = g_head /\ node # NULL /\ peer # NULL
  BY <1>1, NullIsElsewhere DEF Types, ListInv, Building
<1>3. Types'
  BY <1>1, <1>2 DEF Types, Links, Building, Stopping, Ending
<1>4. ListInv'
  <2>1. Path(heap, node) = {node} \cup timers
    BY <1>2, PathStep DEF Types, ListInv, ListIsTimers
  <2>2. ListIsTimers'
    BY <1>1, <2>1 DEF ListIsTimers, Path, Closed
  <2> QED
    BY <1>1, <2>2 DEF ListInv, Acyclic, Building
<1>5. MemoryInv'
  BY <1>1 DEF MemoryInv, Building
<1>6. TableInv'
  <2>1. \A q \in Peers : timer_id'[q] = IF q = peer THEN node ELSE timer_id[q]
    BY <1>1, <1>2 DEF Types
  <2>2. \A q \in Peers : q # peer /\ timer_id[q] # NULL =>
          /\ timer_id[q] \in timers
          /\ \A r \in Peers : r # peer /\ r # q => timer_id[r] # timer_id[q]
    BY <1>1, <1>2 DEF TableInv, Ending
  <2> QED
    BY <1>1, <1>2, <2>1, <2>2 DEF TableInv, Stopping, Ending
<1>7. DescriptorInv'
  BY <1>1, <1>2 DEF DescriptorInv
<1>8. WalkInv'
  BY <1>1 DEF WalkInv, Ahead, Path, Closed
<1> QED
  BY <1>3, <1>4, <1>5, <1>6, <1>7, <1>8

------------------------------------------------------------------------------
(* Every step preserves the invariant.                                     *)
LEMMA StepInv == IInv /\ [Next]_vars => IInv'
<1> SUFFICES ASSUME IInv, [Next]_vars PROVE IInv'
  OBVIOUS
<1>1. CASE MainStep
  BY <1>1, CloseInv, UnheadInv, UnlinkInv, FreeInv, MallocInv, CreateTimerfdInv,
     LinkInv, SetHeadInv, ControlInv DEF MainStep
<1>2. CASE Terminate \/ \E p \in Peers : Receive(p)
  BY <1>2, ControlInv
<1>3. CASE TimerStep
  BY <1>3, ThreadInv
<1>4. CASE Clock
  BY <1>4, ClockInv
<1>5. CASE UNCHANGED vars
  <2>1. /\ UNCHANGED <<g_head, heap, allocated, timers, timer_id, timerfd, mpc, node,
                      peer, tpc, tmp, ufds, args, throughout>>
    BY <1>5 DEF vars, mainVars, threadVars
  <2>2. Types'
    BY <2>1 DEF IInv, Types
  <2>3. WalkInv'
    BY <2>1, WalkKept
  <2> QED
    BY <2>1, <2>2, <2>3, StructureKept DEF IInv
<1> QED
  BY <1>1, <1>2, <1>3, <1>4, <1>5 DEF Next

(* The invariant holds throughout.                                         *)
LEMMA Invariance == Spec => []IInv
  BY InitInv, StepInv, PTL DEF Spec

------------------------------------------------------------------------------
(* The array of descriptors, what is held of a closed one, and the bounds. *)

Descriptors == Fds \cup {NoFd}

(* Where the timer thread has an entry of the array before it.             *)
Reading == {"read", "blocked", "lookup", "lookup next", "call", "handle"}

RoundInv ==
  /\ ready \in Seq(Descriptors)
  /\ tpc \in Reading => ready # <<>>
  /\ held \in {"none", "armed", "expired", "disarmed"}
  /\ allocated \subseteq Addrs
  /\ starts \in 0..MaxStarts

(* poll fills in the array, and does not change its length.                *)
LEMMA PolledIsSeq ==
  ASSUME ufds \in Seq(Descriptors)
  PROVE  Polled \in Seq(Descriptors)
<1> DEFINE n == Len(ufds)
<1>1. n \in Nat /\ DOMAIN ufds = 1..n /\ \A i \in 1..n : ufds[i] \in Descriptors
  BY LenProperties, ElementOfSeq
<1> HIDE DEF n
<1>2. Polled \in [1..n -> Descriptors]
  BY <1>1 DEF Polled, Descriptors
<1> QED
  BY <1>1, <1>2, SeqDef

(* Going on to the next entry.                                             *)
LEMMA GoingOn ==
  ASSUME ready \in Seq(Descriptors), ready # <<>>, Goes(Tail(ready))
  PROVE  /\ ready' \in Seq(Descriptors)
         /\ tpc' \in Reading => ready' # <<>>
<1>1. Tail(ready) \in Seq(Descriptors)
  BY HeadTailProperties
<1> QED
  BY <1>1 DEF Goes, Reading

(* The timer thread.                                                       *)
LEMMA ThreadRounds ==
  ASSUME IInv, RoundInv, TimerStep
  PROVE  RoundInv'
<1> USE DEF RoundInv
<1>1. CASE TestCancel \/ CollectFd \/ CollectNext
  <2>1. tpc' \notin Reading /\ UNCHANGED <<ready, held, allocated, starts>>
    BY <1>1 DEF TestCancel, CollectFd, CollectNext, shared, mainVars, Reading
  <2> QED
    BY <2>1
<1>2. CASE Poll
  <2>1. UNCHANGED <<held, allocated, starts>>
    BY <1>2 DEF Poll, shared, mainVars
  <2>2. CASE ToSet(Polled) \subseteq {NoFd}
    <3>1. tpc' = "test" /\ ready' = <<>>
      BY <1>2, <2>2 DEF Poll
    <3> QED
      BY <2>1, <3>1, EmptySeq DEF Reading
  <2>3. CASE ~(ToSet(Polled) \subseteq {NoFd})
    <3>1. ready' = Polled
      BY <1>2, <2>3 DEF Poll
    <3>2. Polled \in Seq(Descriptors)
      BY PolledIsSeq DEF IInv, Types, Descriptors
    <3>3. Polled # <<>>
      BY <2>3 DEF ToSet
    <3> QED
      BY <2>1, <3>1, <3>2, <3>3
  <2> QED
    BY <2>2, <2>3
<1>3. CASE Read \/ ReadReturns
  <2>1. /\ ready # <<>>
        /\ UNCHANGED <<allocated, starts>>
    BY <1>3 DEF Read, ReadReturns, shared, mainVars, Reading
  <2>2. held' \in {held, "none"}
    BY <1>3 DEF Read, ReadReturns
  <2>3. Goes(Tail(ready)) \/ UNCHANGED ready
    BY <1>3 DEF Read, ReadReturns
  <2> QED
    BY <2>1, <2>2, <2>3, GoingOn
<1>4. CASE Lookup \/ LookupNext \/ Call \/ HandleTimeout
  <2>1. ready # <<>> /\ UNCHANGED <<held, starts>>
    BY <1>4 DEF Lookup, LookupNext, Call, HandleTimeout, mainVars, operation, Reading
  <2>2. UNCHANGED allocated
    BY <1>4 DEF Lookup, LookupNext, Call, HandleTimeout, shared, memory
  <2>3. Goes(Tail(ready)) \/ UNCHANGED ready
    BY <1>4 DEF Lookup, LookupNext, Call, HandleTimeout
  <2> QED
    BY <2>1, <2>2, <2>3, GoingOn
<1> QED
  BY <1>1, <1>2, <1>3, <1>4 DEF TimerStep

(* The main thread: a read keeps the state the closed descriptor had,      *)
(* which was open.                                                         *)
LEMMA MainRounds ==
  ASSUME IInv, RoundInv,
         MainStep \/ Terminate \/ \E p \in Peers : Receive(p)
  PROVE  RoundInv'
<1> USE DEF RoundInv
<1>1. CASE Close
  <2>1. UNCHANGED <<ready, tpc, allocated, starts>>
    BY <1>1 DEF Close, threadVars, operation
  <2>2. node \in timers /\ node # NULL
    BY <1>1, NullIsElsewhere DEF Close, IInv, ListInv, Types
  <2>3. heap[node].fd \in Fds /\ timerfd[heap[node].fd] # "closed"
    BY <1>1, <2>2 DEF Close, IInv, DescriptorInv
  <2>4. timerfd[heap[node].fd] \in {"armed", "expired", "disarmed"}
    BY <2>3 DEF IInv, Types, FdStates
  <2>5. held' \in {held, timerfd[heap[node].fd]}
    BY <1>1 DEF Close
  <2> QED
    BY <2>1, <2>4, <2>5
<1>2. CASE Unhead \/ Unlink \/ Free \/ Malloc \/ CreateTimerfd \/ Link \/ SetHead
  <2>1. UNCHANGED <<ready, tpc, held, starts>>
    BY <1>2 DEF Unhead, Unlink, Free, Malloc, CreateTimerfd, Link, SetHead, others,
       threadVars, operation
  <2>2. allocated' \subseteq allocated \cup Addrs
    BY <1>2 DEF Unhead, Unlink, Free, Malloc, CreateTimerfd, Link, SetHead, memory
  <2> QED
    BY <2>1, <2>2
<1>3. CASE StopNext \/ Cancel \/ Join \/ Terminate
  <2>1. UNCHANGED <<ready, tpc, held, starts, allocated>>
    BY <1>3 DEF StopNext, Cancel, Join, Terminate, others, threadVars, operation, memory
  <2> QED
    BY <2>1
<1>4. CASE \E p \in Peers : Receive(p)
  <2>1. /\ UNCHANGED <<ready, tpc, held, allocated>>
        /\ starts < MaxStarts /\ starts' = starts + 1
    BY <1>4 DEF Receive, others, threadVars, memory
  <2>2. starts' \in 0..MaxStarts
    BY <2>1, StartsBound
  <2> QED
    BY <2>1, <2>2
<1> QED
  BY <1>1, <1>2, <1>3, <1>4 DEF MainStep

(* The clock: what is held expires too.                                    *)
LEMMA RoundInvariance == Spec => [](IInv /\ RoundInv)
<1>1. Init => RoundInv
  BY StartsBound, EmptySeq DEF Init, RoundInv, Reading
<1>2. IInv /\ RoundInv /\ [Next]_vars => RoundInv'
  <2> SUFFICES ASSUME IInv, RoundInv, [Next]_vars
               PROVE  RoundInv'
    OBVIOUS
  <2>1. CASE Clock
    <3>1. /\ UNCHANGED <<ready, tpc, allocated, starts>>
          /\ held' \in {held, "expired"}
      BY <2>1 DEF Clock, Expire, ExpireHeld, shared, mainVars, threadVars
    <3> QED
      BY <3>1 DEF RoundInv
  <2>2. CASE UNCHANGED vars
    <3>1. UNCHANGED <<ready, tpc, held, allocated, starts>>
      BY <2>2 DEF vars, mainVars, threadVars
    <3> QED
      BY <3>1 DEF RoundInv
  <2> QED
    BY <2>1, <2>2, ThreadRounds, MainRounds DEF Next
<1> QED
  BY <1>1, <1>2, InitInv, StepInv, PTL DEF Spec

(* Every variable holds a value of its type, whatever node a walk is on.   *)
THEOREM TypeCorrect == Spec => []TypeOK
<1>1. IInv /\ RoundInv => TypeOK
  <2> SUFFICES ASSUME IInv, RoundInv
               PROVE  TypeOK
    OBVIOUS
  <2>1. ASSUME NEW s \in Seq(Descriptors)
        PROVE  ToSet(s) \subseteq Descriptors
    BY ElementOfSeq, LenProperties DEF ToSet
  <2> QED
    BY <2>1 DEF IInv, RoundInv, Types, TypeOK, Heaps, Links, Descriptors
<1> QED
  BY <1>1, RoundInvariance, PTL

------------------------------------------------------------------------------
(* The list from g_head is the set of the timers that run, after every     *)
(* store of the main thread (start_timer, stop_timer).                     *)
THEOREM ListCorrect == Spec => []ListIsTimers
<1>1. IInv => ListIsTimers
  BY DEF IInv, ListInv
<1> QED
  BY <1>1, Invariance, PTL

(* The timer thread's unlocked walks come to an end in every heap, on      *)
(* whatever freed or reused node they are (_timer_thread,                  *)
(* _get_timer_from_fd).                                                    *)
THEOREM WalksEnd == Spec => []WalkEnds
<1>1. IInv => WalkEnds
  BY DEF IInv, ListInv, Acyclic, WalkEnds, Path
<1> QED
  BY <1>1, Invariance, PTL

(* No running timer is missed by a walk, however many nodes are unlinked,  *)
(* freed and reused while it lasts (_timer_thread).                        *)
THEOREM WalksCover == Spec => []WalkCoversTimers
<1>1. IInv => WalkCoversTimers
  <2> SUFFICES ASSUME IInv, tpc = "collect", tmp = NULL, NEW a \in throughout
               PROVE  heap[a].fd \in ToSet(ufds)
    BY DEF WalkCoversTimers
  <2> QED
    BY PathOfNull DEF IInv, WalkInv, Ahead
<1> QED
  BY <1>1, Invariance, PTL

(* When the manager is terminated nothing is left allocated or open        *)
(* (terminate_timer_manager).                                              *)
THEOREM TerminationReleases == Spec => []NothingLeaks
<1>1. IInv => NothingLeaks
  <2> SUFFICES ASSUME IInv, mpc \in {"join", "joined"}
               PROVE  allocated = {} /\ \A f \in Fds : timerfd[f] = "closed"
    BY DEF NothingLeaks
  <2>1. timers = {}
    BY PathOfNull DEF IInv, ListInv, ListIsTimers
  <2> QED
    BY <2>1 DEF IInv, MemoryInv, DescriptorInv, Building
<1> QED
  BY <1>1, Invariance, PTL
==============================================================================
