------------------------------ MODULE Lifecycle ------------------------------
(***************************************************************************)
(* How a process starts and ends: main() and start_paxos_replica with      *)
(* their handshake, init_replica, the two terminations and the clean-ups,  *)
(* and of the work in between as much as uses a mutex or the replica.      *)
(*                                                                         *)
(* CZMQ has handlers for SIGINT and SIGTERM that set zctx_interrupted;     *)
(* while libevent runs, SIGINT goes to handle_sigint instead.  A thread    *)
(* that is cancelled keeps the mutexes it holds.                           *)
(***************************************************************************)
EXTENDS FiniteSets

H == "hashmap_lock"
I == "paxos_initialization_mutex"
L == "paxos_listener_mutex"
D == "detected_states_hashmap_lock"
Mutexes == {H, I, L, D}
Threads == {"main", "paxos", "timer"}

VARIABLES
  pc,                \* where each thread is
  status,            \* of each mutex: "raw" (static, zero), "live", "destroyed"
  owner,             \* of each mutex: a thread or "none"
  done,              \* the condition of the handshake
  replica,           \* "raw", "ready" or "freed"
  armed,             \* a timer is running
  zctx_interrupted,  \* the flag of CZMQ
  exiting,           \* event_base_loopexit was called
  signalled,         \* history: it was, by handle_sigint
  cancelled          \* the threads pthread_cancel was called for

flags == <<zctx_interrupted, exiting, signalled, cancelled>>
vars == <<pc, status, owner, done, replica, armed, flags>>

At(t, l) == pc[t] = l
Goto(t, l) == pc' = [pc EXCEPT ![t] = l]

(* Steps that do nothing but go on, lock m or unlock m.                    *)
data == <<status, done, replica, armed, flags>>

Goes(t, from, to) == At(t, from) /\ Goto(t, to) /\ UNCHANGED <<owner, data>>

Locks(t, from, m) ==
  /\ At(t, from)
  /\ owner[m] = "none"
  /\ owner' = [owner EXCEPT ![m] = t]
  /\ UNCHANGED <<status, done, replica, flags>>

Unlocks(t, from, m, to) ==
  /\ At(t, from)
  /\ owner' = [owner EXCEPT ![m] = "none"]
  /\ Goto(t, to)
  /\ UNCHANGED data

(* Undefined behaviour: the program goes on to l, or it crashes.           *)
GotoOrCrash(t, l) == Goto(t, l) \/ pc' = [u \in Threads |-> "crashed"]

Init ==
  /\ pc = [t \in Threads |-> IF t = "main" THEN "init nodes" ELSE "none"]
  /\ status = [m \in Mutexes |-> "raw"]
  /\ owner = [m \in Mutexes |-> "none"]
  /\ done = FALSE
  /\ replica = "raw"
  /\ armed = FALSE
  /\ zctx_interrupted = FALSE /\ exiting = FALSE /\ signalled = FALSE
  /\ cancelled = {}

------------------------------------------------------------------------------
(* main() and start_paxos_replica.                                         *)

(* init_nodes_struct: the mutex is used before it is initialised.          *)
InitNodes == owner[H] = "none" /\ Goes("main", "init nodes", "start")

StartReplica ==
  /\ At("main", "start")
  /\ status' = [status EXCEPT ![I] = "live", ![L] = "live", ![D] = "live"]
  /\ pc' = [pc EXCEPT !["main"] = "handshake", !["paxos"] = "init"]
  /\ UNCHANGED <<owner, done, replica, armed, flags>>

LockHandshake ==
  Locks("main", "handshake", I) /\ Goto("main", "check") /\ UNCHANGED armed

CheckDone == Goes("main", "check", IF done THEN "unlock" ELSE "wait")

(* pthread_cond_wait gives the mutex back, and returns when it has it      *)
(* again: after a signal, or without one.                                  *)
Wait == Unlocks("main", "wait", I, "waiting")

SpuriousWakeUp == Goes("main", "waiting", "woken")

(* A mutant: `if' in the place of `while'.                                 *)
NotCheckedAgain == "unlock"

AfterWait == "check"

WaitReturns ==
  Locks("main", "woken", I) /\ Goto("main", AfterWait) /\ UNCHANGED armed

UnlockHandshake == Unlocks("main", "unlock", I, "destroy")

DestroyHandshake ==
  /\ At("main", "destroy")
  /\ status' = [status EXCEPT ![I] = "destroyed"]
  /\ Goto("main", "create timers")
  /\ UNCHANGED <<owner, done, replica, armed, flags>>

CreateTimerManager ==
  /\ At("main", "create timers")
  /\ pc' = [pc EXCEPT !["main"] = "init lock", !["timer"] = "test"]
  /\ UNCHANGED <<status, owner, done, replica, armed, flags>>

InitHashmapLock ==
  /\ At("main", "init lock")
  /\ status' = [status EXCEPT ![H] = "live"]
  /\ Goto("main", "loop")
  /\ UNCHANGED <<owner, done, replica, armed, flags>>

Beacon == ~zctx_interrupted /\ Goes("main", "loop", "lock")

(* A timer is started or restarted; a new peer is submitted.               *)
LockForBeacon ==
  /\ Locks("main", "lock", H)
  /\ armed' = TRUE
  /\ \E known \in BOOLEAN : Goto("main", IF known THEN "unlock hashmap" ELSE "submit")

LeaveLoop == zctx_interrupted /\ Goes("main", "loop", "terminate timers")

TerminateTimerManager ==
  /\ At("main", "terminate timers")
  /\ armed' = FALSE
  /\ cancelled' = cancelled \cup {"timer"}
  /\ Goto("main", "join timers")
  /\ UNCHANGED <<status, owner, done, replica, zctx_interrupted, exiting,
                 signalled>>

(* A mutant: the timer thread is cancelled and not waited for.             *)
NotJoined(t) == t = "timer" \/ At(t, "gone")

Joined(t) == At(t, "gone")

JoinTimers == Joined("timer") /\ Goes("main", "join timers", "terminate replica")

(* The libevent base is read from the replica, which is freed with the     *)
(* mutexes: see DestroyListener.                                           *)
TerminatePaxosReplica ==
  /\ At("main", "terminate replica")
  /\ IF status[L] = "destroyed" THEN GotoOrCrash("main", "join replica")
                                ELSE Goto("main", "join replica")
  /\ exiting' = TRUE
  /\ cancelled' = cancelled \cup {"paxos"}
  /\ UNCHANGED <<status, owner, done, replica, armed, zctx_interrupted,
                 signalled>>

JoinReplica == Joined("paxos") /\ Goes("main", "join replica", "destroy lock")

DestroyHashmapLock ==
  /\ At("main", "destroy lock")
  /\ status' = [status EXCEPT ![H] = "destroyed"]
  /\ Goto("main", "clean up")
  /\ UNCHANGED <<owner, done, replica, armed, flags>>

(* clean_up_hashmap: locking fails, which is only reported; then memory at *)
(* the uninitialised timeout_metadata of the process's own node is freed.  *)
CleanUpHashmap ==
  /\ At("main", "clean up")
  /\ GotoOrCrash("main", "exited")
  /\ UNCHANGED <<status, owner, done, replica, armed, flags>>

------------------------------------------------------------------------------
(* paxos_serialize_and_submit by main or the timer thread, which hold      *)
(* hashmap_lock.                                                           *)

(* A mutant: the caller returns as well.                                   *)
ReturnLocked(t) == IF t = "main" THEN "loop" ELSE "test"

(* The caller goes on when a mutex cannot be locked.                       *)
Refused(t) == "unlock hashmap"

LockRuns(t) ==
  IF status[D] = "destroyed" THEN Goes(t, "submit", Refused(t))
  ELSE Locks(t, "submit", D) /\ Goto(t, "register") /\ UNCHANGED armed

(* zlist_purge of the state of the replica, and the unlocking.             *)
Register(t) ==
  /\ At(t, "register")
  /\ owner' = [owner EXCEPT ![D] = "none"]
  /\ IF replica = "freed" THEN GotoOrCrash(t, "propose") ELSE Goto(t, "propose")
  /\ UNCHANGED <<status, done, replica, armed, flags>>

(* evpaxos_replica_submit                                                  *)
Propose(t) ==
  /\ At(t, "propose")
  /\ IF replica = "freed" THEN GotoOrCrash(t, "unlock hashmap")
                          ELSE Goto(t, "unlock hashmap")
  /\ UNCHANGED <<status, owner, done, replica, armed, flags>>

UnlockHashmap(t) ==
  Unlocks(t, "unlock hashmap", H, IF t = "main" THEN "loop" ELSE "test")

SubmitStep(t) == LockRuns(t) \/ Register(t) \/ Propose(t) \/ UnlockHashmap(t)

------------------------------------------------------------------------------
(* The timer thread.                                                       *)

(* A single-shot timer expires, and its callback is called.                *)
CallBack ==
  /\ At("timer", "test") /\ "timer" \notin cancelled /\ armed
  /\ armed' = FALSE
  /\ Goto("timer", "lock")
  /\ UNCHANGED <<status, owner, done, replica, flags>>

(* handle_timeout: the peer may be gone from the table already.            *)
HandleTimeout ==
  /\ Locks("timer", "lock", H) /\ UNCHANGED armed
  /\ \E found \in BOOLEAN : Goto("timer", IF found THEN "submit" ELSE "unlock hashmap")

(* A mutant: cancellation is not disabled.                                 *)
LogPointsToo == {"test", "submit"}

(* pthread_testcancel, between enabling and disabling cancellation.        *)
CancelPoints == {"test"}

TestCancel ==
  /\ pc["timer"] \in CancelPoints /\ "timer" \in cancelled
  /\ Goes("timer", pc["timer"], "gone")

------------------------------------------------------------------------------
(* init_replica, the Paxos thread.                                         *)

InitReplica ==
  /\ At("paxos", "init")
  /\ replica' = "ready"
  /\ Goto("paxos", "publish")
  /\ UNCHANGED <<status, owner, done, armed, flags>>

LockPublish ==
  Locks("paxos", "publish", I) /\ Goto("paxos", "signal") /\ UNCHANGED armed

(* A mutant: no pthread_cond_signal.                                       *)
NotWoken == pc["main"]

Woken == IF At("main", "waiting") THEN "woken" ELSE pc["main"]

Publish ==
  /\ At("paxos", "signal")
  /\ done' = TRUE
  /\ pc' = [pc EXCEPT !["main"] = Woken, !["paxos"] = "unlock"]
  /\ UNCHANGED <<status, owner, replica, armed, flags>>

UnlockPublish == Unlocks("paxos", "unlock", I, "add signal")

AddSignal == Goes("paxos", "add signal", "dispatch")

(* on_deliver.  The events that are active when the loop is told to exit   *)
(* or the thread is cancelled are handled nevertheless.                    *)
Deliver ==
  /\ Locks("paxos", "dispatch", L) /\ UNCHANGED armed
  /\ \E own \in BOOLEAN : Goto("paxos", IF own THEN "deliver own" ELSE "deliver")

(* When this mutex cannot be locked, the other one stays locked.  Here it  *)
(* always can: no thread but this one destroys it, and after its loop.     *)
LockOwnRun ==
  IF status[D] = "destroyed" THEN Goes("paxos", "deliver own", "dispatch")
  ELSE Locks("paxos", "deliver own", D) /\ Goto("paxos", "run ended") /\ UNCHANGED armed

UnlockOwnRun == Unlocks("paxos", "run ended", D, "deliver")

Delivered == Unlocks("paxos", "deliver", L, "dispatch")

(* A cancellation point is reached: epoll_wait, a write of the log inside  *)
(* on_deliver, or a close in evpaxos_replica_free.                         *)
Cancelled ==
  /\ "paxos" \in cancelled
  /\ pc["paxos"] \in {"dispatch", "run ended", "deliver", "clear runs"}
  /\ Goes("paxos", pc["paxos"], "gone")

(* The loop ends; the lists, the state and libpaxos's replica are freed.   *)
FreeState ==
  /\ At("paxos", "dispatch") /\ exiting
  /\ replica' = "freed"
  /\ Goto("paxos", "clear runs")
  /\ UNCHANGED <<status, owner, done, armed, flags>>

(* clean_up_paxos_hashmap                                                  *)
ClearRuns == owner[D] = "none" /\ Goes("paxos", "clear runs", "destroy")

(* The mutexes, of which one that is held stays as it is (EBUSY), and the  *)
(* replica itself.                                                         *)
DestroyListener ==
  /\ At("paxos", "destroy")
  /\ status' = [status EXCEPT ![L] = "destroyed",
                             ![D] = IF owner[D] = "none" THEN "destroyed" ELSE @]
  /\ Goto("paxos", "free base")
  /\ UNCHANGED <<owner, done, replica, armed, flags>>

FreeBase == Goes("paxos", "free base", "gone")

------------------------------------------------------------------------------
(* Signals.                                                                *)

(* Where SIGINT is libevent's.                                             *)
Dispatching == pc["paxos"] \in {"dispatch", "deliver own", "run ended", "deliver"}

(* A mutant: both signals reach libevent.                                  *)
EndsLoopToo(sig) == Dispatching

EndsLoop(sig) == sig = "SIGINT" /\ Dispatching

Signal(sig) ==
  /\ pc["main"] \notin {"exited", "crashed"}
  /\ IF EndsLoop(sig) THEN /\ exiting' = TRUE
                           /\ signalled' = (signalled \/ sig = "SIGINT")
                           /\ UNCHANGED zctx_interrupted
     ELSE zctx_interrupted' = TRUE /\ UNCHANGED <<exiting, signalled>>
  /\ UNCHANGED <<pc, status, owner, done, replica, armed, cancelled>>

------------------------------------------------------------------------------
MainStep ==
  \/ InitNodes \/ StartReplica \/ LockHandshake \/ CheckDone \/ Wait
  \/ WaitReturns \/ UnlockHandshake \/ DestroyHandshake \/ CreateTimerManager
  \/ InitHashmapLock \/ LockForBeacon \/ SubmitStep("main") \/ LeaveLoop
  \/ TerminateTimerManager \/ JoinTimers \/ TerminatePaxosReplica \/ JoinReplica
  \/ DestroyHashmapLock \/ CleanUpHashmap

TimerStep == CallBack \/ HandleTimeout \/ SubmitStep("timer") \/ TestCancel

PaxosStep ==
  \/ InitReplica \/ LockPublish \/ Publish \/ UnlockPublish \/ AddSignal
  \/ LockOwnRun \/ UnlockOwnRun \/ Delivered \/ Cancelled
  \/ FreeState \/ ClearRuns \/ DestroyListener \/ FreeBase

Next ==
  \/ MainStep \/ TimerStep \/ PaxosStep
  \/ Beacon \/ SpuriousWakeUp \/ Deliver
  \/ \E sig \in {"SIGINT", "SIGTERM"} : Signal(sig)

Spec == Init /\ [][Next]_vars

(* The threads run, one that waits for a mutex that is free again and      *)
(* again gets it, and a round of libevent has finitely many events.        *)
(* Nothing is assumed of beacons, deliveries and signals.                  *)
FairSpec ==
  /\ Spec
  /\ SF_vars(MainStep) /\ SF_vars(TimerStep) /\ SF_vars(PaxosStep)
  /\ SF_vars(Cancelled \/ FreeState)

------------------------------------------------------------------------------
(* Properties.                                                             *)

InHashmapSection == {"submit", "register", "propose", "unlock hashmap"}

(* Every variable holds a value of its type, and hashmap_lock is held in   *)
(* its critical sections and nowhere else.                                 *)
TypeOK ==
  /\ status \in [Mutexes -> {"raw", "live", "destroyed"}]
  /\ owner \in [Mutexes -> Threads \cup {"none"}]
  /\ ~At("main", "crashed") =>
       \A t \in Threads : (owner[H] = t) = (pc[t] \in InHashmapSection)
  /\ replica \in {"raw", "ready", "freed"}
  /\ {done, armed, zctx_interrupted, exiting, signalled} \subseteq BOOLEAN
  /\ cancelled \subseteq Threads

(* The handshake: main destroys the mutex only after the Paxos thread has  *)
(* used it for the last time, spurious wake-ups or not.                    *)
HandshakeOver ==
  status[I] = "destroyed" =>
    /\ owner[I] = "none"
    /\ pc["paxos"] \notin {"init", "publish", "signal", "unlock"}

(* Groups are submitted to a replica that is initialised and not freed,    *)
(* except after a SIGINT, which stops the Paxos thread alone.              *)
SubmitsToReady ==
  \A t \in {"main", "timer"} :
    pc[t] \in {"register", "propose"} => replica = "ready" \/ signalled

(* No mutex is held by anyone when its owner comes to destroy it, with the *)
(* same exception: then a mutex of the Paxos thread may be main's.         *)
DestroyedUnheld ==
  /\ At("main", "destroy") => owner[I] = "none"
  /\ At("main", "destroy lock") => owner[H] = "none"
  /\ At("paxos", "destroy") => owner[L] = "none" /\ (owner[D] = "none" \/ signalled)

(* hashmap_lock is used by the timer thread only between its late          *)
(* initialisation and its destruction, and clean_up_hashmap, whose locking *)
(* fails, has the table to itself.                                         *)
HashmapLockLive ==
  /\ status[H] # "live" => pc["timer"] \in {"none", "test", "gone", "crashed"}
  /\ status[H] = "destroyed" => \A t \in {"timer", "paxos"} : pc[t] \in {"gone", "crashed"}

(* A thread that is gone has kept no mutex another one will still wait     *)
(* for: the Paxos thread, cancelled in on_deliver, may keep its two, but   *)
(* then nobody submits any more.                                           *)
NoneWaitsForGone ==
  \A m \in Mutexes :
    owner[m] # "none" /\ pc[owner[m]] = "gone" =>
      m \in {L, D} /\ \A t \in Threads : pc[t] \notin {"lock", "submit"}

(* "Used to stop main thread while initializing Paxos replica": main waits *)
(* for the replica, and goes on.                                           *)
HandshakeEnds == At("main", "handshake") ~> status[I] = "destroyed"

(* SIGTERM, or SIGINT before the libevent loop, ends the process, wherever *)
(* its threads are, as long as the timer thread is not blocked for ever in *)
(* read: TimerList is about that.                                          *)
ShutsDown == zctx_interrupted ~> pc["main"] \in {"exited", "crashed"}
==============================================================================
