-------------------------- MODULE LifecycleProofs --------------------------
(***************************************************************************)
(* The safety invariants of starting and ending a process, by an invariant *)
(* that says where each thread can be, given where main is, which mutexes  *)
(* it holds there, and what the flags tell about it.                       *)
(***************************************************************************)
EXTENDS Lifecycle, TLAPS

------------------------------------------------------------------------------
(* The stages of main, and of the Paxos thread.                            *)

Starting == {"init nodes", "start"}
Shaking == {"handshake", "check", "wait", "waiting", "woken", "unlock"}
Creating == {"destroy", "create timers"}
Early == Starting \cup Shaking \cup Creating \cup {"init lock"}
Joining == {"join replica", "destroy lock", "clean up", "exited"}
Ending == {"join timers", "terminate replica"} \cup Joining

Before == {"none", "init", "publish", "signal"}
Delivering == {"deliver own", "run ended", "deliver"}
Freeing == {"clear runs", "destroy", "free base"}

------------------------------------------------------------------------------
(* The inductive invariant.                                                *)

Types ==
  /\ pc = [t \in Threads |-> pc[t]]
  /\ status \in [Mutexes -> {"raw", "live", "destroyed"}]
  /\ owner \in [Mutexes -> Threads \cup {"none"}]
  /\ replica \in {"raw", "ready", "freed"}
  /\ cancelled \subseteq Threads

Flags == {done, armed, zctx_interrupted, exiting, signalled} \subseteq BOOLEAN

TimerLabels ==
  pc["timer"] \in {"none", "test", "lock", "gone", "crashed"} \cup InHashmapSection

(* A crash ends all threads, and cannot happen before the handshake is     *)
(* over.                                                                   *)
CrashesTogether ==
  /\ At("timer", "crashed") <=> At("main", "crashed")
  /\ At("paxos", "crashed") <=> At("main", "crashed")
  /\ At("main", "crashed") => owner[I] = "none"

(* Threads that are created late, work late, and are gone early.           *)
Stages ==
  /\ At("paxos", "none") <=> pc["main"] \in Starting
  /\ At("timer", "none") <=> pc["main"] \in Starting \cup Shaking \cup Creating
  /\ armed \/ pc["timer"] \in {"lock"} \cup InHashmapSection => pc["main"] \notin Early
  /\ pc["main"] \in {"terminate replica"} \cup Joining => At("timer", "gone")
  /\ pc["main"] \in Joining \ {"join replica"} => At("paxos", "gone")

(* The handshake: main passes it after the Paxos thread has left it.       *)
Shaken ==
  /\ done <=> pc["paxos"] \notin Before
  /\ pc["main"] \notin (Starting \cup Shaking) \ {"unlock"} =>
       pc["paxos"] \notin Before \cup {"unlock"}

(* What the mutexes of main are, by its stage, and when the one of the     *)
(* detected states is destroyed.                                           *)
Statuses ==
  /\ status[H] = "raw" <=> pc["main"] \in Early
  /\ status[H] = "destroyed" <=> pc["main"] \in {"clean up", "exited"}
  /\ status[I] = "destroyed" <=> pc["main"] \notin Starting \cup Shaking \cup {"destroy"}
  /\ status[D] = "destroyed" => pc["paxos"] \in {"free base", "gone"}

(* Who holds which mutex.  The Paxos thread, cancelled, keeps its two.     *)
HashmapOwner ==
  /\ owner[H] = "main" <=> pc["main"] \in InHashmapSection
  /\ owner[H] = "timer" <=> pc["timer"] \in InHashmapSection
  /\ owner[H] # "paxos" /\ pc["paxos"] \notin InHashmapSection

HandshakeOwner ==
  /\ owner[I] = "main" <=> pc["main"] \in {"check", "wait", "unlock"}
  /\ owner[I] = "paxos" <=> pc["paxos"] \in {"signal", "unlock"}
  /\ owner[I] # "timer"

ListenerOwner ==
  /\ owner[L] \in {"none", "paxos"}
  /\ owner[L] = "paxos" => pc["paxos"] \in Delivering \cup {"gone"}
  /\ owner[L] = "paxos" /\ At("paxos", "gone") => "paxos" \in cancelled

StatesOwner ==
  /\ owner[D] = "main" <=> At("main", "register")
  /\ owner[D] = "timer" <=> At("timer", "register")
  /\ owner[D] = "paxos" => pc["paxos"] \in {"run ended", "gone"}
  /\ At("paxos", "run ended") => owner[D] = "paxos"
  /\ owner[D] = "paxos" /\ At("paxos", "gone") => "paxos" \in cancelled

Owners == HashmapOwner /\ HandshakeOwner /\ ListenerOwner /\ StatesOwner

(* Why a thread has ended, and the replica been freed.                     *)
Ends ==
  /\ "timer" \in cancelled => pc["main"] \in Ending
  /\ "paxos" \in cancelled => pc["main"] \in Joining
  /\ At("timer", "gone") => "timer" \in cancelled
  /\ exiting => signalled \/ pc["main"] \in Joining
  /\ replica = "raw" <=> pc["paxos"] \in {"none", "init"}
  /\ replica = "freed" => exiting
  /\ pc["paxos"] \in Freeing => replica = "freed"

Alive == Stages /\ Shaken /\ Statuses /\ Owners /\ Ends

Basics == Types /\ Flags /\ TimerLabels /\ CrashesTogether

IInv == Basics /\ (~At("main", "crashed") => Alive)

USE DEF H, I, L, D, Threads, Mutexes, At

------------------------------------------------------------------------------
(* What the steps do, with the functions taken apart.                      *)

Moves(t, l) ==
  /\ pc' = [u \in Threads |-> pc'[u]]
  /\ pc'["main"] = IF t = "main" THEN l ELSE pc["main"]
  /\ pc'["timer"] = IF t = "timer" THEN l ELSE pc["timer"]
  /\ pc'["paxos"] = IF t = "paxos" THEN l ELSE pc["paxos"]

Hands(m, t) ==
  /\ owner' \in [Mutexes -> Threads \cup {"none"}]
  /\ owner'[H] = IF m = H THEN t ELSE owner[H]
  /\ owner'[I] = IF m = I THEN t ELSE owner[I]
  /\ owner'[L] = IF m = L THEN t ELSE owner[L]
  /\ owner'[D] = IF m = D THEN t ELSE owner[D]

Crashes == pc' = [u \in Threads |-> "crashed"]

(* Of the status of paxos_listener_mutex nothing is needed.                *)
Turns(m, s) ==
  /\ status' \in [Mutexes -> {"raw", "live", "destroyed"}]
  /\ status'[H] = IF m = H THEN s ELSE status[H]
  /\ status'[I] = IF m = I THEN s ELSE status[I]
  /\ status'[D] = IF m = D THEN s ELSE status[D]

(* A thread moves to l.                                                    *)
LEMMA Moving ==
  ASSUME Types, NEW t \in Threads, NEW l, Goto(t, l)
  PROVE  Moves(t, l)
  BY DEF Types, Goto, Moves

(* One mutex changes its status.                                           *)
LEMMA Turning ==
  ASSUME Types, NEW m \in Mutexes, NEW s \in {"raw", "live", "destroyed"},
         status' = [status EXCEPT ![m] = s]
  PROVE  Turns(m, s)
  BY DEF Types, Turns

(* A thread goes on, and does nothing else.                                *)
LEMMA Going ==
  ASSUME Types, NEW t \in Threads, NEW from, NEW to, Goes(t, from, to)
  PROVE  /\ At(t, from) /\ Moves(t, to)
         /\ UNCHANGED <<status, owner, done, replica, armed, zctx_interrupted,
                        exiting, signalled, cancelled>>
  BY Moving DEF Goes, data, flags

(* A thread locks a mutex ...                                              *)
LEMMA Locking ==
  ASSUME Types, NEW t \in Threads, NEW from, NEW m \in Mutexes, Locks(t, from, m)
  PROVE  /\ At(t, from) /\ owner[m] = "none" /\ Hands(m, t)
         /\ UNCHANGED <<status, done, replica, zctx_interrupted, exiting,
                        signalled, cancelled>>
  BY DEF Locks, Types, Hands, flags

(* ... and unlocks one.                                                    *)
LEMMA Unlocking ==
  ASSUME Types, NEW t \in Threads, NEW from, NEW m \in Mutexes, NEW to,
         Unlocks(t, from, m, to)
  PROVE  /\ At(t, from) /\ Hands(m, "none") /\ Moves(t, to)
         /\ UNCHANGED <<status, done, replica, armed, zctx_interrupted,
                        exiting, signalled, cancelled>>
<1>1. Moves(t, to)
  BY Moving DEF Unlocks
<1>2. Hands(m, "none")
  BY DEF Unlocks, Types, Hands
<1> QED
  BY <1>1, <1>2 DEF Unlocks, data, flags

(* CheckDone in those terms ...                                            *)
LEMMA Checking ==
  ASSUME Types, CheckDone
  PROVE  /\ At("main", "check")
         /\ (done /\ Moves("main", "unlock")) \/ (~done /\ Moves("main", "wait"))
         /\ UNCHANGED <<status, owner, done, replica, armed, zctx_interrupted,
                        exiting, signalled, cancelled>>
<1>1. CASE done
  <2>1. Goes("main", "check", "unlock")
    BY <1>1 DEF CheckDone
  <2>2. /\ At("main", "check") /\ Moves("main", "unlock")
        /\ UNCHANGED <<status, owner, done, replica, armed, zctx_interrupted,
                       exiting, signalled, cancelled>>
    BY ONLY Types, <2>1, Going
  <2> QED
    BY ONLY <1>1, <2>2
<1>2. CASE ~done
  <2>1. Goes("main", "check", "wait")
    BY <1>2 DEF CheckDone
  <2> QED
    BY <1>2, <2>1, Going
<1> QED
  BY <1>1, <1>2

(* ... and UnlockOwnRun.                                                   *)
LEMMA EndingRun ==
  ASSUME Types, UnlockOwnRun
  PROVE  /\ At("paxos", "run ended") /\ Moves("paxos", "deliver") /\ Hands(D, "none")
         /\ UNCHANGED <<status, done, replica, armed, zctx_interrupted,
                        exiting, signalled, cancelled>>
  BY Unlocking DEF UnlockOwnRun

(* ... and LockOwnRun, which succeeds in the loop ...                      *)
LEMMA BeginningRun ==
  ASSUME Types, Statuses, LockOwnRun
  PROVE  /\ At("paxos", "deliver own") /\ Moves("paxos", "run ended")
         /\ owner[D] = "none" /\ Hands(D, "paxos")
         /\ UNCHANGED <<status, done, replica, armed, zctx_interrupted,
                        exiting, signalled, cancelled>>
<1>1. At("paxos", "deliver own")
  BY DEF LockOwnRun, Goes, Locks
<1>2. status[D] # "destroyed"
  BY <1>1 DEF Statuses
<1>3. Locks("paxos", "deliver own", D) /\ Goto("paxos", "run ended") /\ UNCHANGED armed
  BY <1>2 DEF LockOwnRun
<1> QED
  BY <1>3, Moving, Locking

(* ... and LockRuns, which is refused or succeeds.                         *)
LEMMA RunsLocking ==
  ASSUME Types, NEW t \in Threads, LockRuns(t)
  PROVE  /\ At(t, "submit")
         /\ \/ Moves(t, "unlock hashmap") /\ UNCHANGED owner
            \/ Moves(t, "register") /\ owner[D] = "none" /\ Hands(D, t)
         /\ UNCHANGED <<status, done, replica, armed, zctx_interrupted, exiting,
                        signalled, cancelled>>
<1>1. CASE status[D] = "destroyed"
  <2>1. Goes(t, "submit", "unlock hashmap")
    BY <1>1 DEF LockRuns, Refused
  <2> QED
    BY <2>1, Going
<1>2. CASE status[D] # "destroyed"
  <2>1. Locks(t, "submit", D) /\ Goto(t, "register") /\ UNCHANGED armed
    BY <1>2 DEF LockRuns
  <2>2. Moves(t, "register")
    BY <2>1, Moving
  <2> QED
    BY <2>1, <2>2, Locking
<1> QED
  BY <1>1, <1>2

(* A thread that works late finds the mutex of the handshake free.         *)
LEMMA HandshakeFree ==
  ASSUME Basics, Alive,
         \/ pc["main"] \in InHashmapSection \cup {"terminate replica", "clean up"}
         \/ pc["timer"] \in InHashmapSection
  PROVE  owner[I] = "none"
<1>1. pc["main"] \notin Early
  BY DEF Alive, Stages, Early, Starting, Shaking, Creating, InHashmapSection
<1>2. pc["paxos"] \notin Before \cup {"unlock"}
  BY <1>1 DEF Alive, Shaken, Early, Starting, Shaking
<1> QED
   BY <1>1, <1>2 DEF Basics, Types, Alive, Owners, HandshakeOwner, Early,
     Shaking, Before

------------------------------------------------------------------------------
(* No step disturbs the invariant.                                         *)

(* main() and start_paxos_replica, signals and beacons apart.                 *)
LEMMA MainInv ==
  ASSUME Basics, Alive,
         InitNodes \/ StartReplica \/ LockHandshake \/ CheckDone \/ Wait \/
         WaitReturns \/ UnlockHandshake \/ DestroyHandshake \/
         CreateTimerManager \/ InitHashmapLock \/ LockForBeacon \/
         LeaveLoop \/ TerminateTimerManager \/ JoinTimers \/
         TerminatePaxosReplica \/ JoinReplica \/ DestroyHashmapLock \/
         CleanUpHashmap
  PROVE  IInv'
<1> USE DEF Basics, Types, Flags, TimerLabels, CrashesTogether, Alive, Owners,
       Stages, Shaken, Statuses, HashmapOwner, HandshakeOwner, ListenerOwner,
       StatesOwner, Ends, Moves, Hands, Turns, Crashes,
       Early, Starting, Shaking, Creating, Joining, Ending, Before, Freeing,
       Delivering, InHashmapSection
<1>1. ASSUME InitNodes
      PROVE  IInv'
  <2>1. /\ At("main", "init nodes") /\ Moves("main", "start")
        /\ UNCHANGED <<status, owner, done, replica, armed, zctx_interrupted,
                       exiting, signalled, cancelled>>
    BY <1>1, Going DEF InitNodes
  <2>2. Basics'
    BY <2>1
  <2>3. Alive'
    BY <2>1, ZenonT(30)
  <2> QED
    BY <2>2, <2>3 DEF IInv
<1>2. ASSUME StartReplica
      PROVE  IInv'
  <2>1. /\ At("main", "start")
        /\ pc' = [u \in Threads |-> pc'[u]]
        /\ pc'["main"] = "handshake" /\ pc'["paxos"] = "init"
        /\ pc'["timer"] = pc["timer"]
        /\ status' \in [Mutexes -> {"raw", "live", "destroyed"}]
        /\ status'[I] = "live" /\ status'[D] = "live" /\ status'[H] = status[H]
        /\ UNCHANGED <<owner, done, replica, armed, zctx_interrupted,
                       exiting, signalled, cancelled>>
    BY <1>2 DEF StartReplica, flags
  <2>2. Basics'
    BY <2>1
  <2>3. Alive'
    BY <2>1, ZenonT(30)
  <2> QED
    BY <2>2, <2>3 DEF IInv
<1>3. ASSUME LockHandshake
      PROVE  IInv'
  <2>1. /\ At("main", "handshake")
        /\ Moves("main", "check")
        /\ owner[I] = "none" /\ Hands(I, "main")
        /\ UNCHANGED <<status, done, replica, armed, zctx_interrupted,
                       exiting, signalled, cancelled>>
    BY <1>3, Moving, Locking DEF LockHandshake
  <2>2. Basics'
    BY <2>1
  <2>3. Alive'
    BY <2>1, ZenonT(30)
  <2> QED
    BY <2>2, <2>3 DEF IInv
<1>4. ASSUME CheckDone
      PROVE  IInv'
  <2>1. /\ At("main", "check")
        /\ (done /\ Moves("main", "unlock")) \/ (~done /\ Moves("main", "wait"))
        /\ UNCHANGED <<status, owner, done, replica, armed, zctx_interrupted,
                       exiting, signalled, cancelled>>
    <3>1. Types
      OBVIOUS
    <3> QED
      BY ONLY <1>4, <3>1, Checking
  <2>2. Basics'
    BY <2>1
  <2>3. Alive'
    BY <2>1, ZenonT(30)
  <2> QED
    BY <2>2, <2>3 DEF IInv
<1>5. ASSUME Wait
      PROVE  IInv'
  <2>1. /\ At("main", "wait") /\ Moves("main", "waiting") /\ Hands(I, "none")
        /\ UNCHANGED <<status, done, replica, armed, zctx_interrupted,
                       exiting, signalled, cancelled>>
    BY <1>5, Unlocking DEF Wait
  <2>2. Basics'
    BY <2>1
  <2>3. Alive'
    BY <2>1, ZenonT(30)
  <2> QED
    BY <2>2, <2>3 DEF IInv
<1>6. ASSUME WaitReturns
      PROVE  IInv'
  <2>1. /\ At("main", "woken")
        /\ Moves("main", "check")
        /\ owner[I] = "none" /\ Hands(I, "main")
        /\ UNCHANGED <<status, done, replica, armed, zctx_interrupted,
                       exiting, signalled, cancelled>>
    BY <1>6, Moving, Locking DEF WaitReturns, AfterWait
  <2>2. Basics'
    BY <2>1
  <2>3. Alive'
    BY <2>1, ZenonT(30)
  <2> QED
    BY <2>2, <2>3 DEF IInv
<1>7. ASSUME UnlockHandshake
      PROVE  IInv'
  <2>1. /\ At("main", "unlock") /\ Moves("main", "destroy")
 /\ Hands(I, "none")
        /\ UNCHANGED <<status, done, replica, armed, zctx_interrupted,
                       exiting, signalled, cancelled>>
    BY <1>7, Unlocking DEF UnlockHandshake
  <2>2. Basics'
    BY <2>1
  <2>3. Alive'
    BY <2>1, ZenonT(30)
  <2> QED
    BY <2>2, <2>3 DEF IInv
<1>8. ASSUME DestroyHandshake
      PROVE  IInv'
  <2>1. /\ At("main", "destroy") /\ Moves("main", "create timers")
        /\ Turns(I, "destroyed")
        /\ UNCHANGED <<owner, done, replica, armed, zctx_interrupted,
                       exiting, signalled, cancelled>>
    BY <1>8, Moving, Turning DEF DestroyHandshake, flags
  <2>2. Basics'
    BY <2>1
  <2>3. Alive'
    BY <2>1, ZenonT(30)
  <2> QED
    BY <2>2, <2>3 DEF IInv
<1>9. ASSUME CreateTimerManager
      PROVE  IInv'
  <2>1. /\ At("main", "create timers")
        /\ pc' = [u \in Threads |-> pc'[u]]
        /\ pc'["main"] = "init lock" /\ pc'["timer"] = "test"
        /\ pc'["paxos"] = pc["paxos"]
        /\ UNCHANGED <<status, owner, done, replica, armed, zctx_interrupted,
                       exiting, signalled, cancelled>>
    BY <1>9 DEF CreateTimerManager, flags
  <2>2. Basics'
    BY <2>1
  <2>3. Alive'
    BY <2>1, ZenonT(30)
  <2> QED
    BY <2>2, <2>3 DEF IInv
<1>10. ASSUME InitHashmapLock
       PROVE  IInv'
  <2>1. /\ At("main", "init lock") /\ Moves("main", "loop")
        /\ Turns(H, "live")
        /\ UNCHANGED <<owner, done, replica, armed, zctx_interrupted,
                       exiting, signalled, cancelled>>
    BY <1>10, Moving, Turning DEF InitHashmapLock, flags
  <2>2. Basics'
    BY <2>1
  <2>3. Alive'
    BY <2>1, ZenonT(30)
  <2> QED
    BY <2>2, <2>3 DEF IInv
<1>11. ASSUME LockForBeacon
       PROVE  IInv'
  <2>1. /\ At("main", "lock")
        /\ Moves("main", "submit") \/ Moves("main", "unlock hashmap")
        /\ owner[H] = "none" /\ Hands(H, "main")
        /\ armed' = TRUE
        /\ UNCHANGED <<status, done, replica, zctx_interrupted, exiting,
                       signalled, cancelled>>
    BY <1>11, Moving, Locking DEF LockForBeacon, flags
  <2>2. Basics'
    BY <2>1
  <2>3. Alive'
    BY <2>1, ZenonT(30)
  <2> QED
    BY <2>2, <2>3 DEF IInv
<1>12. ASSUME LeaveLoop
       PROVE  IInv'
  <2>1. /\ At("main", "loop") /\ Moves("main", "terminate timers")
        /\ UNCHANGED <<status, owner, done, replica, armed, zctx_interrupted,
                       exiting, signalled, cancelled>>
    BY <1>12, Going DEF LeaveLoop
  <2>2. Basics'
    BY <2>1
  <2>3. Alive'
    BY <2>1, ZenonT(30)
  <2> QED
    BY <2>2, <2>3 DEF IInv
<1>13. ASSUME TerminateTimerManager
       PROVE  IInv'
  <2>1. /\ At("main", "terminate timers") /\ Moves("main", "join timers")
        /\ armed' = FALSE /\ cancelled' = cancelled \cup {"timer"}
        /\ UNCHANGED <<status, owner, done, replica, zctx_interrupted,
                       exiting, signalled>>
    BY <1>13, Moving DEF TerminateTimerManager
  <2>2. Basics'
    BY <2>1
  <2>3. Alive'
    BY <2>1, ZenonT(30)
  <2> QED
    BY <2>2, <2>3 DEF IInv
<1>14. ASSUME JoinTimers
       PROVE  IInv'
  <2>1. /\ At("timer", "gone")
        /\ At("main", "join timers") /\ Moves("main", "terminate replica")
        /\ UNCHANGED <<status, owner, done, replica, armed, zctx_interrupted,
                       exiting, signalled, cancelled>>
    <3>1. At("timer", "gone") /\ Goes("main", "join timers", "terminate replica")
      BY <1>14 DEF JoinTimers, Joined
    <3>2. Types
      OBVIOUS
    <3> QED
      BY ONLY <3>1, <3>2, Going
  <2>2. Basics'
    BY <2>1
  <2>3. Alive'
    BY <2>1, ZenonT(30)
  <2> QED
    BY <2>2, <2>3 DEF IInv
<1>15. ASSUME TerminatePaxosReplica
       PROVE  IInv'
  <2>1. /\ At("main", "terminate replica")
        /\ Moves("main", "join replica") \/ Crashes
        /\ exiting' = TRUE /\ cancelled' = cancelled \cup {"paxos"}
        /\ UNCHANGED <<status, owner, done, replica, armed, zctx_interrupted,
                       signalled>>
    BY <1>15, Moving DEF TerminatePaxosReplica, GotoOrCrash
  <2>2. owner[I] = "none"
    <3>1. Basics /\ Alive
      OBVIOUS
    <3>2. \/ pc["main"] \in InHashmapSection \cup {"terminate replica", "clean up"}
          \/ pc["timer"] \in InHashmapSection
      BY <2>1
    <3> QED
      BY ONLY <3>1, <3>2, HandshakeFree
  <2>3. Basics'
    <3>1. Types' /\ Flags'
      BY <2>1
    <3>2. TimerLabels'
      BY <2>1, ZenonT(30)
    <3>3. CrashesTogether'
      <4>1. Types /\ CrashesTogether
        OBVIOUS
      <4> QED
        BY ONLY <2>1, <2>2, <4>1
    <3> QED
      BY <3>1, <3>2, <3>3
  <2>4. ~At("main", "crashed")' => Alive'
    BY <2>1, ZenonT(30)
  <2> QED
    BY <2>3, <2>4 DEF IInv
<1>16. ASSUME JoinReplica
       PROVE  IInv'
  <2>1. /\ At("paxos", "gone")
        /\ At("main", "join replica") /\ Moves("main", "destroy lock")
        /\ UNCHANGED <<status, owner, done, replica, armed, zctx_interrupted,
                       exiting, signalled, cancelled>>
    <3>1. At("paxos", "gone") /\ Goes("main", "join replica", "destroy lock")
      BY <1>16 DEF JoinReplica, Joined
    <3>2. Types
      OBVIOUS
    <3> QED
      BY ONLY <3>1, <3>2, Going
  <2>2. Basics'
    BY <2>1
  <2>3. Alive'
    BY <2>1, ZenonT(30)
  <2> QED
    BY <2>2, <2>3 DEF IInv
<1>17. ASSUME DestroyHashmapLock
       PROVE  IInv'
  <2>1. /\ At("main", "destroy lock") /\ Moves("main", "clean up")
        /\ Turns(H, "destroyed")
        /\ UNCHANGED <<owner, done, replica, armed, zctx_interrupted,
                       exiting, signalled, cancelled>>
    BY <1>17, Moving, Turning DEF DestroyHashmapLock, flags
  <2>2. Basics'
    BY <2>1
  <2>3. Alive'
    BY <2>1, ZenonT(30)
  <2> QED
    BY <2>2, <2>3 DEF IInv
<1>18. ASSUME CleanUpHashmap
       PROVE  IInv'
  <2>1. /\ At("main", "clean up")
        /\ Moves("main", "exited") \/ Crashes
        /\ UNCHANGED <<status, owner, done, replica, armed, zctx_interrupted,
                       exiting, signalled, cancelled>>
    BY <1>18, Moving DEF CleanUpHashmap, GotoOrCrash, flags
  <2>2. owner[I] = "none"
    <3>1. Basics /\ Alive
      OBVIOUS
    <3>2. \/ pc["main"] \in InHashmapSection \cup {"terminate replica", "clean up"}
          \/ pc["timer"] \in InHashmapSection
      BY <2>1
    <3> QED
      BY ONLY <3>1, <3>2, HandshakeFree
  <2>3. Basics'
    <3>1. Types' /\ Flags'
      BY <2>1
    <3>2. TimerLabels'
      BY <2>1, ZenonT(30)
    <3>3. CrashesTogether'
      <4>1. Types /\ CrashesTogether
        OBVIOUS
      <4> QED
        BY ONLY <2>1, <2>2, <4>1
    <3> QED
      BY <3>1, <3>2, <3>3
  <2>4. ~At("main", "crashed")' => Alive'
    BY <2>1, ZenonT(30)
  <2> QED
    BY <2>3, <2>4 DEF IInv
<1> QED
   BY <1>1, <1>2, <1>3, <1>4, <1>5, <1>6, <1>7, <1>8, <1>9, <1>10, <1>11, <1>12,
     <1>13, <1>14, <1>15, <1>16, <1>17, <1>18

(* The submission of a group by main ...                                   *)
LEMMA MainSubmits ==
  ASSUME Basics, Alive,
         LockRuns("main") \/ Register("main") \/ Propose("main") \/
         UnlockHashmap("main")
  PROVE  IInv'
<1> USE DEF Basics, Types, Flags, TimerLabels, CrashesTogether, Alive, Owners,
       Stages, Shaken, Statuses, HashmapOwner, HandshakeOwner, ListenerOwner,
       StatesOwner, Ends, Moves, Hands, Turns, Crashes,
       Early, Starting, Shaking, Creating, Joining, Ending, Before, Freeing,
       Delivering, InHashmapSection
<1>1. ASSUME LockRuns("main")
      PROVE  IInv'
  <2>1. /\ At("main", "submit")
        /\ \/ Moves("main", "unlock hashmap") /\ UNCHANGED owner
           \/ Moves("main", "register") /\ owner[D] = "none"
              /\ Hands(D, "main")
        /\ UNCHANGED <<status, done, replica, armed, zctx_interrupted,
                       exiting, signalled, cancelled>>
    <3>1. Types
      OBVIOUS
    <3> QED
      BY ONLY <1>1, <3>1, RunsLocking
  <2>2. Basics'
    BY <2>1
  <2>3. Alive'
    BY <2>1, ZenonT(30)
  <2> QED
    BY <2>2, <2>3 DEF IInv
<1>2. ASSUME Register("main")
      PROVE  IInv'
  <2>1. /\ At("main", "register")
        /\ Moves("main", "propose") \/ Crashes
        /\ Hands(D, "none")
        /\ UNCHANGED <<status, done, replica, armed, zctx_interrupted,
                       exiting, signalled, cancelled>>
    BY <1>2, Moving DEF Register, GotoOrCrash, flags
  <2>2. owner[I] = "none"
    <3>1. Basics /\ Alive
      OBVIOUS
    <3>2. \/ pc["main"] \in InHashmapSection \cup {"terminate replica", "clean up"}
          \/ pc["timer"] \in InHashmapSection
      BY <2>1
    <3> QED
      BY ONLY <3>1, <3>2, HandshakeFree
  <2>3. Basics'
    <3>1. Types' /\ Flags'
      BY <2>1
    <3>2. TimerLabels'
      BY <2>1, ZenonT(30)
    <3>3. CrashesTogether'
      <4>1. Types /\ CrashesTogether
        OBVIOUS
      <4> QED
        BY ONLY <2>1, <2>2, <4>1
    <3> QED
      BY <3>1, <3>2, <3>3
  <2>4. ~At("main", "crashed")' => Alive'
    BY <2>1, ZenonT(30)
  <2> QED
    BY <2>3, <2>4 DEF IInv
<1>3. ASSUME Propose("main")
      PROVE  IInv'
  <2>1. /\ At("main", "propose")
        /\ Moves("main", "unlock hashmap") \/ Crashes
        /\ UNCHANGED <<status, owner, done, replica, armed, zctx_interrupted,
                       exiting, signalled, cancelled>>
    BY <1>3, Moving DEF Propose, GotoOrCrash, flags
  <2>2. owner[I] = "none"
    <3>1. Basics /\ Alive
      OBVIOUS
    <3>2. \/ pc["main"] \in InHashmapSection \cup {"terminate replica", "clean up"}
          \/ pc["timer"] \in InHashmapSection
      BY <2>1
    <3> QED
      BY ONLY <3>1, <3>2, HandshakeFree
  <2>3. Basics'
    <3>1. Types' /\ Flags'
      BY <2>1
    <3>2. TimerLabels'
      BY <2>1, ZenonT(30)
    <3>3. CrashesTogether'
      <4>1. Types /\ CrashesTogether
        OBVIOUS
      <4> QED
        BY ONLY <2>1, <2>2, <4>1
    <3> QED
      BY <3>1, <3>2, <3>3
  <2>4. ~At("main", "crashed")' => Alive'
    BY <2>1, ZenonT(30)
  <2> QED
    BY <2>3, <2>4 DEF IInv
<1>4. ASSUME UnlockHashmap("main")
      PROVE  IInv'
  <2>1. /\ At("main", "unlock hashmap") /\ Moves("main", "loop")
        /\ Hands(H, "none")
        /\ UNCHANGED <<status, done, replica, armed, zctx_interrupted,
                       exiting, signalled, cancelled>>
    BY <1>4, Unlocking DEF UnlockHashmap
  <2>2. Basics'
    BY <2>1
  <2>3. Alive'
    BY <2>1, ZenonT(30)
  <2> QED
    BY <2>2, <2>3 DEF IInv
<1> QED
  BY <1>1, <1>2, <1>3, <1>4

(* ... and by the timer thread.                                            *)
LEMMA TimerSubmits ==
  ASSUME Basics, Alive,
         LockRuns("timer") \/ Register("timer") \/ Propose("timer") \/
         UnlockHashmap("timer")
  PROVE  IInv'
<1> USE DEF Basics, Types, Flags, TimerLabels, CrashesTogether, Alive, Owners,
       Stages, Shaken, Statuses, HashmapOwner, HandshakeOwner, ListenerOwner,
       StatesOwner, Ends, Moves, Hands, Turns, Crashes,
       Early, Starting, Shaking, Creating, Joining, Ending, Before, Freeing,
       Delivering, InHashmapSection
<1>1. ASSUME LockRuns("timer")
      PROVE  IInv'
  <2>1. /\ At("timer", "submit")
        /\ \/ Moves("timer", "unlock hashmap") /\ UNCHANGED owner
           \/ Moves("timer", "register") /\ owner[D] = "none"
              /\ Hands(D, "timer")
        /\ UNCHANGED <<status, done, replica, armed, zctx_interrupted,
                       exiting, signalled, cancelled>>
    <3>1. Types
      OBVIOUS
    <3> QED
      BY ONLY <1>1, <3>1, RunsLocking
  <2>2. Basics'
    BY <2>1
  <2>3. Alive'
    BY <2>1, ZenonT(30)
  <2> QED
    BY <2>2, <2>3 DEF IInv
<1>2. ASSUME Register("timer")
      PROVE  IInv'
  <2>1. /\ At("timer", "register")
        /\ Moves("timer", "propose") \/ Crashes
        /\ Hands(D, "none")
        /\ UNCHANGED <<status, done, replica, armed, zctx_interrupted,
                       exiting, signalled, cancelled>>
    BY <1>2, Moving DEF Register, GotoOrCrash, flags
  <2>2. owner[I] = "none"
    <3>1. Basics /\ Alive
      OBVIOUS
    <3>2. \/ pc["main"] \in InHashmapSection \cup {"terminate replica", "clean up"}
          \/ pc["timer"] \in InHashmapSection
      BY <2>1
    <3> QED
      BY ONLY <3>1, <3>2, HandshakeFree
  <2>3. Basics'
    <3>1. Types' /\ Flags'
      BY <2>1
    <3>2. TimerLabels'
      BY ONLY <2>1
    <3>3. CrashesTogether'
      <4>1. Types /\ CrashesTogether
        OBVIOUS
      <4> QED
        BY ONLY <2>1, <2>2, <4>1
    <3> QED
      BY <3>1, <3>2, <3>3
  <2>4. ~At("main", "crashed")' => Alive'
    BY <2>1, ZenonT(30)
  <2> QED
    BY <2>3, <2>4 DEF IInv
<1>3. ASSUME Propose("timer")
      PROVE  IInv'
  <2>1. /\ At("timer", "propose")
        /\ Moves("timer", "unlock hashmap") \/ Crashes
        /\ UNCHANGED <<status, owner, done, replica, armed, zctx_interrupted,
                       exiting, signalled, cancelled>>
    BY <1>3, Moving DEF Propose, GotoOrCrash, flags
  <2>2. owner[I] = "none"
    <3>1. Basics /\ Alive
      OBVIOUS
    <3>2. \/ pc["main"] \in InHashmapSection \cup {"terminate replica", "clean up"}
          \/ pc["timer"] \in InHashmapSection
      BY <2>1
    <3> QED
      BY ONLY <3>1, <3>2, HandshakeFree
  <2>3. Basics'
    <3>1. Types' /\ Flags'
      BY <2>1
    <3>2. TimerLabels'
      BY ONLY <2>1
    <3>3. CrashesTogether'
      <4>1. Types /\ CrashesTogether
        OBVIOUS
      <4> QED
        BY ONLY <2>1, <2>2, <4>1
    <3> QED
      BY <3>1, <3>2, <3>3
  <2>4. ~At("main", "crashed")' => Alive'
    BY <2>1, ZenonT(30)
  <2> QED
    BY <2>3, <2>4 DEF IInv
<1>4. ASSUME UnlockHashmap("timer")
      PROVE  IInv'
  <2>1. /\ At("timer", "unlock hashmap") /\ Moves("timer", "test")
        /\ Hands(H, "none")
        /\ UNCHANGED <<status, done, replica, armed, zctx_interrupted,
                       exiting, signalled, cancelled>>
    BY <1>4, Unlocking, ZenonT(30) DEF UnlockHashmap
  <2>2. Basics'
    BY <2>1
  <2>3. Alive'
    BY <2>1, ZenonT(30)
  <2> QED
    BY <2>2, <2>3 DEF IInv
<1> QED
  BY <1>1, <1>2, <1>3, <1>4

(* The timer thread.                                                       *)
LEMMA TimerInv ==
  ASSUME Basics, Alive,
         CallBack \/ HandleTimeout \/ TestCancel
  PROVE  IInv'
<1> USE DEF Basics, Types, Flags, TimerLabels, CrashesTogether, Alive, Owners,
       Stages, Shaken, Statuses, HashmapOwner, HandshakeOwner, ListenerOwner,
       StatesOwner, Ends, Moves, Hands, Turns, Crashes,
       Early, Starting, Shaking, Creating, Joining, Ending, Before, Freeing,
       Delivering, InHashmapSection
<1>1. ASSUME CallBack
      PROVE  IInv'
  <2>1. /\ At("timer", "test") /\ Moves("timer", "lock")
        /\ armed /\ armed' = FALSE /\ "timer" \notin cancelled
        /\ UNCHANGED <<status, owner, done, replica, zctx_interrupted,
                       exiting, signalled, cancelled>>
    BY <1>1, Moving DEF CallBack, flags
  <2>2. Basics'
    BY <2>1
  <2>3. Alive'
    BY <2>1, ZenonT(30)
  <2> QED
    BY <2>2, <2>3 DEF IInv
<1>2. ASSUME HandleTimeout
      PROVE  IInv'
  <2>1. /\ At("timer", "lock")
        /\ Moves("timer", "submit") \/ Moves("timer", "unlock hashmap")
        /\ owner[H] = "none" /\ Hands(H, "timer")
        /\ UNCHANGED <<status, done, replica, armed, zctx_interrupted,
                       exiting, signalled, cancelled>>
    BY <1>2, Moving, Locking DEF HandleTimeout
  <2>2. Basics'
    BY <2>1
  <2>3. Alive'
    BY <2>1, ZenonT(30)
  <2> QED
    BY <2>2, <2>3 DEF IInv
<1>3. ASSUME TestCancel
      PROVE  IInv'
  <2>1. /\ "timer" \in cancelled
        /\ At("timer", "test") /\ Moves("timer", "gone")
        /\ UNCHANGED <<status, owner, done, replica, armed, zctx_interrupted,
                       exiting, signalled, cancelled>>
    BY <1>3, Going DEF TestCancel, CancelPoints
  <2>2. Basics'
    BY <2>1
  <2>3. Alive'
    BY <2>1, ZenonT(30)
  <2> QED
    BY <2>2, <2>3 DEF IInv
<1> QED
  BY <1>1, <1>2, <1>3

(* The Paxos thread.                                                       *)
LEMMA PaxosInv ==
  ASSUME Basics, Alive,
         InitReplica \/ LockPublish \/ Publish \/ UnlockPublish \/
         AddSignal \/ LockOwnRun \/ UnlockOwnRun \/ Delivered \/
         Cancelled \/ FreeState \/ ClearRuns \/ DestroyListener \/ FreeBase
  PROVE  IInv'
<1> USE DEF Basics, Types, Flags, TimerLabels, CrashesTogether, Alive, Owners,
       Stages, Shaken, Statuses, HashmapOwner, HandshakeOwner, ListenerOwner,
       StatesOwner, Ends, Moves, Hands, Turns, Crashes,
       Early, Starting, Shaking, Creating, Joining, Ending, Before, Freeing,
       Delivering, InHashmapSection
<1>1. ASSUME InitReplica
      PROVE  IInv'
  <2>1. /\ At("paxos", "init") /\ Moves("paxos", "publish")
        /\ replica' = "ready"
        /\ UNCHANGED <<status, owner, done, armed, zctx_interrupted, exiting,
                       signalled, cancelled>>
    BY <1>1, Moving DEF InitReplica, flags
  <2>2. Basics'
    BY <2>1
  <2>3. Alive'
    BY <2>1, ZenonT(30)
  <2> QED
    BY <2>2, <2>3 DEF IInv
<1>2. ASSUME LockPublish
      PROVE  IInv'
  <2>1. /\ At("paxos", "publish")
        /\ Moves("paxos", "signal")
        /\ owner[I] = "none" /\ Hands(I, "paxos")
        /\ UNCHANGED <<status, done, replica, armed, zctx_interrupted,
                       exiting, signalled, cancelled>>
    BY <1>2, Moving, Locking, ZenonT(30) DEF LockPublish
  <2>2. Basics'
    BY <2>1
  <2>3. Alive'
    BY <2>1, ZenonT(30)
  <2> QED
    BY <2>2, <2>3 DEF IInv
<1>3. ASSUME Publish
      PROVE  IInv'
  <2>1. /\ At("paxos", "signal") /\ done' = TRUE
        /\ pc' = [u \in Threads |-> pc'[u]]
        /\ pc'["main"] = IF At("main", "waiting") THEN "woken" ELSE pc["main"]
        /\ pc'["timer"] = pc["timer"] /\ pc'["paxos"] = "unlock"
        /\ UNCHANGED <<status, owner, replica, armed, zctx_interrupted,
                       exiting, signalled, cancelled>>
    BY <1>3 DEF Publish, Woken, flags
  <2>2. Basics'
    BY <2>1
  <2>3. Alive'
    BY <2>1, ZenonT(30)
  <2> QED
    BY <2>2, <2>3 DEF IInv
<1>4. ASSUME UnlockPublish
      PROVE  IInv'
  <2>1. /\ At("paxos", "unlock") /\ Moves("paxos", "add signal")
 /\ Hands(I, "none")
        /\ UNCHANGED <<status, done, replica, armed, zctx_interrupted,
                       exiting, signalled, cancelled>>
    BY <1>4, Unlocking DEF UnlockPublish
  <2>2. Basics'
    BY <2>1
  <2>3. Alive'
    BY <2>1, ZenonT(30)
  <2> QED
    BY <2>2, <2>3 DEF IInv
<1>5. ASSUME AddSignal
      PROVE  IInv'
  <2>1. /\ At("paxos", "add signal") /\ Moves("paxos", "dispatch")
        /\ UNCHANGED <<status, owner, done, replica, armed, zctx_interrupted,
                       exiting, signalled, cancelled>>
    BY <1>5, Going DEF AddSignal
  <2>2. Basics'
    BY <2>1
  <2>3. Alive'
    BY <2>1, ZenonT(30)
  <2> QED
    BY <2>2, <2>3 DEF IInv
<1>6. ASSUME LockOwnRun
      PROVE  IInv'
  <2>1. /\ At("paxos", "deliver own")
        /\ Moves("paxos", "run ended")
        /\ owner[D] = "none" /\ Hands(D, "paxos")
        /\ UNCHANGED <<status, done, replica, armed, zctx_interrupted,
                       exiting, signalled, cancelled>>
    <3>1. Types /\ Statuses
      BY DEF Basics, Alive
    <3> QED
      BY ONLY <1>6, <3>1, BeginningRun
  <2>2. Basics'
    BY <2>1
  <2>3. Alive'
    BY <2>1, ZenonT(30)
  <2> QED
    BY <2>2, <2>3 DEF IInv
<1>7. ASSUME UnlockOwnRun
      PROVE  IInv'
  <2>1. /\ At("paxos", "run ended") /\ Moves("paxos", "deliver")
 /\ Hands(D, "none")
        /\ UNCHANGED <<status, done, replica, armed, zctx_interrupted,
                       exiting, signalled, cancelled>>
    <3>1. Types
      OBVIOUS
    <3> QED
      BY ONLY <1>7, <3>1, EndingRun
  <2>2. Basics'
    BY <2>1
  <2>3. Alive'
    BY <2>1, ZenonT(30)
  <2> QED
    BY <2>2, <2>3 DEF IInv
<1>8. ASSUME Delivered
      PROVE  IInv'
  <2>1. /\ At("paxos", "deliver") /\ Moves("paxos", "dispatch")
 /\ Hands(L, "none")
        /\ UNCHANGED <<status, done, replica, armed, zctx_interrupted,
                       exiting, signalled, cancelled>>
    BY <1>8, Unlocking DEF Delivered
  <2>2. Basics'
    BY <2>1
  <2>3. Alive'
    BY <2>1, ZenonT(30)
  <2> QED
    BY <2>2, <2>3 DEF IInv
<1>9. ASSUME Cancelled
      PROVE  IInv'
  <2>1. /\ "paxos" \in cancelled /\ Moves("paxos", "gone")
        /\ pc["paxos"] \in {"dispatch", "run ended", "deliver", "clear runs"}
        /\ UNCHANGED <<status, owner, done, replica, armed, zctx_interrupted,
                       exiting, signalled, cancelled>>
    BY <1>9, Going DEF Cancelled
  <2>2. Basics'
    BY <2>1
  <2>3. Alive'
    BY <2>1, ZenonT(30)
  <2> QED
    BY <2>2, <2>3 DEF IInv
<1>10. ASSUME FreeState
       PROVE  IInv'
  <2>1. /\ At("paxos", "dispatch") /\ Moves("paxos", "clear runs")
        /\ exiting /\ replica' = "freed"
        /\ UNCHANGED <<status, owner, done, armed, zctx_interrupted, exiting,
                       signalled, cancelled>>
    BY <1>10, Moving DEF FreeState, flags
  <2>2. Basics'
    BY <2>1
  <2>3. Alive'
    BY <2>1, ZenonT(30)
  <2> QED
    BY <2>2, <2>3 DEF IInv
<1>11. ASSUME ClearRuns
       PROVE  IInv'
  <2>1. /\ At("paxos", "clear runs") /\ Moves("paxos", "destroy")
        /\ UNCHANGED <<status, owner, done, replica, armed, zctx_interrupted,
                       exiting, signalled, cancelled>>
    BY <1>11, Going DEF ClearRuns
  <2>2. Basics'
    BY <2>1
  <2>3. Alive'
    BY <2>1, ZenonT(30)
  <2> QED
    BY <2>2, <2>3 DEF IInv
<1>12. ASSUME DestroyListener
       PROVE  IInv'
  <2>1. /\ At("paxos", "destroy") /\ Moves("paxos", "free base")
        /\ status' \in [Mutexes -> {"raw", "live", "destroyed"}]
        /\ status'[H] = status[H] /\ status'[I] = status[I]
        /\ UNCHANGED <<owner, done, replica, armed, zctx_interrupted,
                       exiting, signalled, cancelled>>
    BY <1>12, Moving DEF DestroyListener, flags
  <2>2. Basics'
    BY <2>1
  <2>3. Alive'
    BY <2>1, ZenonT(30)
  <2> QED
    BY <2>2, <2>3 DEF IInv
<1>13. ASSUME FreeBase
       PROVE  IInv'
  <2>1. /\ At("paxos", "free base") /\ Moves("paxos", "gone")
        /\ UNCHANGED <<status, owner, done, replica, armed, zctx_interrupted,
                       exiting, signalled, cancelled>>
    BY <1>13, Going DEF FreeBase
  <2>2. Basics'
    BY <2>1
  <2>3. Alive'
    BY <2>1, ZenonT(30)
  <2> QED
    BY <2>2, <2>3 DEF IInv
<1> QED
   BY <1>1, <1>2, <1>3, <1>4, <1>5, <1>6, <1>7, <1>8, <1>9, <1>10, <1>11, <1>12,
     <1>13

(* A beacon, a spurious wake-up and a delivery.                            *)
LEMMA EnvironmentInv ==
  ASSUME Basics, Alive,
         Beacon \/ SpuriousWakeUp \/ Deliver
  PROVE  IInv'
<1> USE DEF Basics, Types, Flags, TimerLabels, CrashesTogether, Alive, Owners,
       Stages, Shaken, Statuses, HashmapOwner, HandshakeOwner, ListenerOwner,
       StatesOwner, Ends, Moves, Hands, Turns, Crashes,
       Early, Starting, Shaking, Creating, Joining, Ending, Before, Freeing,
       Delivering, InHashmapSection
<1>1. ASSUME Beacon
      PROVE  IInv'
  <2>1. /\ At("main", "loop") /\ Moves("main", "lock")
        /\ UNCHANGED <<status, owner, done, replica, armed, zctx_interrupted,
                       exiting, signalled, cancelled>>
    BY <1>1, Going DEF Beacon
  <2>2. Basics'
    BY <2>1
  <2>3. Alive'
    BY <2>1, ZenonT(30)
  <2> QED
    BY <2>2, <2>3 DEF IInv
<1>2. ASSUME SpuriousWakeUp
      PROVE  IInv'
  <2>1. /\ At("main", "waiting") /\ Moves("main", "woken")
        /\ UNCHANGED <<status, owner, done, replica, armed, zctx_interrupted,
                       exiting, signalled, cancelled>>
    BY <1>2, Going DEF SpuriousWakeUp
  <2>2. Basics'
    BY <2>1
  <2>3. Alive'
    BY <2>1, ZenonT(30)
  <2> QED
    BY <2>2, <2>3 DEF IInv
<1>3. ASSUME Deliver
      PROVE  IInv'
  <2>1. /\ At("paxos", "dispatch")
        /\ Moves("paxos", "deliver") \/ Moves("paxos", "deliver own")
        /\ owner[L] = "none" /\ Hands(L, "paxos")
        /\ UNCHANGED <<status, done, replica, armed, zctx_interrupted,
                       exiting, signalled, cancelled>>
    BY <1>3, Moving, Locking, ZenonT(30) DEF Deliver
  <2>2. Basics'
    BY <2>1
  <2>3. Alive'
    BY <2>1, ZenonT(30)
  <2> QED
    BY <2>2, <2>3 DEF IInv
<1> QED
  BY <1>1, <1>2, <1>3

(* A signal sets flags, and libevent's tells why the loop ends.            *)
LEMMA SignalInv ==
  ASSUME Basics, Alive, NEW sig \in {"SIGINT", "SIGTERM"}, Signal(sig)
  PROVE  IInv'
<1>1. /\ UNCHANGED <<pc, status, owner, done, replica, armed, cancelled>>
      /\ UNCHANGED <<exiting, signalled>> \/ (exiting' = TRUE /\ signalled' = TRUE)
      /\ zctx_interrupted' \in {zctx_interrupted, TRUE}
  BY DEF Signal, EndsLoop
<1>2. Basics'
  BY <1>1 DEF Basics, Types, Flags, TimerLabels, CrashesTogether
<1>3. Stages' /\ Shaken' /\ Statuses'
  BY <1>1 DEF Alive, Stages, Shaken, Statuses
<1>4. Owners'
   BY <1>1 DEF Alive, Owners, HashmapOwner, HandshakeOwner, ListenerOwner,
     StatesOwner
<1>5. Ends'
  BY <1>1 DEF Alive, Ends
<1> QED
  BY <1>2, <1>3, <1>4, <1>5 DEF IInv, Alive

(* After a crash nothing moves.                                            *)
LEMMA CrashIsFinal ==
  ASSUME Basics, At("main", "crashed"), Next
  PROVE  FALSE
<1>1. pc["main"] = "crashed" /\ pc["timer"] = "crashed" /\ pc["paxos"] = "crashed"
  BY DEF Basics, CrashesTogether
<1>2. \A t \in {"main", "timer"} : ~SubmitStep(t)
   BY <1>1 DEF SubmitStep, LockRuns, Register, Propose, UnlockHashmap, Unlocks,
     Goes, Locks
<1>3. ~MainStep
   BY <1>1, <1>2 DEF MainStep, InitNodes, StartReplica, LockHandshake,
     CheckDone, Wait,
     WaitReturns, UnlockHandshake, DestroyHandshake, CreateTimerManager,
     InitHashmapLock, LockForBeacon, LeaveLoop, TerminateTimerManager, JoinTimers,
     TerminatePaxosReplica, JoinReplica, DestroyHashmapLock, CleanUpHashmap,
     Unlocks, Goes, Locks
<1>4. ~TimerStep
  BY <1>1, <1>2 DEF TimerStep, CallBack, HandleTimeout, TestCancel, CancelPoints,
     Goes, Locks
<1>5. ~PaxosStep
   BY <1>1 DEF PaxosStep, InitReplica, LockPublish, Publish, UnlockPublish,
     AddSignal,
     LockOwnRun, UnlockOwnRun, Delivered, Cancelled, FreeState, ClearRuns,
     DestroyListener, FreeBase, Unlocks, Goes, Locks
<1>6. ~Beacon /\ ~SpuriousWakeUp /\ ~Deliver /\ \A sig : ~Signal(sig)
  BY <1>1 DEF Beacon, SpuriousWakeUp, Deliver, Signal, Goes, Locks
<1> QED
  BY <1>3, <1>4, <1>5, <1>6 DEF Next

(* The inductive invariant holds at the start ...                          *)
LEMMA InitInv == Init => IInv
<1> SUFFICES ASSUME Init
             PROVE  IInv
  OBVIOUS
<1> USE DEF Init, Early, Starting, Shaking, Creating, Joining, Ending, Before,
   Freeing,
       Delivering, InHashmapSection
<1>1. Basics
  BY DEF Basics, Types, Flags, TimerLabels, CrashesTogether
<1>2. Stages /\ Shaken /\ Statuses
  BY DEF Stages, Shaken, Statuses
<1>3. Owners
  BY DEF Owners, HashmapOwner, HandshakeOwner, ListenerOwner, StatesOwner
<1>4. Ends
  BY DEF Ends
<1> QED
  BY <1>1, <1>2, <1>3, <1>4 DEF IInv, Alive

(* ... and no step disturbs it.                                            *)
LEMMA StepInv == IInv /\ [Next]_vars => IInv'
<1> SUFFICES ASSUME IInv, [Next]_vars
             PROVE  IInv'
  OBVIOUS
<1>1. CASE UNCHANGED vars
  <2>1. UNCHANGED <<pc, status, owner, done, replica, armed, zctx_interrupted,
                    exiting, signalled, cancelled>>
    BY <1>1 DEF vars, flags
  <2>2. Basics'
    BY <2>1 DEF IInv, Basics, Types, Flags, TimerLabels, CrashesTogether
  <2>3. Alive => Alive'
    <3>1. Stages /\ Shaken /\ Statuses => (Stages /\ Shaken /\ Statuses)'
      BY <2>1 DEF Stages, Shaken, Statuses
    <3>2. Owners => Owners'
      BY <2>1 DEF Owners, HashmapOwner, HandshakeOwner, ListenerOwner, StatesOwner
    <3>3. Ends => Ends'
      BY <2>1 DEF Ends
    <3> QED
      BY <3>1, <3>2, <3>3 DEF Alive
  <2> QED
    BY <2>1, <2>2, <2>3 DEF IInv
<1>2. CASE Next
  <2>1. Basics /\ Alive
    BY <1>2, CrashIsFinal DEF IInv
  <2>2. CASE MainStep
    BY <2>1, <2>2, MainInv, MainSubmits DEF MainStep, SubmitStep
  <2>3. CASE TimerStep
    BY <2>1, <2>3, TimerInv, TimerSubmits DEF TimerStep, SubmitStep
  <2>4. CASE PaxosStep
    BY <2>1, <2>4, PaxosInv DEF PaxosStep
  <2>5. CASE Beacon \/ SpuriousWakeUp \/ Deliver
    BY <2>1, <2>5, EnvironmentInv
  <2>6. ASSUME NEW sig \in {"SIGINT", "SIGTERM"}, Signal(sig)
        PROVE  IInv'
    BY <2>1, <2>6, SignalInv
  <2> QED
    BY <1>2, <2>2, <2>3, <2>4, <2>5, <2>6 DEF Next
<1> QED
  BY <1>1, <1>2

(* The inductive invariant holds in every reachable state.                 *)
THEOREM Inductive == Spec => []IInv
<1> QED
  BY InitInv, StepInv, PTL DEF Spec

------------------------------------------------------------------------------
(* The properties.                                                         *)

(* The state is well formed: a mutex has one of the threads for its owner, *)
(* and hashmap_lock is held in its critical sections and nowhere else.     *)
THEOREM TypeCorrect == Spec => []TypeOK
<1>1. IInv => TypeOK
  <2> SUFFICES ASSUME IInv
               PROVE  TypeOK
    OBVIOUS
  <2>1. Types /\ Flags
    BY DEF IInv, Basics
  <2>2. ASSUME ~At("main", "crashed"), NEW t \in Threads
        PROVE  (owner[H] = t) = (pc[t] \in InHashmapSection)
    BY <2>2 DEF IInv, Alive, Owners, HashmapOwner
  <2> QED
    BY <2>1, <2>2 DEF TypeOK, Types, Flags
<1> QED
  BY <1>1, Inductive, PTL

(* The mutex of the handshake is destroyed when nobody will use it again.  *)
THEOREM HandshakeSafe == Spec => []HandshakeOver
<1>1. IInv => HandshakeOver
  <2> SUFFICES ASSUME IInv, status[I] = "destroyed"
               PROVE  /\ owner[I] = "none"
                      /\ pc["paxos"] \notin {"init", "publish", "signal", "unlock"}
    BY DEF HandshakeOver
  <2>1. CASE At("main", "crashed")
    BY <2>1 DEF IInv, Basics, CrashesTogether
  <2>2. CASE ~At("main", "crashed")
    <3>1. Types /\ Alive /\ pc["main"] \notin Starting \cup Shaking \cup {"destroy"}
      BY <2>2 DEF IInv, Basics, Alive, Statuses
    <3>2. pc["paxos"] \notin Before \cup {"unlock"}
      BY <3>1 DEF Alive, Shaken
    <3>3. owner[I] = "none"
      BY <3>1, <3>2 DEF Types, Alive, Owners, HandshakeOwner, Shaking, Before
    <3> QED
      BY <3>2, <3>3 DEF Before
  <2> QED
    BY <2>1, <2>2
<1> QED
  BY <1>1, Inductive, PTL

(* Nothing is submitted to a replica that is not there, unless a SIGINT    *)
(* has stopped the Paxos thread alone.                                     *)
THEOREM SubmitSafe == Spec => []SubmitsToReady
<1>1. IInv => SubmitsToReady
  <2> SUFFICES ASSUME IInv, NEW t \in {"main", "timer"}, pc[t] \in {"register", "propose"}
               PROVE  replica = "ready" \/ signalled
    BY DEF SubmitsToReady
  <2>1. ~At("main", "crashed")
    BY DEF IInv, Basics, CrashesTogether
  <2>2. Types /\ Stages /\ Shaken /\ Ends
    BY <2>1 DEF IInv, Basics, Alive
  <2>3. pc["main"] \notin Early \cup Joining
     BY <2>2 DEF Stages, InHashmapSection, Early, Starting, Shaking, Creating,
       Joining
  <2>4. replica # "raw"
    BY <2>2, <2>3 DEF Shaken, Ends, Early, Before
  <2>5. replica = "freed" => signalled
    BY <2>2, <2>3 DEF Ends
  <2> QED
    BY <2>2, <2>4, <2>5 DEF Types
<1> QED
  BY <1>1, Inductive, PTL

(* No mutex is destroyed while it is held, with the same exception.        *)
THEOREM DestroySafe == Spec => []DestroyedUnheld
<1>1. IInv => DestroyedUnheld
  <2> SUFFICES ASSUME IInv, ~At("main", "crashed")
               PROVE  DestroyedUnheld
    BY DEF DestroyedUnheld, IInv, Basics, CrashesTogether
  <2>1. Types /\ Stages /\ Shaken /\ Owners /\ Ends
    BY DEF IInv, Basics, Alive
  <2>2. At("main", "destroy") => owner[I] = "none"
    BY <2>1 DEF Types, Shaken, Owners, HandshakeOwner, Starting, Shaking, Before
  <2>3. At("main", "destroy lock") => owner[H] = "none"
    BY <2>1 DEF Types, Stages, Owners, HashmapOwner, Joining, InHashmapSection
  <2>4. At("paxos", "destroy") => owner[L] = "none" /\ (owner[D] = "none" \/ signalled)
    <3> SUFFICES ASSUME At("paxos", "destroy")
                 PROVE  owner[L] = "none" /\ (owner[D] = "none" \/ signalled)
      OBVIOUS
    <3>1. owner[L] = "none" /\ owner[D] # "paxos"
      BY <2>1 DEF Owners, ListenerOwner, StatesOwner, Delivering
    <3>2. pc["main"] \in Joining => owner[D] # "main" /\ owner[D] # "timer"
      BY <2>1 DEF Stages, Owners, StatesOwner, Joining
    <3>3. signalled \/ pc["main"] \in Joining
      BY <2>1 DEF Ends, Freeing
    <3> QED
      BY <2>1, <3>1, <3>2, <3>3 DEF Types
  <2> QED
    BY <2>2, <2>3, <2>4 DEF DestroyedUnheld
<1> QED
  BY <1>1, Inductive, PTL

(* The timer thread uses hashmap_lock within its life only, and the        *)
(* clean-up, whose locking fails, is alone.                                *)
THEOREM LockLiveSafe == Spec => []HashmapLockLive
<1>1. IInv => HashmapLockLive
  <2> SUFFICES ASSUME IInv
               PROVE  HashmapLockLive
    OBVIOUS
  <2>1. CASE At("main", "crashed")
    BY <2>1 DEF IInv, Basics, CrashesTogether, HashmapLockLive
  <2>2. CASE ~At("main", "crashed")
    <3>1. Types /\ TimerLabels /\ Stages /\ Statuses
      BY <2>2 DEF IInv, Basics, Alive
    <3>2. status[H] = "destroyed" => At("timer", "gone") /\ At("paxos", "gone")
      BY <3>1 DEF Stages, Statuses, Joining
    <3>3. status[H] = "raw" => pc["timer"] \in {"none", "test", "gone", "crashed"}
      BY <3>1 DEF TimerLabels, Stages, Statuses
    <3>4. status[H] \in {"raw", "live", "destroyed"}
      BY <3>1 DEF Types
    <3> QED
      BY <3>2, <3>3, <3>4 DEF HashmapLockLive
  <2> QED
    BY <2>1, <2>2
<1> QED
  BY <1>1, Inductive, PTL

(* A thread that is gone has left no mutex locked that another will ask    *)
(* for.                                                                    *)
THEOREM GoneHoldsNothingWanted == Spec => []NoneWaitsForGone
<1>1. IInv => NoneWaitsForGone
  <2> SUFFICES ASSUME IInv, NEW m \in Mutexes, owner[m] # "none", pc[owner[m]] = "gone"
               PROVE  m \in {L, D} /\ \A t \in Threads : pc[t] \notin {"lock", "submit"}
    BY DEF NoneWaitsForGone
  <2>1. Types /\ owner[m] \in Threads
    BY DEF IInv, Basics, Types
  <2>2. ~At("main", "crashed")
    BY <2>1 DEF IInv, Basics, CrashesTogether
  <2>3. Stages /\ Owners /\ Ends
    BY <2>2 DEF IInv, Alive
  <2>4. m \in {L, D} /\ owner[m] = "paxos"
     BY <2>1, <2>3 DEF Owners, HashmapOwner, HandshakeOwner, ListenerOwner,
       StatesOwner,
       InHashmapSection
  <2>5. pc["main"] \in Joining
    BY <2>3, <2>4 DEF Owners, ListenerOwner, StatesOwner, Ends
  <2>6. At("timer", "gone") /\ At("paxos", "gone")
    BY <2>3, <2>4, <2>5 DEF Stages
  <2> QED
    BY <2>4, <2>5, <2>6 DEF Joining
<1> QED
  BY <1>1, Inductive, PTL

=============================================================================
