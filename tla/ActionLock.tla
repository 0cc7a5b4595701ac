----------------------------- MODULE ActionLock -----------------------------
(***************************************************************************)
(* The action lock of the container tree (src/src/container.cpp:224-317).  *)
(*                                                                         *)
(* Every operation that changes a container first takes its action lock.   *)
(* The lock covers the whole subtree: ActionLocked is the lock word of the *)
(* container itself, SubtreeRead counts the locks held below it, and       *)
(* PendingWrite is raised by a writer that has to wait.  All four fields   *)
(* are only touched under the global ContainersMutex, so one critical      *)
(* section of the code is one action here.  Threads that have to wait      *)
(* sleep on the one condition variable ContainersCV; notify_all makes them *)
(* all runnable again ("woken").                                           *)
(*                                                                         *)
(* The users of the lock are the request and event handlers:               *)
(*   - WriteContainer / LockContainer take it exclusively, Start, Stop and *)
(*     Respawn downgrade it while they wait for tasks and upgrade it back, *)
(*     ReleaseContainer drops it (client.cpp:347-387);                     *)
(*   - Destroy unregisters the locked container and its subtree;           *)
(*   - Create takes the parent's lock shared, and gives it back before it  *)
(*     leaves ContainersMutex.                                             *)
(***************************************************************************)
EXTENDS Integers, FiniteSets

CONSTANTS
  Container,   \* container objects that may ever exist
  Parent,      \* the object's parent, NoContainer for the root
  Above,       \* all proper ancestors of an object
  Thread,      \* worker threads: requests, events, the jail rebalancer
  Requests,    \* the containers each thread's requests name
  NoContainer  \* "no object"

(* The parent pointers form a tree, and Above is its ancestor relation. *)
ASSUME TreeAssumption ==
  /\ NoContainer \notin Container
  /\ Parent \in [Container -> Container \cup {NoContainer}]
  /\ Above \in [Container -> SUBSET Container]
  /\ \A c \in Container :
       /\ c \notin Above[c]
       /\ \A d \in Above[c] : Above[d] \subseteq Above[c]
       /\ Parent[c] # NoContainer => Above[c] = {Parent[c]} \cup Above[Parent[c]]
       /\ Parent[c] = NoContainer => Above[c] = {}

(* The root is locked like any other: by volume requests, the network      *)
(* watchdog and the server itself (volume.cpp:3588, network.cpp:2220).     *)
ASSUME ThreadAssumption ==
  /\ IsFiniteSet(Thread)
  /\ Requests \in [Thread -> SUBSET Container]

VARIABLES
  ActionLocked,  \* TContainer::ActionLocked: -1 exclusive, n > 0 shared
  SubtreeRead,   \* TContainer::SubtreeRead
  PendingWrite,  \* TContainer::PendingWrite
  life,          \* "absent", "alive" or "destroyed" (EContainerState::Destroyed)
  pc,            \* where each thread is
  target,        \* the container a thread waits for or holds
  want           \* "write" for LockAction(), "create" for LockActionShared()

lockVars == <<ActionLocked, SubtreeRead, PendingWrite>>
vars == <<ActionLocked, SubtreeRead, PendingWrite, life, pc, target, want>>

PC == {"idle", "wait", "woken", "held", "down", "up", "gone"}

(* A thread holds the lock exclusively from "held" on, shared while it is  *)
(* "down", exclusively again once it is "up", and still when the locked    *)
(* container itself is "gone".  No handler downgrades twice.               *)
Exclusive(t) == pc[t] \in {"held", "up", "gone"}
Holding(t) == Exclusive(t) \/ pc[t] = "down"

Root == {c \in Container : Parent[c] = NoContainer}
Below(c) == {d \in Container : c \in Above[d]}

TypeOK ==
  /\ ActionLocked \in [Container -> Int]
  /\ SubtreeRead \in [Container -> Nat]
  /\ PendingWrite \in [Container -> BOOLEAN]
  /\ life \in [Container -> {"absent", "alive", "destroyed"}]
  /\ pc \in [Thread -> PC]
  /\ target \in [Thread -> Container \cup {NoContainer}]
  /\ want \in [Thread -> {"write", "create"}]

(* A freshly started server: only the root container is registered. *)
Init ==
  /\ ActionLocked = [c \in Container |-> 0]
  /\ SubtreeRead = [c \in Container |-> 0]
  /\ PendingWrite = [c \in Container |-> FALSE]
  /\ life = [c \in Container |-> IF c \in Root THEN "alive" ELSE "absent"]
  /\ pc = [t \in Thread |-> "idle"]
  /\ target = [t \in Thread |-> NoContainer]
  /\ want = [t \in Thread |-> "write"]

-----------------------------------------------------------------------------
(* The condition LockAction waits on.                                      *)

BusyShared(c) ==
  \/ ActionLocked[c] < 0
  \/ PendingWrite[c]
  \/ \E a \in Above[c] : PendingWrite[a] \/ ActionLocked[a] < 0

(* Mutants: the test of one lock word is forgotten. *)
BusyExclusive_NoSubtree(c) ==
  \/ ActionLocked[c] # 0
  \/ \E a \in Above[c] : PendingWrite[a] \/ ActionLocked[a] # 0

BusyExclusive_NoAncestors(c) == ActionLocked[c] # 0 \/ SubtreeRead[c] # 0

BusyExclusive_IgnoreShared(c) ==
  \/ ActionLocked[c] < 0
  \/ SubtreeRead[c] # 0
  \/ \E a \in Above[c] : PendingWrite[a] \/ ActionLocked[a] # 0

BusyExclusive_NoPending(c) ==
  \/ ActionLocked[c] # 0
  \/ SubtreeRead[c] # 0
  \/ \E a \in Above[c] : ActionLocked[a] # 0

BusyExclusive(c) ==
  \/ ActionLocked[c] # 0
  \/ SubtreeRead[c] # 0
  \/ \E a \in Above[c] : PendingWrite[a] \/ ActionLocked[a] # 0

(* ContainersCV.notify_all(), together with thread t moving to place p. *)
NotifyAll(t, p) ==
  pc' = [u \in Thread |-> IF u = t THEN p
                          ELSE IF pc[u] = "wait" THEN "woken" ELSE pc[u]]

(* LockAction fails: the container was destroyed meanwhile. *)
LockFails(t, c) ==
  /\ life[c] = "destroyed"
  /\ pc' = [pc EXCEPT ![t] = "idle"]
  /\ target' = [target EXCEPT ![t] = NoContainer]
  /\ UNCHANGED <<lockVars, life, want>>

(* One exclusive pass of the loop of LockAction: wait, or take the lock. *)
WaitExclusive(t, c) ==
  /\ life[c] = "alive"
  /\ BusyExclusive(c)
  /\ PendingWrite' = [PendingWrite EXCEPT ![c] = TRUE]
  /\ pc' = [pc EXCEPT ![t] = "wait"]
  /\ target' = [target EXCEPT ![t] = c]
  /\ want' = [want EXCEPT ![t] = "write"]
  /\ UNCHANGED <<ActionLocked, SubtreeRead, life>>

(* Mutant: the flag is not cleared. *)
TakeExclusive_KeepPending(t, c) ==
  /\ life[c] = "alive"
  /\ ~BusyExclusive(c)
  /\ ActionLocked' = [ActionLocked EXCEPT ![c] = @ - 1]
  /\ SubtreeRead' = [a \in Container |->
                       SubtreeRead[a] + IF a \in Above[c] THEN 1 ELSE 0]
  /\ pc' = [pc EXCEPT ![t] = "held"]
  /\ target' = [target EXCEPT ![t] = c]
  /\ want' = [want EXCEPT ![t] = "write"]
  /\ UNCHANGED <<PendingWrite, life>>

TakeExclusive(t, c) ==
  /\ life[c] = "alive"
  /\ ~BusyExclusive(c)
  /\ PendingWrite' = [PendingWrite EXCEPT ![c] = FALSE]
  /\ ActionLocked' = [ActionLocked EXCEPT ![c] = @ - 1]
  /\ SubtreeRead' = [a \in Container |->
                       SubtreeRead[a] + IF a \in Above[c] THEN 1 ELSE 0]
  /\ pc' = [pc EXCEPT ![t] = "held"]
  /\ target' = [target EXCEPT ![t] = c]
  /\ want' = [want EXCEPT ![t] = "write"]
  /\ UNCHANGED life

LockAction(t, c) == LockFails(t, c) \/ WaitExclusive(t, c) \/ TakeExclusive(t, c)

(* Create under parent p: the shared pass of LockAction.  When the lock is *)
(* free the thread takes it, registers the new child (or fails: no rights, *)
(* name taken, limit reached, save failed), and unlocks with notify_all,   *)
(* all inside one critical section: ActionLocked and SubtreeRead end where *)
(* they were, and PendingWrite was already false.                          *)
WaitShared(t, p) ==
  /\ life[p] = "alive"
  /\ BusyShared(p)
  /\ pc' = [pc EXCEPT ![t] = "wait"]
  /\ target' = [target EXCEPT ![t] = p]
  /\ want' = [want EXCEPT ![t] = "create"]
  /\ UNCHANGED <<lockVars, life>>

Register(t, p) ==
  /\ life[p] = "alive"
  /\ ~BusyShared(p)
  /\ \/ \E c \in Container : /\ Parent[c] = p
                             /\ life[c] = "absent"
                             /\ life' = [life EXCEPT ![c] = "alive"]
     \/ UNCHANGED life
  /\ NotifyAll(t, "idle")
  /\ target' = [target EXCEPT ![t] = NoContainer]
  /\ UNCHANGED <<lockVars, want>>

Create(t, p) == LockFails(t, p) \/ WaitShared(t, p) \/ Register(t, p)

-----------------------------------------------------------------------------
(* The steps of a thread.                                                  *)

(* WriteContainer, LockContainer.  Events hold their container by          *)
(* reference, so they may ask for the lock of a destroyed one.             *)
WriteContainer(t) ==
  /\ pc[t] = "idle"
  /\ \E c \in Requests[t] : LockAction(t, c)

CreateContainer(t) ==
  /\ pc[t] = "idle"
  /\ \E p \in Container : Create(t, p)

(* A thread returns from ContainersCV.wait and runs the loop once more. *)
Retry(t) ==
  /\ pc[t] = "woken"
  /\ \/ want[t] = "write" /\ LockAction(t, target[t])
     \/ want[t] = "create" /\ Create(t, target[t])

(* Mutant: the waiters are not notified. *)
UnlockAction_NoNotify(t) ==
  /\ Exclusive(t)
  /\ SubtreeRead' = [a \in Container |->
                       SubtreeRead[a] - IF a \in Above[target[t]] THEN 1 ELSE 0]
  /\ ActionLocked' = [ActionLocked EXCEPT ![target[t]] =
                        @ + IF @ > 0 THEN -1 ELSE 1]
  /\ pc' = [pc EXCEPT ![t] = "idle"]
  /\ target' = [target EXCEPT ![t] = NoContainer]
  /\ UNCHANGED <<PendingWrite, life, want>>

UnlockAction(t) ==
  /\ Exclusive(t)
  /\ SubtreeRead' = [a \in Container |->
                       SubtreeRead[a] - IF a \in Above[target[t]] THEN 1 ELSE 0]
  /\ ActionLocked' = [ActionLocked EXCEPT ![target[t]] =
                        @ + IF @ > 0 THEN -1 ELSE 1]
  /\ NotifyAll(t, "idle")
  /\ target' = [target EXCEPT ![t] = NoContainer]
  /\ UNCHANGED <<PendingWrite, life, want>>

DowngradeActionLock(t) ==
  /\ pc[t] = "held"
  /\ ActionLocked' = [ActionLocked EXCEPT ![target[t]] = 1]
  /\ NotifyAll(t, "down")
  /\ UNCHANGED <<SubtreeRead, PendingWrite, life, target, want>>

(* The code raises PendingWrite and waits until ActionLocked = 1.  The     *)
(* wait never happens (invariant HoldersMatchWords): the only shared       *)
(* locker, Create, is gone again before ContainersMutex is free.           *)
UpgradeActionLock(t) ==
  /\ pc[t] = "down"
  /\ ActionLocked[target[t]] = 1
  /\ ActionLocked' = [ActionLocked EXCEPT ![target[t]] = -1]
  /\ PendingWrite' = [PendingWrite EXCEPT ![target[t]] = FALSE]
  /\ pc' = [pc EXCEPT ![t] = "up"]
  /\ UNCHANGED <<SubtreeRead, life, target, want>>

(* Destroy unregisters the subtree children first, one critical section    *)
(* each.  An error stops it half way, with the locked container alive.     *)
(* DestroyContainers holds the root meanwhile (server.cpp:586).            *)
Unregister(t) ==
  /\ pc[t] \in {"held", "up"}
  /\ \E c \in Below(target[t]) \cup {target[t]} :
       /\ life[c] = "alive"
       /\ \A d \in Below(c) : life[d] # "alive"
       /\ life' = [life EXCEPT ![c] = "destroyed"]
       /\ pc' = IF c = target[t] THEN [pc EXCEPT ![t] = "gone"] ELSE pc
  /\ UNCHANGED <<lockVars, target, want>>

Next ==
  \E t \in Thread :
    \/ WriteContainer(t)
    \/ CreateContainer(t)
    \/ Retry(t)
    \/ UnlockAction(t)
    \/ DowngradeActionLock(t)
    \/ UpgradeActionLock(t)
    \/ Unregister(t)

Spec == Init /\ [][Next]_vars

(* A thread that is woken runs again, and a handler that holds a lock goes *)
(* on to the end: nothing it does under the lock waits for another client. *)
Fairness ==
  \A t \in Thread :
    /\ WF_vars(Retry(t))
    /\ WF_vars(UnlockAction(t))
    /\ WF_vars(UpgradeActionLock(t))

FairSpec == Spec /\ Fairness

-----------------------------------------------------------------------------
(* Properties.                                                             *)

Apart(c, d) == c # d /\ c \notin Above[d] /\ d \notin Above[c]

(* No two threads are ever inside operations on the same container, or on  *)
(* a container and one of its ancestors, even while one of them has        *)
(* downgraded its lock to wait for a task (container.cpp:224-232).         *)
HoldersApart ==
  \A t, u \in Thread :
    t # u /\ Holding(t) /\ Holding(u) => Apart(target[t], target[u])

HoldersBelow(c) == {t \in Thread : Holding(t) /\ c \in Above[target[t]]}

WordMatches(c) ==
  ActionLocked[c] = IF \E t \in Thread : Exclusive(t) /\ target[t] = c THEN -1
                    ELSE IF \E t \in Thread : pc[t] = "down" /\ target[t] = c
                      THEN 1 ELSE 0

(* The lock words always say who holds what, so the assertions of          *)
(* UnlockAction and DowngradeActionLock cannot fail, SubtreeRead never     *)
(* drifts, and UpgradeActionLock never has to wait.                        *)
HoldersMatchWords ==
  \A c \in Container : /\ WordMatches(c)
                       /\ SubtreeRead[c] = Cardinality(HoldersBelow(c))

(* A container cannot be destroyed under the feet of the thread that holds *)
(* its action lock: only that thread itself may unregister it.             *)
HeldIsAlive ==
  \A t \in Thread : pc[t] \in {"held", "down", "up"} => life[target[t]] = "alive"

(* No lost wakeup: whoever sleeps on ContainersCV in LockAction really has *)
(* to wait.  Each critical section that makes a lock free notifies, also   *)
(* the ones that only lower SubtreeRead or PendingWrite.                   *)
NoLostWakeup ==
  \A t \in Thread :
    pc[t] = "wait" => IF want[t] = "write" THEN BusyExclusive(target[t])
                                          ELSE BusyShared(target[t])

(* PendingWrite shuts out readers and the whole subtree, so it must not be *)
(* left behind: some writer of this container is still queued for it.      *)
NoOrphanPendingWrite ==
  \A c \in Container :
    life[c] = "alive" /\ PendingWrite[c] =>
      \E t \in Thread : /\ pc[t] \in {"wait", "woken"}
                        /\ want[t] = "write"
                        /\ target[t] = c

(* PendingWrite prevents starvation: a writer that no other thread         *)
(* competes with for this container or for an ancestor gets its answer,    *)
(* however busy the containers below it are.                               *)
WriterNotStarved ==
  \A t \in Thread, c \in Container :
    (\A u \in Thread \ {t} : Requests[u] \cap (Above[c] \cup {c}) = {}) =>
      (pc[t] = "wait" /\ want[t] = "write" /\ target[t] = c
         ~> pc[t] \notin {"wait", "woken"})

(* The lock words implement a mutex on subtrees: mapping each thread to    *)
(* the container it holds, every critical section of the code is a step of *)
(* TreeMutex or changes no ownership.                                      *)
Mutex == INSTANCE TreeMutex
  WITH owns <- [t \in Thread |-> IF Holding(t) THEN target[t] ELSE NoContainer]
ImplementsTreeMutex == Mutex!Spec
=============================================================================
