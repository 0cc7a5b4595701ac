----------------------------- MODULE StateLock ------------------------------
(***************************************************************************)
(* The state lock of one container (src/src/container.cpp:319-357): a      *)
(* readers-writer lock packed into one signed integer.  Without a writer   *)
(* StateLocked is the number of readers n; a writer claims the lock by     *)
(* flipping it to -1 - n, waits until the n readers are gone, and owns the *)
(* lock at -1.  Every critical section runs under ContainersMutex, and all *)
(* sleepers share ContainersCV with the action locks.                      *)
(***************************************************************************)
EXTENDS Integers, FiniteSets

CONSTANT Thread  \* threads that use the lock of this container

ASSUME ThreadFinite == IsFiniteSet(Thread)

VARIABLES
  StateLocked,  \* TContainer::StateLocked
  at,           \* where each thread is
  awake         \* FALSE while the thread sleeps on ContainersCV

vars == <<StateLocked, at, awake>>

(* "r-try" and "w-try" are the first wait loops of LockStateRead and       *)
(* LockStateWrite, "drain" is the second one of LockStateWrite.            *)
Place == {"idle", "r-try", "read", "w-try", "drain", "write"}

TypeOK ==
  /\ StateLocked \in Int
  /\ at \in [Thread -> Place]
  /\ awake \in [Thread -> BOOLEAN]

Init ==
  /\ StateLocked = 0
  /\ at = [t \in Thread |-> "idle"]
  /\ awake = [t \in Thread |-> TRUE]

Readers == {t \in Thread : at[t] = "read"}
Claimed(t) == at[t] \in {"drain", "write"}

GoTo(t, p) == at' = [at EXCEPT ![t] = p] /\ UNCHANGED awake
SleepAt(t, p) ==
  /\ at' = [at EXCEPT ![t] = p]
  /\ awake' = [awake EXCEPT ![t] = FALSE]
  /\ UNCHANGED StateLocked
NotifyAll == awake' = [t \in Thread |-> TRUE]

-----------------------------------------------------------------------------
(* Mutant: a reader does not respect a writer that waits for readers. *)
LockStateRead_Barge(t) ==
  /\ at[t] \in {"idle", "r-try"} /\ awake[t]
  /\ \/ StateLocked = -1 /\ SleepAt(t, "r-try")
     \/ /\ StateLocked # -1
        /\ StateLocked' = StateLocked + IF StateLocked < 0 THEN -1 ELSE 1
        /\ GoTo(t, "read")

LockStateRead(t) ==
  /\ at[t] \in {"idle", "r-try"} /\ awake[t]
  /\ \/ StateLocked < 0 /\ SleepAt(t, "r-try")
     \/ /\ StateLocked >= 0
        /\ StateLocked' = StateLocked + 1
        /\ GoTo(t, "read")

(* Mutant: a second writer may claim the lock while the first one drains. *)
LockStateWrite_Steal(t) ==
  /\ at[t] \in {"idle", "w-try"} /\ awake[t]
  /\ \/ StateLocked = -1 /\ SleepAt(t, "w-try")
     \/ /\ StateLocked # -1
        /\ StateLocked' = IF StateLocked < 0 THEN StateLocked ELSE -1 - StateLocked
        /\ GoTo(t, IF StateLocked = 0 THEN "write" ELSE "drain")

(* LockStateWrite up to and including the flip.  With no readers the flip  *)
(* already yields -1 and the second loop falls through.                    *)
LockStateWrite(t) ==
  /\ at[t] \in {"idle", "w-try"} /\ awake[t]
  /\ \/ StateLocked < 0 /\ SleepAt(t, "w-try")
     \/ /\ StateLocked = 0
        /\ StateLocked' = -1
        /\ GoTo(t, "write")
     \/ /\ StateLocked > 0
        /\ StateLocked' = -1 - StateLocked
        /\ at' = [at EXCEPT ![t] = "drain"]
        /\ awake' = [awake EXCEPT ![t] = FALSE]

(* The second loop, once more after a wakeup. *)
Drain(t) ==
  /\ at[t] = "drain" /\ awake[t]
  /\ \/ StateLocked # -1 /\ SleepAt(t, "drain")
     \/ StateLocked = -1 /\ GoTo(t, "write") /\ UNCHANGED StateLocked

(* The writer becomes a reader (SetState, before it notifies the waiters). *)
DowngradeStateLock(t) ==
  /\ at[t] = "write"
  /\ StateLocked' = 1
  /\ at' = [at EXCEPT ![t] = "read"]
  /\ NotifyAll

(* Mutant: only the end of a writer is announced. *)
UnlockState_Quiet(t) ==
  /\ at[t] \in {"read", "write"}
  /\ at' = [at EXCEPT ![t] = "idle"]
  /\ StateLocked' = IF StateLocked > 0 THEN StateLocked - 1 ELSE StateLocked + 1
  /\ IF StateLocked' = 0 THEN NotifyAll ELSE UNCHANGED awake

(* A reader that leaves while no writer has claimed the lock wakes nobody. *)
UnlockState(t) ==
  /\ at[t] \in {"read", "write"}
  /\ at' = [at EXCEPT ![t] = "idle"]
  /\ \/ /\ StateLocked > 0
        /\ StateLocked' = StateLocked - 1
        /\ UNCHANGED awake
     \/ /\ StateLocked < 0
        /\ StateLocked' = StateLocked + 1
        /\ IF StateLocked' >= -1 THEN NotifyAll ELSE UNCHANGED awake

(* ContainersCV is shared: the other locks of the tree wake sleepers too. *)
NotifiedByOthers ==
  /\ NotifyAll
  /\ UNCHANGED <<StateLocked, at>>

Next ==
  \/ \E t \in Thread :
       \/ LockStateRead(t)
       \/ LockStateWrite(t)
       \/ Drain(t)
       \/ DowngradeStateLock(t)
       \/ UnlockState(t)
  \/ NotifiedByOthers

Spec == Init /\ [][Next]_vars

(* A woken thread runs again, and the sections under the lock are finite. *)
Fairness ==
  \A t \in Thread :
    /\ WF_vars(Drain(t))
    /\ WF_vars(UnlockState(t))

FairSpec == Spec /\ Fairness

-----------------------------------------------------------------------------
(* Properties.                                                             *)

(* The one integer always encodes exactly who is inside: a claimed lock is *)
(* -1 - readers, an unclaimed one is the number of readers.  The           *)
(* assertions of UnlockState and DowngradeStateLock follow.                *)
WordIsExact ==
  StateLocked = IF \E t \in Thread : Claimed(t) THEN -1 - Cardinality(Readers)
                                                ELSE Cardinality(Readers)

(* A thread that changes the container's state under the write lock is     *)
(* alone: no reader and no second writer, not even one that only claimed   *)
(* the lock, whatever mix of downgrades and unlocks came before.           *)
WriterAlone ==
  \A t, u \in Thread :
    t # u => /\ ~(Claimed(t) /\ Claimed(u))
             /\ ~(at[t] = "write" /\ at[u] = "read")

(* No lost wakeup, although a leaving reader notifies in one case only:    *)
(* whoever sleeps still has a reason to.                                   *)
SleepersMustWait ==
  \A t \in Thread :
    ~awake[t] => IF at[t] = "drain" THEN StateLocked # -1 ELSE StateLocked < 0

(* A writer that claimed the lock gets it: readers that come later queue   *)
(* up behind the claim, so the readers inside drain away.                  *)
ClaimIsServed ==
  \A t \in Thread : at[t] = "drain" ~> at[t] = "write"
=============================================================================
