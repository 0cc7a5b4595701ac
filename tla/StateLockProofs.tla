--------------------------- MODULE StateLockProofs ---------------------------
(***************************************************************************)
(* Safety of the state lock for every finite set of threads.  WordIsExact  *)
(* is inductive together with the uniqueness of the claim: the word cannot *)
(* tell one claimant from two, and without the word's exactness nothing    *)
(* stops a second claim.  That sleepers are never forgotten needs both.    *)
(***************************************************************************)
EXTENDS StateLock, FiniteSetTheorems, TLAPS

OneClaim == \A t, u \in Thread : Claimed(t) /\ Claimed(u) => t = u

(* A writer owns the lock only at -1, where the word counts no reader. *)
WriteAtMinusOne == \A t \in Thread : at[t] = "write" => StateLocked = -1

IInv == TypeOK /\ OneClaim /\ WordIsExact /\ WriteAtMinusOne

-----------------------------------------------------------------------------
(* The set of readers is finite, so that it can be counted. *)
LEMMA ReadersFinite ==
  /\ IsFiniteSet(Readers)
  /\ Cardinality(Readers) \in Nat
  /\ Cardinality(Readers) = 0 <=> Readers = {}
<1>1. IsFiniteSet(Readers)
  BY ThreadFinite, FS_Subset DEF Readers
<1>2. QED
  BY <1>1, FS_CardinalityType, FS_EmptySet

(* A thread that starts reading makes the count one higher. *)
LEMMA ReaderEnters ==
  ASSUME NEW t \in Thread, at \in [Thread -> Place],
         at[t] # "read", at' = [at EXCEPT ![t] = "read"]
  PROVE  Cardinality(Readers') = Cardinality(Readers) + 1
<1>1. Readers' = Readers \cup {t} /\ t \notin Readers
  BY DEF Readers
<1>2. QED
  BY <1>1, ReadersFinite, FS_AddElement

(* A thread that stops reading makes the count one lower. *)
LEMMA ReaderLeaves ==
  ASSUME NEW t \in Thread, NEW p \in Place, at \in [Thread -> Place],
         at[t] = "read", p # "read", at' = [at EXCEPT ![t] = p]
  PROVE  Cardinality(Readers') = Cardinality(Readers) - 1
<1>1. Readers' = Readers \ {t} /\ t \in Readers
  BY DEF Readers
<1>2. QED
  BY <1>1, ReadersFinite, FS_RemoveElement

(* The other moves of a thread keep the count. *)
LEMMA ReadersKept ==
  ASSUME NEW t \in Thread, NEW p \in Place, at \in [Thread -> Place],
         at[t] # "read", p # "read", at' = [at EXCEPT ![t] = p]
  PROVE  Readers' = Readers
BY DEF Readers

-----------------------------------------------------------------------------
(* A critical section that only puts its thread to sleep, or wakes         *)
(* threads, keeps the invariant: t stays outside the lock.                 *)
LEMMA SleepPreserves ==
  ASSUME IInv, NEW t \in Thread, NEW p \in {"r-try", "w-try", "drain"},
         SleepAt(t, p),
         at[t] \in {"idle", "r-try", "w-try"} => p # "drain",
         at[t] = "drain" => p = "drain",
         at[t] \notin {"read", "write"}
  PROVE  IInv'
<1> USE DEF IInv, TypeOK, Place, SleepAt
<1>1. TypeOK'
  OBVIOUS
<1>2. Readers' = Readers
  BY ReadersKept
<1>3. \A u \in Thread : (at'[u] \in {"drain", "write"}) <=> (at[u] \in {"drain", "write"})
  OBVIOUS
<1>4. OneClaim'
  BY <1>3 DEF OneClaim, Claimed
<1>5. WordIsExact'
  BY <1>2, <1>3 DEF WordIsExact, Claimed
<1>6. WriteAtMinusOne'
  BY DEF WriteAtMinusOne
<1>7. QED
  BY <1>1, <1>4, <1>5, <1>6

(* LockStateRead: a sleep, or one more reader of an unclaimed lock. *)
LEMMA ReadPreserves ==
  ASSUME IInv, NEW t \in Thread, LockStateRead(t)
  PROVE  IInv'
<1> USE DEF IInv, TypeOK, Place
<1>1. CASE StateLocked < 0 /\ SleepAt(t, "r-try")
  BY <1>1, SleepPreserves DEF LockStateRead
<1>2. CASE /\ StateLocked >= 0
           /\ StateLocked' = StateLocked + 1
           /\ GoTo(t, "read")
  <2>1. TypeOK'
    BY <1>2 DEF GoTo
  <2>2. Cardinality(Readers') = Cardinality(Readers) + 1
    BY <1>2, ReaderEnters DEF GoTo, LockStateRead
  <2>3. \A u \in Thread : at[u] \notin {"drain", "write"}
    BY <1>2, ReadersFinite DEF WordIsExact, Claimed
  <2>4. \A u \in Thread : at'[u] \notin {"drain", "write"}
    BY <1>2, <2>3 DEF GoTo
  <2>5. WordIsExact'
    BY <1>2, <2>2, <2>3, <2>4 DEF WordIsExact, Claimed
  <2>6. QED
    BY <2>1, <2>4, <2>5 DEF OneClaim, WriteAtMinusOne, Claimed
<1>3. QED
  BY <1>1, <1>2 DEF LockStateRead

(* LockStateWrite: a sleep, or the flip of an unclaimed word. *)
LEMMA WritePreserves ==
  ASSUME IInv, NEW t \in Thread, LockStateWrite(t)
  PROVE  IInv'
<1> USE DEF IInv, TypeOK, Place
<1>1. CASE StateLocked < 0 /\ SleepAt(t, "w-try")
  BY <1>1, SleepPreserves DEF LockStateWrite
<1>2. CASE /\ StateLocked >= 0
           /\ StateLocked' = -1 - StateLocked
           /\ \E p \in {"drain", "write"} :
                /\ at' = [at EXCEPT ![t] = p]
                /\ p = "write" => StateLocked = 0
           /\ awake' \in [Thread -> BOOLEAN]
  <2>1. PICK p \in {"drain", "write"} : /\ at' = [at EXCEPT ![t] = p]
                                        /\ p = "write" => StateLocked = 0
    BY <1>2
  <2>2. TypeOK'
    <3>1. at' \in [Thread -> Place]
      BY <2>1
    <3>2. StateLocked' \in Int
      BY <1>2
    <3>3. QED
      BY <1>2, <3>1, <3>2
  <2>3. Readers' = Readers
    BY <2>1, ReadersKept DEF LockStateWrite
  <2>4. \A u \in Thread : at[u] \notin {"drain", "write"}
    BY <1>2, ReadersFinite DEF WordIsExact, Claimed
  <2>5. at'[t] = p /\ \A u \in Thread : u # t => at'[u] = at[u]
    BY <2>1
  <2>6. OneClaim'
    BY <2>4, <2>5 DEF OneClaim, Claimed
  <2>7. WordIsExact'
    BY <1>2, <2>3, <2>4, <2>5 DEF WordIsExact, Claimed
  <2>8. WriteAtMinusOne'
    BY <1>2, <2>1, <2>4, <2>5 DEF WriteAtMinusOne
  <2>9. QED
    BY <2>2, <2>6, <2>7, <2>8
<1>3. CASE StateLocked = 0 /\ StateLocked' = -1 /\ GoTo(t, "write")
  BY <1>2, <1>3 DEF GoTo
<1>4. CASE /\ StateLocked > 0
           /\ StateLocked' = -1 - StateLocked
           /\ at' = [at EXCEPT ![t] = "drain"]
           /\ awake' = [awake EXCEPT ![t] = FALSE]
  BY <1>2, <1>4
<1>5. QED
  BY <1>1, <1>3, <1>4 DEF LockStateWrite

(* The second loop of LockStateWrite: a sleep, or the claim is complete. *)
LEMMA DrainPreserves ==
  ASSUME IInv, NEW t \in Thread, Drain(t)
  PROVE  IInv'
<1> USE DEF IInv, TypeOK, Place
<1>1. CASE StateLocked # -1 /\ SleepAt(t, "drain")
  BY <1>1, SleepPreserves DEF Drain
<1>2. CASE StateLocked = -1 /\ GoTo(t, "write") /\ UNCHANGED StateLocked
  <2>1. TypeOK'
    BY <1>2 DEF GoTo
  <2>2. Readers' = Readers
    BY <1>2, ReadersKept DEF GoTo, Drain
  <2>3. \A u \in Thread : (at'[u] \in {"drain", "write"}) <=> (at[u] \in {"drain", "write"})
    BY <1>2 DEF GoTo, Drain
  <2>4. OneClaim' /\ WordIsExact'
    BY <1>2, <2>2, <2>3 DEF OneClaim, WordIsExact, Claimed
  <2>5. WriteAtMinusOne'
    BY <1>2 DEF WriteAtMinusOne
  <2>6. QED
    BY <2>1, <2>4, <2>5
<1>3. QED
  BY <1>1, <1>2 DEF Drain

(* DowngradeStateLock: the only claimant turns into the only reader. *)
LEMMA DowngradePreserves ==
  ASSUME IInv, NEW t \in Thread, DowngradeStateLock(t)
  PROVE  IInv'
<1> USE DEF IInv, TypeOK, Place, DowngradeStateLock, NotifyAll
<1>1. TypeOK'
  OBVIOUS
<1>2. Cardinality(Readers) = 0
  BY ReadersFinite DEF WordIsExact, WriteAtMinusOne, Claimed
<1>3. Cardinality(Readers') = 1
  <2>1. at \in [Thread -> Place] /\ at[t] # "read" /\ at' = [at EXCEPT ![t] = "read"]
    OBVIOUS
  <2>2. Cardinality(Readers') = Cardinality(Readers) + 1
    BY ONLY <2>1, ReaderEnters
  <2>3. QED
    BY <1>2, <2>2
<1>4. \A u \in Thread : at'[u] \notin {"drain", "write"}
  BY DEF OneClaim, Claimed
<1>5. QED
  BY <1>1, <1>3, <1>4 DEF OneClaim, WordIsExact, WriteAtMinusOne, Claimed

(* UnlockState of a reader, and of the writer. *)
LEMMA UnlockPreserves ==
  ASSUME IInv, NEW t \in Thread, UnlockState(t)
  PROVE  IInv'
<1> USE DEF IInv, TypeOK, Place
<1>1. at' = [at EXCEPT ![t] = "idle"]
  BY DEF UnlockState
<1>2. TypeOK'
  <2>1. StateLocked' \in Int
    BY DEF UnlockState
  <2>2. awake' = awake \/ awake' = [u \in Thread |-> TRUE]
    BY DEF UnlockState, NotifyAll
  <2>3. awake' \in [Thread -> BOOLEAN]
    BY <2>2
  <2>4. QED
    BY <1>1, <2>1, <2>3
<1>3. CASE at[t] = "read"
  <2>1. Cardinality(Readers') = Cardinality(Readers) - 1 /\ Cardinality(Readers) > 0
    <3>1. "idle" \in Place /\ at \in [Thread -> Place]
      OBVIOUS
    <3>2. Cardinality(Readers') = Cardinality(Readers) - 1
      BY ONLY <1>1, <1>3, <3>1, ReaderLeaves
    <3>3. t \in Readers
      BY <1>3 DEF Readers
    <3>4. Cardinality(Readers) # 0 /\ Cardinality(Readers) \in Nat
      BY ONLY <3>3, ReadersFinite
    <3>5. QED
      BY <3>2, <3>4
  <2>2. \A u \in Thread : (at'[u] \in {"drain", "write"}) <=> (at[u] \in {"drain", "write"})
    BY <1>1, <1>3
  <2>3. WordIsExact'
    <3>1. CASE \E u \in Thread : at[u] \in {"drain", "write"}
      BY <2>1, <2>2, <3>1, ReadersFinite DEF WordIsExact, Claimed, UnlockState
    <3>2. CASE ~ \E u \in Thread : at[u] \in {"drain", "write"}
      BY <2>1, <2>2, <3>2, ReadersFinite DEF WordIsExact, Claimed, UnlockState
    <3>3. QED
      BY <3>1, <3>2
  <2>4. \A u \in Thread : at[u] # "write"
    BY <2>1, ReadersFinite DEF WordIsExact, WriteAtMinusOne, Claimed
  <2>5. QED
    BY <1>2, <1>1, <2>2, <2>3, <2>4 DEF OneClaim, WriteAtMinusOne, Claimed
<1>4. CASE at[t] = "write"
  <2>1. Readers' = Readers
    BY <1>1, <1>4, ReadersKept
  <2>2. Cardinality(Readers) = 0 /\ StateLocked = -1
    BY <1>4, ReadersFinite DEF WordIsExact, WriteAtMinusOne, Claimed
  <2>3. \A u \in Thread : at'[u] \notin {"drain", "write"}
    BY <1>1, <1>4 DEF OneClaim, Claimed
  <2>4. StateLocked' = 0
    BY <2>2 DEF UnlockState
  <2>5. QED
    BY <1>2, <2>1, <2>2, <2>3, <2>4 DEF OneClaim, WordIsExact, WriteAtMinusOne, Claimed
<1>5. QED
  BY <1>3, <1>4 DEF UnlockState

(* A wakeup from elsewhere, and stuttering. *)
LEMMA QuietPreserves ==
  ASSUME IInv, NotifiedByOthers \/ UNCHANGED vars
  PROVE  IInv'
<1>1. UNCHANGED <<StateLocked, at>> /\ awake' \in [Thread -> BOOLEAN]
  BY DEF NotifiedByOthers, NotifyAll, vars, IInv, TypeOK
<1>2. Readers' = Readers
  BY <1>1 DEF Readers
<1>3. QED
  BY <1>1, <1>2 DEF IInv, TypeOK, OneClaim, WordIsExact, WriteAtMinusOne, Claimed

-----------------------------------------------------------------------------
(* The inductive invariant of the state lock holds in every behaviour of   *)
(* LockStateRead, LockStateWrite, DowngradeStateLock and UnlockState.      *)
THEOREM Invariance == Spec => []IInv
<1>1. Init => IInv
  <2> SUFFICES ASSUME Init PROVE IInv
    OBVIOUS
  <2>1. Readers = {}
    BY DEF Init, Readers
  <2>2. QED
    BY <2>1, ReadersFinite
       DEF Init, IInv, TypeOK, Place, OneClaim, WordIsExact, WriteAtMinusOne, Claimed
<1>2. IInv /\ [Next]_vars => IInv'
  BY ReadPreserves, WritePreserves, DrainPreserves, DowngradePreserves,
     UnlockPreserves, QuietPreserves DEF Next
<1>3. QED
  BY <1>1, <1>2, PTL DEF Spec

(* StateLocked always encodes the readers and the claimant exactly, for    *)
(* any number of threads.                                                  *)
THEOREM WordExact == Spec => []WordIsExact
BY Invariance, PTL DEF IInv

(* A writer is alone, for any number of threads: at -1 there is no reader. *)
THEOREM Exclusion == Spec => []WriterAlone
<1>1. IInv => WriterAlone
  <2> SUFFICES ASSUME IInv, NEW t \in Thread, NEW u \in Thread, t # u
               PROVE  /\ ~(Claimed(t) /\ Claimed(u))
                      /\ ~(at[t] = "write" /\ at[u] = "read")
    BY DEF WriterAlone
  <2>1. ~(Claimed(t) /\ Claimed(u))
    BY DEF IInv, OneClaim
  <2>2. at[t] = "write" => Readers = {}
    BY ReadersFinite DEF IInv, WordIsExact, WriteAtMinusOne, Claimed
  <2>3. QED
    BY <2>1, <2>2 DEF Readers
<1>2. QED
  BY <1>1, Invariance, PTL

-----------------------------------------------------------------------------
(* Only the three wait loops sleep. *)
AsleepInLoop == \A t \in Thread : ~awake[t] => at[t] \in {"r-try", "w-try", "drain"}

SleepInv == AsleepInLoop /\ SleepersMustWait

(* A word that is not negative is claimed by nobody, and nobody sleeps. *)
LEMMA NobodySleeps ==
  ASSUME IInv, SleepInv, StateLocked >= 0
  PROVE  \A t \in Thread : awake[t] /\ ~Claimed(t)
<1>1. \A t \in Thread : ~Claimed(t)
  BY ReadersFinite DEF IInv, WordIsExact
<1>2. QED
  BY <1>1 DEF IInv, TypeOK, SleepInv, SleepersMustWait, Claimed

(* A thread that goes to sleep on a word it may not take. *)
LEMMA SleepsForReason ==
  ASSUME IInv, SleepInv, NEW t \in Thread, NEW p \in {"r-try", "w-try", "drain"},
         SleepAt(t, p), IF p = "drain" THEN StateLocked # -1 ELSE StateLocked < 0
  PROVE  SleepInv'
BY DEF IInv, TypeOK, SleepInv, AsleepInLoop, SleepersMustWait, SleepAt

(* When all are awake, nobody sleeps without a reason. *)
LEMMA AllAwake ==
  ASSUME \A t \in Thread : awake'[t]
  PROVE  SleepInv'
BY DEF SleepInv, AsleepInLoop, SleepersMustWait

(* A leaving reader that notifies nobody leaves a word at which all the    *)
(* sleepers have to wait: below -1, or not negative, where nobody sleeps.  *)
LEMMA UnlockSleepers ==
  ASSUME IInv, SleepInv, NEW t \in Thread, UnlockState(t)
  PROVE  SleepInv'
<1>1. CASE StateLocked > 0 /\ UNCHANGED awake
  BY <1>1, NobodySleeps, AllAwake DEF IInv, TypeOK
<1>2. CASE StateLocked < 0 /\ StateLocked' = StateLocked + 1 /\ StateLocked' >= -1
  <2>1. NotifyAll
    BY <1>2 DEF UnlockState, IInv, TypeOK
  <2>2. QED
    BY <2>1, AllAwake DEF NotifyAll
<1>3. CASE /\ StateLocked < 0 /\ StateLocked' = StateLocked + 1
           /\ ~(StateLocked' >= -1) /\ UNCHANGED awake
  <2>1. StateLocked' < 0 /\ StateLocked' # -1
    BY <1>3 DEF IInv, TypeOK
  <2>2. \A u \in Thread : ~awake[u] => u # t /\ at'[u] = at[u]
    BY DEF UnlockState, SleepInv, AsleepInLoop, IInv, TypeOK
  <2>3. QED
    BY <1>3, <2>1, <2>2 DEF SleepInv, AsleepInLoop, SleepersMustWait
<1>4. QED
  BY <1>1, <1>2, <1>3 DEF UnlockState

(* The flip of the word, taken by the only thread that goes to sleep. *)
LEMMA WriteSleepers ==
  ASSUME IInv, SleepInv, NEW t \in Thread, LockStateWrite(t)
  PROVE  SleepInv'
<1>1. CASE StateLocked < 0 /\ SleepAt(t, "w-try")
  BY <1>1, SleepsForReason
<1>2. CASE StateLocked = 0 /\ GoTo(t, "write")
  BY <1>2, NobodySleeps, AllAwake DEF GoTo, IInv, TypeOK
<1>3. CASE /\ StateLocked > 0
           /\ StateLocked' = -1 - StateLocked
           /\ at' = [at EXCEPT ![t] = "drain"]
           /\ awake' = [awake EXCEPT ![t] = FALSE]
  <2>1. StateLocked' # -1 /\ at'[t] = "drain"
    BY <1>3 DEF IInv, TypeOK
  <2>2. \A u \in Thread : u # t => awake'[u]
    BY <1>3, NobodySleeps DEF IInv, TypeOK
  <2>3. QED
    BY <2>1, <2>2 DEF SleepInv, AsleepInLoop, SleepersMustWait
<1>4. QED
  BY <1>1, <1>2, <1>3 DEF LockStateWrite

(* The other critical sections. *)
LEMMA OtherSleepers ==
  ASSUME IInv, SleepInv, NEW t \in Thread,
         LockStateRead(t) \/ Drain(t) \/ DowngradeStateLock(t)
  PROVE  SleepInv'
<1>1. CASE LockStateRead(t)
  <2>1. CASE StateLocked < 0 /\ SleepAt(t, "r-try")
    BY <2>1, SleepsForReason
  <2>2. CASE StateLocked >= 0 /\ GoTo(t, "read")
    BY <2>2, NobodySleeps, AllAwake DEF GoTo
  <2>3. QED
    BY <1>1, <2>1, <2>2 DEF LockStateRead
<1>2. CASE Drain(t)
  <2>1. CASE StateLocked # -1 /\ SleepAt(t, "drain")
    BY <2>1, SleepsForReason
  <2>2. CASE StateLocked = -1 /\ GoTo(t, "write") /\ UNCHANGED StateLocked
    <3>1. \A u \in Thread : ~awake'[u] => ~awake[u] /\ u # t /\ at'[u] = at[u]
      BY <1>2, <2>2 DEF Drain, GoTo, IInv, TypeOK
    <3>2. QED
      BY <2>2, <3>1 DEF SleepInv, AsleepInLoop, SleepersMustWait
  <2>3. QED
    BY <1>2, <2>1, <2>2 DEF Drain
<1>3. CASE DowngradeStateLock(t)
  BY <1>3, AllAwake DEF DowngradeStateLock, NotifyAll
<1>4. QED
  BY <1>1, <1>2, <1>3

(* No wakeup is lost, for any number of threads: UnlockState notifies in   *)
(* one case only, and every thread that sleeps on ContainersCV for the     *)
(* state lock finds a word it has to wait for.                             *)
THEOREM NoSleeperForgotten == Spec => []SleepersMustWait
<1>1. Init => SleepInv
  BY DEF Init, SleepInv, AsleepInLoop, SleepersMustWait
<1>2. IInv /\ SleepInv /\ [Next]_vars => SleepInv'
  <2> SUFFICES ASSUME IInv, SleepInv, [Next]_vars PROVE SleepInv'
    OBVIOUS
  <2>1. CASE NotifiedByOthers
    BY <2>1, AllAwake DEF NotifiedByOthers, NotifyAll
  <2>2. CASE UNCHANGED vars
    BY <2>2 DEF vars, SleepInv, AsleepInLoop, SleepersMustWait
  <2>3. QED
    BY <2>1, <2>2, UnlockSleepers, WriteSleepers, OtherSleepers DEF Next
<1>3. SleepInv => SleepersMustWait
  BY DEF SleepInv
<1>4. QED
  BY <1>1, <1>2, <1>3, Invariance, PTL DEF Spec
=============================================================================
