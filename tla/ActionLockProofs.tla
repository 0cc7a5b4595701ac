-------------------------- MODULE ActionLockProofs --------------------------
(***************************************************************************)
(* The safety of the action lock for every container tree and every finite *)
(* set of threads.                                                         *)
(*                                                                         *)
(* HoldersApart is not inductive: that a lock may be taken is read off the *)
(* lock words, so the words have to be tied to the holders.  IInv adds     *)
(* HoldersMatchWords (the words count the holders), the typing and the     *)
(* fact that a thread that is not idle has a container.                    *)
(***************************************************************************)
EXTENDS ActionLock, FiniteSetTheorems, TLAPS

TargetsExist == \A t \in Thread : pc[t] # "idle" => target[t] \in Container

IInv ==
  /\ TypeOK
  /\ TargetsExist
  /\ HoldersApart
  /\ HoldersMatchWords
  /\ HeldIsAlive

(* A critical section that takes, gives up or changes no lock. *)
Quiet ==
  /\ UNCHANGED <<ActionLocked, SubtreeRead>>
  /\ \A u \in Thread : /\ pc[u] \in {"held", "down", "up", "gone"} =>
                              pc'[u] = pc[u] /\ target'[u] = target[u]
                       /\ pc[u] \notin {"held", "down", "up", "gone"} =>
                              pc'[u] \notin {"held", "down", "up", "gone"}

(* The holders below a container are finitely many. *)
LEMMA HoldersBelowFinite ==
  ASSUME NEW c PROVE IsFiniteSet(HoldersBelow(c))
BY ThreadAssumption, FS_Subset DEF HoldersBelow

(* Quiet sections preserve who holds what: waiting for the lock, failing   *)
(* on a destroyed container, creating a child, waking up.                  *)
LEMMA QuietPreserves ==
  ASSUME HoldersApart, HoldersMatchWords, Quiet
  PROVE  HoldersApart' /\ HoldersMatchWords'
<1>1. \A u \in Thread : /\ Holding(u)' <=> Holding(u)
                        /\ Exclusive(u)' <=> Exclusive(u)
                        /\ pc'[u] = "down" <=> pc[u] = "down"
                        /\ Holding(u) => target'[u] = target[u]
  BY DEF Quiet, Holding, Exclusive
<1>2. HoldersApart'
  BY <1>1 DEF HoldersApart, Apart
<1>3. ASSUME NEW c \in Container
      PROVE  WordMatches(c)' /\ (SubtreeRead[c] = Cardinality(HoldersBelow(c)))'
  <2>1. HoldersBelow(c)' = HoldersBelow(c)
    BY <1>1 DEF HoldersBelow
  <2>2. /\ (\E t \in Thread : Exclusive(t) /\ target[t] = c)'
             <=> (\E t \in Thread : Exclusive(t) /\ target[t] = c)
        /\ (\E t \in Thread : pc[t] = "down" /\ target[t] = c)'
             <=> (\E t \in Thread : pc[t] = "down" /\ target[t] = c)
    BY <1>1 DEF Holding
  <2>3. WordMatches(c) /\ SubtreeRead[c] = Cardinality(HoldersBelow(c))
    BY DEF HoldersMatchWords
  <2> QED
    BY <2>1, <2>2, <2>3 DEF WordMatches, Quiet
<1> QED
  BY <1>2, <1>3 DEF HoldersMatchWords

-----------------------------------------------------------------------------

(* Taking the lock: ~BusyExclusive says there is no holder at, above or    *)
(* below the container, because the words match the holders.               *)
LEMMA TakeExclusivePreserves ==
  ASSUME IInv, NEW t \in Thread, NEW c \in Container,
         ~Holding(t), TakeExclusive(t, c)
  PROVE  IInv'
<1>0. /\ TypeOK /\ TargetsExist /\ HoldersApart /\ HeldIsAlive
      /\ \A x \in Container : WordMatches(x)
      /\ \A x \in Container : SubtreeRead[x] = Cardinality(HoldersBelow(x))
  BY DEF IInv, HoldersMatchWords
<1>1. /\ pc' = [pc EXCEPT ![t] = "held"]
      /\ target' = [target EXCEPT ![t] = c]
      /\ ActionLocked' = [ActionLocked EXCEPT ![c] = @ - 1]
      /\ SubtreeRead' = [a \in Container |->
                            SubtreeRead[a] + IF a \in Above[c] THEN 1 ELSE 0]
  BY DEF TakeExclusive
<1>2. /\ pc'[t] = "held" /\ target'[t] = c
      /\ \A u \in Thread : u # t => pc'[u] = pc[u] /\ target'[u] = target[u]
  BY <1>0, <1>1 DEF TypeOK
<1>3. TypeOK' /\ TargetsExist'
  <2>1. TypeOK'
    BY <1>0 DEF TypeOK, TakeExclusive, PC
  <2>2. TargetsExist'
    BY <1>0, <1>2 DEF TargetsExist
  <2> QED BY <2>1, <2>2
<1>4. ASSUME NEW u \in Thread, Holding(u)
      PROVE  target[u] \in Container /\ Apart(target[u], c)
  <2>1. target[u] \in Container
    BY <1>0, <1>4 DEF TargetsExist, Holding, Exclusive
  <2>2. ActionLocked[target[u]] # 0
    BY <1>0, <1>4, <2>1 DEF WordMatches, Holding
  <2>3. target[u] # c /\ target[u] \notin Above[c]
    BY <2>2 DEF TakeExclusive, BusyExclusive
  <2>4. Cardinality(HoldersBelow(c)) = 0
    BY <1>0 DEF TakeExclusive, BusyExclusive
  <2>5. HoldersBelow(c) = {}
    BY <2>4, HoldersBelowFinite, FS_EmptySet
  <2>6. c \notin Above[target[u]]
    BY <2>5, <1>4 DEF HoldersBelow
  <2> QED
    BY <2>1, <2>3, <2>6 DEF Apart
<1>5. HoldersApart'
  BY <1>0, <1>2, <1>4 DEF HoldersApart, Apart, Holding, Exclusive
<1>6. ASSUME NEW x \in Container PROVE WordMatches(x)'
  <2>1. CASE x = c
    <3>1. ActionLocked[c] = 0
      BY DEF TakeExclusive, BusyExclusive
    <3>2. ActionLocked'[c] = -1
      BY <1>0, <1>1, <3>1 DEF TypeOK
    <3> QED
      BY <1>2, <2>1, <3>2 DEF WordMatches, Exclusive
  <2>2. CASE x # c
    <3>1. ActionLocked'[x] = ActionLocked[x]
      BY <1>0, <1>1, <2>2 DEF TypeOK
    <3> QED
      BY <1>0, <1>2, <2>2, <3>1 DEF WordMatches, Holding, Exclusive
  <2> QED BY <2>1, <2>2
<1>7. ASSUME NEW x \in Container
      PROVE  SubtreeRead'[x] = Cardinality(HoldersBelow(x)')
  <2>1. t \notin HoldersBelow(x)
    BY DEF HoldersBelow
  <2>2. SubtreeRead[x] = Cardinality(HoldersBelow(x)) /\ SubtreeRead[x] \in Int
    BY <1>0 DEF TypeOK
  <2>3. CASE x \in Above[c]
    <3>1. HoldersBelow(x)' = HoldersBelow(x) \cup {t}
      BY <1>2, <2>3 DEF HoldersBelow, Holding, Exclusive
    <3>2. Cardinality(HoldersBelow(x) \cup {t}) = Cardinality(HoldersBelow(x)) + 1
      BY <2>1, HoldersBelowFinite, FS_AddElement
    <3> QED BY <1>1, <2>2, <2>3, <3>1, <3>2
  <2>4. CASE x \notin Above[c]
    <3>1. HoldersBelow(x)' = HoldersBelow(x)
      BY <1>2, <2>1, <2>4 DEF HoldersBelow, Holding, Exclusive
    <3> QED BY <1>1, <2>2, <2>4, <3>1
  <2> QED BY <2>3, <2>4
<1>8. HeldIsAlive'
  BY <1>0, <1>2 DEF HeldIsAlive, TakeExclusive
<1> QED
  BY <1>3, <1>5, <1>6, <1>7, <1>8 DEF IInv, HoldersMatchWords

(* Giving the lock back. *)
LEMMA UnlockActionPreserves ==
  ASSUME IInv, NEW t \in Thread, UnlockAction(t)
  PROVE  IInv'
<1> DEFINE c == target[t]
<1>0. /\ TypeOK /\ TargetsExist /\ HoldersApart /\ HeldIsAlive
      /\ \A x \in Container : WordMatches(x)
      /\ \A x \in Container : SubtreeRead[x] = Cardinality(HoldersBelow(x))
  BY DEF IInv, HoldersMatchWords
<1>1. Exclusive(t) /\ Holding(t) /\ c \in Container
  BY <1>0 DEF UnlockAction, Holding, Exclusive, TargetsExist
<1>2. /\ pc'[t] = "idle"
      /\ \A u \in Thread : u # t =>
           /\ pc'[u] = pc[u] \/ (pc[u] = "wait" /\ pc'[u] = "woken")
           /\ target'[u] = target[u]
  BY <1>0 DEF TypeOK, UnlockAction, NotifyAll
<1>3. TargetsExist'
  BY <1>0, <1>2 DEF TargetsExist
<1>4. HoldersApart'
  BY <1>0, <1>2 DEF HoldersApart, Apart, Holding, Exclusive
<1>5. ASSUME NEW x \in Container PROVE WordMatches(x)'
  <2>1. CASE x = c
    <3>1. ActionLocked[c] = -1
      BY <1>0, <1>1 DEF WordMatches
    <3>2. ActionLocked'[c] = 0
      BY <1>0, <1>1, <3>1 DEF TypeOK, UnlockAction
    <3>3. \A u \in Thread : pc'[u] \in {"held", "up", "gone", "down"} => target'[u] # c
      BY <1>0, <1>1, <1>2 DEF HoldersApart, Apart, Holding, Exclusive
    <3> QED
      BY <2>1, <3>2, <3>3 DEF WordMatches, Exclusive
  <2>2. CASE x # c
    <3>1. ActionLocked'[x] = ActionLocked[x]
      BY <1>0, <1>1, <2>2 DEF TypeOK, UnlockAction
    <3> QED
      BY <1>0, <1>1, <1>2, <2>2, <3>1 DEF WordMatches, Exclusive
  <2> QED BY <2>1, <2>2
<1>6. ASSUME NEW x \in Container
      PROVE  SubtreeRead'[x] = Cardinality(HoldersBelow(x)')
  <2>1. HoldersBelow(x)' = HoldersBelow(x) \ {t}
    BY <1>2 DEF HoldersBelow, Holding, Exclusive
  <2>2. t \in HoldersBelow(x) <=> x \in Above[c]
    BY <1>1 DEF HoldersBelow
  <2>3. Cardinality(HoldersBelow(x) \ {t}) =
          IF t \in HoldersBelow(x) THEN Cardinality(HoldersBelow(x)) - 1
                                   ELSE Cardinality(HoldersBelow(x))
    BY HoldersBelowFinite, FS_RemoveElement, Zenon
  <2>4. SubtreeRead[x] = Cardinality(HoldersBelow(x)) /\ SubtreeRead[x] \in Int
    BY <1>0 DEF TypeOK
  <2>5. SubtreeRead'[x] = SubtreeRead[x] - IF x \in Above[c] THEN 1 ELSE 0
    BY DEF UnlockAction
  <2> QED BY <2>1, <2>2, <2>3, <2>4, <2>5
<1>7. HeldIsAlive'
  BY <1>0, <1>2 DEF HeldIsAlive, UnlockAction
<1>8. TypeOK'
  <2>1. SubtreeRead' = [x \in Container |-> SubtreeRead'[x]]
    BY DEF UnlockAction
  <2>2. ASSUME NEW x \in Container PROVE Cardinality(HoldersBelow(x)') \in Nat
    <3>1. HoldersBelow(x)' = HoldersBelow(x) \ {t}
      BY <1>2 DEF HoldersBelow, Holding, Exclusive
    <3> QED BY <3>1, HoldersBelowFinite, FS_RemoveElement, FS_CardinalityType, Zenon
  <2>3. SubtreeRead' \in [Container -> Nat]
    BY <1>6, <2>1, <2>2
  <2> QED
    BY <1>0, <1>1, <2>3 DEF TypeOK, UnlockAction, NotifyAll, PC
<1> QED
  BY <1>3, <1>4, <1>5, <1>6, <1>7, <1>8 DEF IInv, HoldersMatchWords

(* Downgrade and upgrade flip the word of a held container between -1 and 1. *)
LEMMA FlipPreserves ==
  ASSUME IInv, NEW t \in Thread, DowngradeActionLock(t) \/ UpgradeActionLock(t)
  PROVE  IInv'
<1> DEFINE c == target[t]
<1>0. /\ TypeOK /\ TargetsExist /\ HoldersApart /\ HeldIsAlive
      /\ \A x \in Container : WordMatches(x)
      /\ \A x \in Container : SubtreeRead[x] = Cardinality(HoldersBelow(x))
  BY DEF IInv, HoldersMatchWords
<1>1. /\ pc[t] \in {"held", "down"} /\ c \in Container
      /\ target' = target /\ SubtreeRead' = SubtreeRead /\ life' = life
      /\ \/ pc'[t] = "down" /\ ActionLocked' = [ActionLocked EXCEPT ![c] = 1]
         \/ pc'[t] = "up" /\ ActionLocked' = [ActionLocked EXCEPT ![c] = -1]
      /\ \A u \in Thread : u # t =>
           pc'[u] = pc[u] \/ (pc[u] = "wait" /\ pc'[u] = "woken")
  <2>1. CASE DowngradeActionLock(t)
    BY <1>0, <2>1 DEF TypeOK, TargetsExist, DowngradeActionLock, NotifyAll
  <2>2. CASE UpgradeActionLock(t)
    BY <1>0, <2>2 DEF TypeOK, TargetsExist, UpgradeActionLock
  <2> QED BY <2>1, <2>2
<1>2. TypeOK'
  <2>1. CASE DowngradeActionLock(t)
    BY <1>0, <1>1, <2>1 DEF TypeOK, PC, DowngradeActionLock, NotifyAll
  <2>2. CASE UpgradeActionLock(t)
    BY <1>0, <1>1, <2>2 DEF TypeOK, PC, UpgradeActionLock
  <2> QED BY <2>1, <2>2
<1>3. TargetsExist' /\ HeldIsAlive'
  BY <1>0, <1>1 DEF TargetsExist, HeldIsAlive
<1>4. HoldersApart'
  BY <1>0, <1>1 DEF HoldersApart, Apart, Holding, Exclusive
<1>5. ASSUME NEW x \in Container PROVE WordMatches(x)'
  <2>1. \A u \in Thread : u # t /\ Holding(u) => target[u] # c
    BY <1>0, <1>1 DEF HoldersApart, Apart, Holding, Exclusive
  <2>2. CASE x = c
    BY <1>0, <1>1, <2>1, <2>2 DEF WordMatches, Holding, Exclusive, TypeOK
  <2>3. CASE x # c
    BY <1>0, <1>1, <2>3 DEF WordMatches, Exclusive, TypeOK
  <2> QED BY <2>2, <2>3
<1>6. ASSUME NEW x \in Container
      PROVE  SubtreeRead'[x] = Cardinality(HoldersBelow(x)')
  <2>1. HoldersBelow(x)' = HoldersBelow(x)
    BY <1>1 DEF HoldersBelow, Holding, Exclusive
  <2> QED BY <1>0, <1>1, <2>1
<1> QED
  BY <1>2, <1>3, <1>4, <1>5, <1>6 DEF IInv, HoldersMatchWords

(* Unregistering containers at or below the held one hits no other holder, *)
(* because the holders are apart.                                          *)
LEMMA UnregisterPreserves ==
  ASSUME IInv, NEW t \in Thread, Unregister(t)
  PROVE  IInv'
<1>0. TypeOK /\ TargetsExist /\ HoldersApart /\ HoldersMatchWords /\ HeldIsAlive
  BY DEF IInv
<1>1. PICK c \in Below(target[t]) \cup {target[t]} :
        /\ life' = [life EXCEPT ![c] = "destroyed"]
        /\ pc' = IF c = target[t] THEN [pc EXCEPT ![t] = "gone"] ELSE pc
  BY Zenon DEF Unregister
<1>2. /\ pc[t] \in {"held", "up"} /\ target[t] \in Container
      /\ target' = target /\ UNCHANGED lockVars /\ want' = want
  BY <1>0 DEF Unregister, TargetsExist
<1>3. /\ pc'[t] \in {"held", "up", "gone"}
      /\ c = target[t] => pc'[t] = "gone"
      /\ \A u \in Thread : u # t => pc'[u] = pc[u]
  BY <1>0, <1>1, <1>2 DEF TypeOK
<1>4. TypeOK' /\ TargetsExist'
  BY <1>0, <1>1, <1>2, <1>3, Zenon DEF TypeOK, PC, TargetsExist, lockVars
<1>5. HoldersApart'
  BY <1>0, <1>2, <1>3 DEF HoldersApart, Apart, Holding, Exclusive
<1>6. ASSUME NEW x \in Container PROVE WordMatches(x)'
  BY <1>0, <1>2, <1>3 DEF HoldersMatchWords, WordMatches, Exclusive, lockVars
<1>7. ASSUME NEW x \in Container
      PROVE  SubtreeRead'[x] = Cardinality(HoldersBelow(x)')
  <2>1. HoldersBelow(x)' = HoldersBelow(x)
    BY <1>2, <1>3 DEF HoldersBelow, Holding, Exclusive
  <2> QED BY <1>0, <1>2, <2>1 DEF HoldersMatchWords, lockVars
<1>8. ASSUME NEW u \in Thread, pc'[u] \in {"held", "down", "up"}
      PROVE  life'[target'[u]] = "alive"
  <2>1. target[u] # c
    <3>1. CASE u = t
      BY <1>3, <1>8, <3>1
    <3>2. CASE u # t
      <4>1. Apart(target[t], target[u])
        BY <1>0, <1>2, <1>3, <1>8, <3>2 DEF HoldersApart, Holding, Exclusive
      <4> QED BY <4>1 DEF Apart, Below
    <3> QED BY <3>1, <3>2
  <2>2. pc[u] \in {"held", "down", "up"}
    BY <1>2, <1>3, <1>8
  <2> QED
    BY <1>0, <1>1, <1>2, <2>1, <2>2 DEF HeldIsAlive, TypeOK
<1> QED
  BY <1>4, <1>5, <1>6, <1>7, <1>8 DEF IInv, HoldersMatchWords, HeldIsAlive

(* Waiting, failing and creating leave every lock alone. *)
LEMMA WaitOrCreatePreserves ==
  ASSUME IInv, NEW t \in Thread, NEW c \in Container, pc[t] \in {"idle", "woken"},
         LockFails(t, c) \/ WaitExclusive(t, c) \/ WaitShared(t, c) \/ Register(t, c)
  PROVE  IInv'
<1>0. TypeOK /\ TargetsExist /\ HoldersApart /\ HoldersMatchWords /\ HeldIsAlive
  BY DEF IInv
<1>1. /\ UNCHANGED <<ActionLocked, SubtreeRead>>
      /\ pc'[t] \in {"idle", "wait"}
      /\ \A u \in Thread : u # t =>
           /\ pc'[u] = pc[u] \/ (pc[u] = "wait" /\ pc'[u] = "woken")
           /\ target'[u] = target[u]
      /\ \A x \in Container : life[x] = "alive" => life'[x] = "alive"
      /\ pc'[t] = "wait" => target'[t] = c
  <2>1. CASE LockFails(t, c) \/ WaitExclusive(t, c) \/ WaitShared(t, c)
    BY <1>0, <2>1 DEF TypeOK, LockFails, WaitExclusive, WaitShared, lockVars
  <2>2. CASE Register(t, c)
    BY <1>0, <2>2 DEF TypeOK, Register, NotifyAll, lockVars
  <2> QED BY <2>1, <2>2
<1>2. TypeOK'
  <2>1. CASE LockFails(t, c)
    BY <1>0, <2>1 DEF TypeOK, PC, LockFails, lockVars
  <2>2. CASE WaitExclusive(t, c)
    BY <1>0, <2>2 DEF TypeOK, PC, WaitExclusive
  <2>4. CASE WaitShared(t, c)
    BY <1>0, <2>4 DEF TypeOK, PC, WaitShared, lockVars
  <2>3. CASE Register(t, c)
    <3>1. life' \in [Container -> {"absent", "alive", "destroyed"}]
      BY <1>0, <2>3 DEF TypeOK, Register
    <3>2. pc' \in [Thread -> PC]
      BY <1>0, <2>3 DEF TypeOK, PC, Register, NotifyAll
    <3>3. target' \in [Thread -> Container \cup {NoContainer}]
      BY <1>0, <2>3 DEF TypeOK, Register
    <3> QED
      BY <1>0, <2>3, <3>1, <3>2, <3>3 DEF TypeOK, Register, lockVars
  <2> QED BY <2>1, <2>2, <2>3, <2>4
<1>3. TargetsExist' /\ HeldIsAlive'
  BY <1>0, <1>1 DEF TargetsExist, HeldIsAlive
<1>4. Quiet
  BY <1>1 DEF Quiet
<1> QED
  BY <1>0, <1>2, <1>3, <1>4, QuietPreserves DEF IInv

-----------------------------------------------------------------------------

(* Every critical section preserves the inductive invariant. *)
LEMMA StepPreserves == IInv /\ [Next]_vars => IInv'
<1> SUFFICES ASSUME IInv, [Next]_vars PROVE IInv'
  OBVIOUS
<1>1. ASSUME NEW t \in Thread, WriteContainer(t) PROVE IInv'
  <2>1. PICK c \in Container : LockAction(t, c)
    BY <1>1, ThreadAssumption DEF WriteContainer
  <2>2. pc[t] = "idle" /\ ~Holding(t)
    BY <1>1 DEF WriteContainer, Holding, Exclusive
  <2> QED
    BY <2>1, <2>2, WaitOrCreatePreserves, TakeExclusivePreserves DEF LockAction
<1>2. ASSUME NEW t \in Thread, CreateContainer(t) PROVE IInv'
  BY <1>2, WaitOrCreatePreserves DEF CreateContainer, Create
<1>3. ASSUME NEW t \in Thread, Retry(t) PROVE IInv'
  <2>1. pc[t] = "woken" /\ ~Holding(t)
    BY <1>3 DEF Retry, Holding, Exclusive
  <2>2. target[t] \in Container
    BY <2>1 DEF IInv, TargetsExist
  <2>3. LockAction(t, target[t]) \/ Create(t, target[t])
    BY <1>3 DEF Retry
  <2> QED
    BY <2>1, <2>2, <2>3, WaitOrCreatePreserves, TakeExclusivePreserves
    DEF LockAction, Create
<1>4. ASSUME NEW t \in Thread, UnlockAction(t) PROVE IInv'
  BY <1>4, UnlockActionPreserves
<1>5. ASSUME NEW t \in Thread, DowngradeActionLock(t) \/ UpgradeActionLock(t)
      PROVE  IInv'
  BY <1>5, FlipPreserves
<1>6. ASSUME NEW t \in Thread, Unregister(t) PROVE IInv'
  BY <1>6, UnregisterPreserves
<1>7. CASE UNCHANGED vars
  <2>1. Quiet
    BY <1>7 DEF Quiet, vars
  <2>2. TypeOK' /\ TargetsExist' /\ HeldIsAlive'
    BY <1>7 DEF IInv, TypeOK, TargetsExist, HeldIsAlive, vars
  <2> QED BY <2>1, <2>2, QuietPreserves DEF IInv
<1> QED
  BY <1>1, <1>2, <1>3, <1>4, <1>5, <1>6, <1>7 DEF Next

(* A freshly started server satisfies the invariant. *)
LEMMA InitIInv == Init => IInv
<1> SUFFICES ASSUME Init PROVE IInv
  OBVIOUS
<1>1. TypeOK /\ TargetsExist /\ HeldIsAlive
  BY DEF Init, TypeOK, PC, TargetsExist, HeldIsAlive
<1>2. \A t \in Thread : ~Holding(t) /\ ~Exclusive(t) /\ pc[t] # "down"
  BY DEF Init, Holding, Exclusive
<1>3. HoldersApart
  BY <1>2 DEF HoldersApart
<1>4. ASSUME NEW c \in Container
      PROVE  WordMatches(c) /\ SubtreeRead[c] = Cardinality(HoldersBelow(c))
  <2>1. HoldersBelow(c) = {}
    BY <1>2 DEF HoldersBelow
  <2> QED
    BY <1>2, <2>1, FS_EmptySet DEF Init, WordMatches
<1> QED
  BY <1>1, <1>3, <1>4 DEF IInv, HoldersMatchWords

(* For every container tree and every finite set of threads: the action    *)
(* lock keeps its words in step with its holders, keeps the holders apart  *)
(* and keeps a held container alive.                                       *)
THEOREM Invariance == Spec => []IInv
BY InitIInv, StepPreserves, PTL DEF Spec

(* The state keeps its types (lock words are numbers, threads are at one   *)
(* of the places of the code).                                             *)
THEOREM TypeCorrect == Spec => []TypeOK
<1>1. IInv => TypeOK
  BY DEF IInv
<1> QED BY <1>1, Invariance, PTL

(* Mutual exclusion along every chain of the tree, downgraded locks        *)
(* included.                                                               *)
THEOREM MutualExclusion == Spec => []HoldersApart
<1>1. IInv => HoldersApart
  BY DEF IInv
<1> QED BY <1>1, Invariance, PTL

(* The assertions of UnlockAction and DowngradeActionLock never fail, and  *)
(* UpgradeActionLock never waits.                                          *)
THEOREM WordsAreExact == Spec => []HoldersMatchWords
<1>1. IInv => HoldersMatchWords
  BY DEF IInv
<1> QED BY <1>1, Invariance, PTL

(* A locked container is not destroyed by anybody else. *)
THEOREM HolderKeepsContainer == Spec => []HeldIsAlive
<1>1. IInv => HeldIsAlive
  BY DEF IInv
<1> QED BY <1>1, Invariance, PTL

-----------------------------------------------------------------------------
(* Wakeups.  A queue of sleepers is forgotten neither by the words         *)
(* (NoLostWakeup) nor by PendingWrite (NoOrphanPendingWrite).              *)

(* A container that does not exist yet has no flag left from anybody. *)
AbsentNotPending == \A c \in Container : life[c] = "absent" => ~PendingWrite[c]

WakeInv == NoLostWakeup /\ NoOrphanPendingWrite /\ AbsentNotPending

Queued(t, c) == pc[t] \in {"wait", "woken"} /\ want[t] = "write" /\ target[t] = c

(* Who turns the word of c to -1 may clear its flag: what was busy because *)
(* of the flag is now busy because of the word.                            *)
LEMMA BusyKept ==
  ASSUME TypeOK, NEW c \in Container, NEW d \in Container,
         ActionLocked' = [ActionLocked EXCEPT ![c] = -1],
         PendingWrite' = [PendingWrite EXCEPT ![c] = FALSE],
         \A x \in Container : SubtreeRead[x] # 0 => SubtreeRead'[x] # 0
  PROVE  /\ BusyExclusive(d) => BusyExclusive(d)'
         /\ BusyShared(d) => BusyShared(d)'
<1>1. \A x \in Container : /\ PendingWrite[x] => PendingWrite'[x] \/ x = c
                           /\ x # c => ActionLocked'[x] = ActionLocked[x]
                           /\ ActionLocked'[c] = -1
  BY DEF TypeOK
<1>2. \A a \in Above[d] : a \in Container
  BY TreeAssumption
<1>3. BusyExclusive(d) => BusyExclusive(d)'
  BY <1>1, <1>2 DEF BusyExclusive
<1>4. BusyShared(d) => BusyShared(d)'
  BY <1>1, <1>2 DEF BusyShared
<1> QED BY <1>3, <1>4

(* LockAction: the thread leaves the queue of c only if it gets the lock,  *)
(* when it clears the flag, or if c is destroyed.                          *)
LEMMA LockActionWakes ==
  ASSUME IInv, WakeInv, NEW t \in Thread, NEW c \in Container,
         pc[t] \in {"idle", "woken"}, pc[t] = "woken" => target[t] = c,
         LockAction(t, c)
  PROVE  WakeInv'
<1>0. TypeOK /\ TargetsExist /\ NoLostWakeup /\ NoOrphanPendingWrite /\ AbsentNotPending
  BY DEF IInv, WakeInv
<1>1. CASE LockFails(t, c)
  <2>1. /\ pc'[t] = "idle" /\ UNCHANGED <<lockVars, life, want>>
        /\ \A u \in Thread : u # t => pc'[u] = pc[u] /\ target'[u] = target[u]
    BY <1>0, <1>1 DEF TypeOK, LockFails
  <2>2. NoLostWakeup'
    BY <1>0, <2>1 DEF NoLostWakeup, BusyExclusive, BusyShared, lockVars
  <2>3. NoOrphanPendingWrite'
    BY <1>0, <1>1, <2>1 DEF NoOrphanPendingWrite, lockVars, LockFails
  <2> QED
    BY <1>0, <2>1, <2>2, <2>3 DEF WakeInv, AbsentNotPending, lockVars
<1>2. CASE WaitExclusive(t, c)
  <2>1. /\ pc'[t] = "wait" /\ target'[t] = c /\ want'[t] = "write"
        /\ \A u \in Thread : u # t => /\ pc'[u] = pc[u] /\ target'[u] = target[u]
                                      /\ want'[u] = want[u]
        /\ PendingWrite'[c]
        /\ \A x \in Container : x # c => PendingWrite'[x] = PendingWrite[x]
        /\ UNCHANGED <<ActionLocked, SubtreeRead, life>>
        /\ life[c] = "alive" /\ BusyExclusive(c)
    BY <1>0, <1>2 DEF TypeOK, WaitExclusive
  <2>2. ASSUME NEW d \in Container
        PROVE  /\ BusyExclusive(d) => BusyExclusive(d)'
               /\ BusyShared(d) => BusyShared(d)'
    <3>1. \A a \in Above[d] : a \in Container
      BY TreeAssumption
    <3> QED
      BY <1>0, <2>1, <3>1 DEF BusyExclusive, BusyShared, TypeOK
  <2>3. NoLostWakeup'
    BY <1>0, <2>1, <2>2 DEF NoLostWakeup, TargetsExist
  <2>4. NoOrphanPendingWrite'
    BY <1>0, <2>1 DEF NoOrphanPendingWrite
  <2> QED
    BY <1>0, <2>1, <2>3, <2>4 DEF WakeInv, AbsentNotPending
<1>3. CASE TakeExclusive(t, c)
  <2>1. /\ pc'[t] = "held"
        /\ \A u \in Thread : u # t => /\ pc'[u] = pc[u] /\ target'[u] = target[u]
                                      /\ want'[u] = want[u]
        /\ PendingWrite' = [PendingWrite EXCEPT ![c] = FALSE]
        /\ UNCHANGED life
    BY <1>0, <1>3 DEF TypeOK, TakeExclusive
  <2>2. /\ ActionLocked' = [ActionLocked EXCEPT ![c] = -1]
        /\ \A x \in Container : SubtreeRead[x] # 0 => SubtreeRead'[x] # 0
    <3>1. ActionLocked[c] - 1 = -1
      BY <1>3 DEF TakeExclusive, BusyExclusive
    <3>2. ActionLocked' = [ActionLocked EXCEPT ![c] = ActionLocked[c] - 1]
      BY <1>3 DEF TakeExclusive
    <3>3. \A x \in Container : SubtreeRead[x] # 0 => SubtreeRead'[x] # 0
      BY <1>0, <1>3 DEF TypeOK, TakeExclusive
    <3> QED BY <3>1, <3>2, <3>3, Zenon
  <2>3. \A d \in Container : /\ BusyExclusive(d) => BusyExclusive(d)'
                             /\ BusyShared(d) => BusyShared(d)'
    BY <1>0, <2>1, <2>2, BusyKept, Zenon
  <2>4. NoLostWakeup'
    <3> SUFFICES ASSUME NEW u \in Thread, pc'[u] = "wait"
                 PROVE  (IF want[u] = "write" THEN BusyExclusive(target[u])
                                              ELSE BusyShared(target[u]))'
      BY DEF NoLostWakeup
    <3>1. pc[u] = "wait" /\ target'[u] = target[u] /\ want'[u] = want[u]
      BY <2>1
    <3>2. PICK d \in Container : d = target[u]
      BY <1>0, <3>1 DEF TargetsExist
    <3>3. IF want[u] = "write" THEN BusyExclusive(d) ELSE BusyShared(d)
      BY <1>0, <3>1, <3>2 DEF NoLostWakeup
    <3>4. IF want[u] = "write" THEN BusyExclusive(d)' ELSE BusyShared(d)'
      BY <3>3, <2>3
    <3> QED
      BY <3>1, <3>2, <3>4 DEF BusyExclusive, BusyShared
  <2>5. \A x \in Container : PendingWrite'[x] => x # c /\ PendingWrite[x]
    BY <1>0, <2>1 DEF TypeOK
  <2>6. NoOrphanPendingWrite'
    BY <1>0, <2>1, <2>5 DEF NoOrphanPendingWrite
  <2> QED
    BY <1>0, <2>1, <2>4, <2>5, <2>6 DEF WakeInv, AbsentNotPending
<1> QED BY <1>1, <1>2, <1>3 DEF LockAction

(* A section that notifies all leaves nobody asleep, and keeps the queues. *)
LEMMA NotifyWakes ==
  ASSUME IInv, WakeInv, NEW t \in Thread, NEW p \in {"idle", "down"}, NotifyAll(t, p),
         pc[t] \in {"wait", "woken"} => want[t] = "create",
         \A u \in Thread : u # t => target'[u] = target[u],
         \A u \in Thread : want'[u] = want[u],
         UNCHANGED PendingWrite,
         \A c \in Container : life'[c] # life[c] => life[c] = "absent" /\ life'[c] = "alive"
  PROVE  WakeInv'
<1>1. \A u \in Thread : pc'[u] # "wait"
  BY DEF NotifyAll
<1>2. NoLostWakeup'
  BY <1>1 DEF NoLostWakeup
<1>3. ASSUME NEW c \in Container, life'[c] = "alive", PendingWrite[c]
      PROVE  \E u \in Thread : Queued(u, c)'
  <2>1. PICK u \in Thread : Queued(u, c)
    BY <1>3 DEF WakeInv, NoOrphanPendingWrite, AbsentNotPending, Queued
  <2>2. u # t
    BY <2>1 DEF Queued
  <2>3. Queued(u, c)'
    BY <2>1, <2>2 DEF Queued, NotifyAll
  <2> QED BY <2>3
<1>4. NoOrphanPendingWrite'
  BY <1>3 DEF NoOrphanPendingWrite, Queued
<1>5. AbsentNotPending'
  BY DEF WakeInv, AbsentNotPending
<1> QED BY <1>2, <1>4, <1>5 DEF WakeInv

(* Create leaves no flag, and makes only containers that have none. *)
LEMMA CreateWakes ==
  ASSUME IInv, WakeInv, NEW t \in Thread, NEW c \in Container,
         pc[t] = "idle" \/ (pc[t] = "woken" /\ want[t] = "create"),
         Create(t, c)
  PROVE  WakeInv'
<1>0. TypeOK /\ TargetsExist /\ NoLostWakeup /\ NoOrphanPendingWrite /\ AbsentNotPending
  BY DEF IInv, WakeInv
<1>1. CASE LockFails(t, c) \/ WaitShared(t, c)
  <2>1. /\ UNCHANGED <<lockVars, life>>
        /\ \A u \in Thread : u # t => /\ pc'[u] = pc[u] /\ target'[u] = target[u]
                                      /\ want'[u] = want[u]
        /\ pc'[t] = "wait" => target'[t] = c /\ want'[t] = "create" /\ BusyShared(c)
    BY <1>0, <1>1 DEF TypeOK, LockFails, WaitShared
  <2>2. NoLostWakeup'
    BY <1>0, <2>1 DEF NoLostWakeup, BusyExclusive, BusyShared, lockVars
  <2>3. NoOrphanPendingWrite'
    BY <1>0, <2>1 DEF NoOrphanPendingWrite, lockVars
  <2> QED
    BY <1>0, <2>1, <2>2, <2>3 DEF WakeInv, AbsentNotPending, lockVars
<1>2. CASE Register(t, c)
  <2>1. /\ \A u \in Thread : u # t => target'[u] = target[u]
        /\ \A u \in Thread : want'[u] = want[u]
        /\ UNCHANGED PendingWrite /\ NotifyAll(t, "idle")
    BY <1>0, <1>2 DEF TypeOK, Register, lockVars
  <2>2. \A x \in Container : life'[x] # life[x] => life[x] = "absent" /\ life'[x] = "alive"
    BY <1>0, <1>2 DEF TypeOK, Register
  <2> QED
    BY <2>1, <2>2, NotifyWakes
<1> QED BY <1>1, <1>2 DEF Create

(* The holder's own steps. *)
LEMMA HolderWakes ==
  ASSUME IInv, WakeInv, NEW t \in Thread,
         UnlockAction(t) \/ DowngradeActionLock(t) \/ UpgradeActionLock(t) \/ Unregister(t)
  PROVE  WakeInv'
<1>0. TypeOK /\ TargetsExist /\ NoLostWakeup /\ NoOrphanPendingWrite /\ AbsentNotPending
  BY DEF IInv, WakeInv
<1>1. CASE UnlockAction(t)
  <2>1. /\ \A u \in Thread : u # t => target'[u] = target[u]
        /\ \A u \in Thread : want'[u] = want[u]
        /\ UNCHANGED <<PendingWrite, life>> /\ NotifyAll(t, "idle")
        /\ pc[t] \notin {"wait", "woken"}
    BY <1>0, <1>1 DEF TypeOK, UnlockAction, Exclusive
  <2> QED BY <2>1, NotifyWakes
<1>2. CASE DowngradeActionLock(t)
  <2>1. /\ UNCHANGED <<target, want, PendingWrite, life>> /\ NotifyAll(t, "down")
        /\ pc[t] \notin {"wait", "woken"}
    BY <1>2 DEF DowngradeActionLock
  <2> QED BY <2>1, NotifyWakes
<1>3. CASE UpgradeActionLock(t)
  <2>1. /\ target[t] \in Container /\ UNCHANGED <<SubtreeRead, life, target, want>>
        /\ ActionLocked' = [ActionLocked EXCEPT ![target[t]] = -1]
        /\ PendingWrite' = [PendingWrite EXCEPT ![target[t]] = FALSE]
        /\ \A u \in Thread : pc[u] \in {"wait", "woken"} \/ pc'[u] \in {"wait", "woken"}
                              => pc'[u] = pc[u]
    BY <1>0, <1>3 DEF TypeOK, TargetsExist, UpgradeActionLock
  <2>2. \A d \in Container : /\ BusyExclusive(d) => BusyExclusive(d)'
                             /\ BusyShared(d) => BusyShared(d)'
    BY <1>0, <2>1, BusyKept, Zenon
  <2>3. NoLostWakeup'
    <3> SUFFICES ASSUME NEW u \in Thread, pc'[u] = "wait"
                 PROVE  (IF want[u] = "write" THEN BusyExclusive(target[u])
                                              ELSE BusyShared(target[u]))'
      BY DEF NoLostWakeup
    <3>1. pc[u] = "wait" /\ target'[u] = target[u] /\ want'[u] = want[u]
      BY <2>1
    <3>2. PICK d \in Container : d = target[u]
      BY <1>0, <3>1 DEF TargetsExist
    <3>3. IF want[u] = "write" THEN BusyExclusive(d) ELSE BusyShared(d)
      BY <1>0, <3>1, <3>2 DEF NoLostWakeup
    <3>4. IF want[u] = "write" THEN BusyExclusive(d)' ELSE BusyShared(d)'
      BY <3>3, <2>2
    <3> QED
      BY <3>1, <3>2, <3>4 DEF BusyExclusive, BusyShared
  <2>4. \A x \in Container : PendingWrite'[x] => PendingWrite[x]
    BY <1>0, <2>1 DEF TypeOK
  <2>5. NoOrphanPendingWrite'
    BY <1>0, <2>1, <2>4 DEF NoOrphanPendingWrite
  <2> QED
    BY <1>0, <2>1, <2>3, <2>4, <2>5 DEF WakeInv, AbsentNotPending
<1>4. CASE Unregister(t)
  <2>1. /\ UNCHANGED <<lockVars, target, want>>
        /\ \A u \in Thread : pc[u] \in {"wait", "woken"} \/ pc'[u] \in {"wait", "woken"}
                              => pc'[u] = pc[u]
        /\ \A x \in Container : life'[x] # "destroyed" => life'[x] = life[x]
    BY <1>0, <1>4 DEF TypeOK, Unregister
  <2>2. NoLostWakeup'
    BY <1>0, <2>1 DEF NoLostWakeup, BusyExclusive, BusyShared, lockVars
  <2>3. NoOrphanPendingWrite'
    BY <1>0, <2>1 DEF NoOrphanPendingWrite, lockVars
  <2> QED
    BY <1>0, <2>1, <2>2, <2>3 DEF WakeInv, AbsentNotPending, lockVars
<1> QED BY <1>1, <1>2, <1>3, <1>4

(* No section forgets a sleeper or leaves a flag behind. *)
LEMMA StepWakes == IInv /\ WakeInv /\ [Next]_vars => WakeInv'
<1> SUFFICES ASSUME IInv, WakeInv, [Next]_vars PROVE WakeInv'
  OBVIOUS
<1>1. ASSUME NEW t \in Thread, WriteContainer(t) PROVE WakeInv'
  <2>1. pc[t] = "idle" /\ \E c \in Container : LockAction(t, c)
    BY <1>1, ThreadAssumption DEF WriteContainer
  <2> QED BY <2>1, LockActionWakes
<1>2. ASSUME NEW t \in Thread, CreateContainer(t) PROVE WakeInv'
  BY <1>2, CreateWakes DEF CreateContainer
<1>3. ASSUME NEW t \in Thread, Retry(t) PROVE WakeInv'
  <2>1. pc[t] = "woken" /\ target[t] \in Container
    BY <1>3 DEF Retry, IInv, TargetsExist
  <2>2. CASE want[t] = "write" /\ LockAction(t, target[t])
    BY <2>1, <2>2, LockActionWakes
  <2>3. CASE want[t] = "create" /\ Create(t, target[t])
    BY <2>1, <2>3, CreateWakes
  <2> QED BY <1>3, <2>2, <2>3 DEF Retry
<1>4. CASE UNCHANGED vars
  BY <1>4 DEF vars, WakeInv, NoLostWakeup, NoOrphanPendingWrite, AbsentNotPending,
              BusyExclusive, BusyShared
<1> QED BY <1>1, <1>2, <1>3, <1>4, HolderWakes DEF Next

LEMMA Wakeups == Spec => []WakeInv
<1>1. Init => WakeInv
  BY DEF Init, WakeInv, NoLostWakeup, NoOrphanPendingWrite, AbsentNotPending
<1> QED
  BY <1>1, StepWakes, Invariance, PTL DEF Spec

(* Whoever sleeps in LockAction has to wait, for every tree and any number *)
(* of threads: no section that frees a lock word forgets to notify.        *)
THEOREM NoWakeupLost == Spec => []NoLostWakeup
BY Wakeups, PTL DEF WakeInv

(* PendingWrite of a living container always has a writer that waits for   *)
(* it and will clear it, so that it shuts nobody out for good.             *)
THEOREM NoFlagOrphaned == Spec => []NoOrphanPendingWrite
BY Wakeups, PTL DEF WakeInv

-----------------------------------------------------------------------------
(* Refinement: the lock words implement TreeMutex.                         *)

owned == [t \in Thread |-> IF Holding(t) THEN target[t] ELSE NoContainer]

(* Every critical section maps to taking, giving up or keeping ownership. *)
LEMMA StepRefines == IInv /\ [Next]_vars => [Mutex!Next]_owned
<1> SUFFICES ASSUME IInv, [Next]_vars PROVE Mutex!Next \/ UNCHANGED owned
  BY DEF owned
<1>0. TypeOK /\ TargetsExist /\ HoldersApart /\ HoldersMatchWords
  BY DEF IInv
<1>a. ASSUME NEW t \in Thread, NEW c \in Container, pc[t] \in {"idle", "woken"},
             LockFails(t, c) \/ WaitExclusive(t, c) \/ WaitShared(t, c) \/ Register(t, c)
      PROVE  UNCHANGED owned
  <2>1. /\ pc'[t] \in {"idle", "wait"}
        /\ \A u \in Thread : u # t =>
             /\ pc'[u] = pc[u] \/ (pc[u] = "wait" /\ pc'[u] = "woken")
             /\ target'[u] = target[u]
    <3>1. CASE LockFails(t, c) \/ WaitExclusive(t, c) \/ WaitShared(t, c)
      BY <1>0, <3>1 DEF TypeOK, LockFails, WaitExclusive, WaitShared
    <3>2. CASE Register(t, c)
      BY <1>0, <3>2 DEF TypeOK, Register, NotifyAll
    <3> QED BY <1>a, <3>1, <3>2
  <2> QED BY <1>a, <2>1 DEF owned, Holding, Exclusive
<1>b. ASSUME NEW t \in Thread, NEW c \in Container, pc[t] \in {"idle", "woken"},
             TakeExclusive(t, c)
      PROVE  Mutex!Acquire(t, c)
  <2>1. IInv'
    BY <1>b, TakeExclusivePreserves DEF Holding, Exclusive
  <2>2. /\ pc'[t] = "held" /\ target'[t] = c
        /\ \A u \in Thread : u # t => pc'[u] = pc[u] /\ target'[u] = target[u]
    BY <1>0, <1>b DEF TypeOK, TakeExclusive
  <2>3. owned' = [owned EXCEPT ![t] = c]
    BY <2>2, Zenon DEF owned, Holding, Exclusive
  <2>4. owned[t] = NoContainer
    BY <1>b DEF owned, Holding, Exclusive
  <2>5. ASSUME NEW u \in Thread \ {t}, owned[u] # NoContainer
        PROVE  Mutex!Separate(owned[u], c)
    <3>1. Holding(u) /\ owned[u] = target[u]
      BY <2>5 DEF owned
    <3>2. Apart(target'[u], target'[t])
      BY <2>1, <2>2, <2>5, <3>1 DEF IInv, HoldersApart, Holding, Exclusive
    <3> QED
      BY <2>2, <2>5, <3>1, <3>2 DEF Apart, Mutex!Separate
  <2> QED
    BY <2>3, <2>4, <2>5 DEF Mutex!Acquire, owned
<1>1. ASSUME NEW t \in Thread, WriteContainer(t) PROVE Mutex!Next \/ UNCHANGED owned
  <2>1. PICK c \in Container : LockAction(t, c)
    BY <1>1, ThreadAssumption DEF WriteContainer
  <2>2. pc[t] = "idle"
    BY <1>1 DEF WriteContainer
  <2> QED
    BY <2>1, <2>2, <1>a, <1>b DEF LockAction, Mutex!Next
<1>2. ASSUME NEW t \in Thread, CreateContainer(t) PROVE UNCHANGED owned
  BY <1>2, <1>a DEF CreateContainer, Create
<1>3. ASSUME NEW t \in Thread, Retry(t) PROVE Mutex!Next \/ UNCHANGED owned
  <2>1. pc[t] = "woken" /\ target[t] \in Container
    BY <1>0, <1>3 DEF Retry, TargetsExist
  <2>2. LockAction(t, target[t]) \/ Create(t, target[t])
    BY <1>3 DEF Retry
  <2> QED
    BY <2>1, <2>2, <1>a, <1>b DEF LockAction, Create, Mutex!Next
<1>4. ASSUME NEW t \in Thread, UnlockAction(t) PROVE Mutex!Next
  <2>1. /\ Holding(t) /\ target[t] \in Container /\ pc'[t] = "idle"
        /\ \A u \in Thread : u # t =>
             /\ pc'[u] = pc[u] \/ (pc[u] = "wait" /\ pc'[u] = "woken")
             /\ target'[u] = target[u]
    BY <1>0, <1>4 DEF TypeOK, TargetsExist, UnlockAction, NotifyAll, Holding, Exclusive
  <2>2. owned' = [owned EXCEPT ![t] = NoContainer] /\ owned[t] # NoContainer
    <3>1. owned[t] # NoContainer
      BY <2>1, TreeAssumption DEF owned
    <3>2. \A u \in Thread : owned'[u] = IF u = t THEN NoContainer ELSE owned[u]
      BY <2>1 DEF owned, Holding, Exclusive
    <3> QED BY <3>1, <3>2, Zenon DEF owned
  <2>3. Mutex!Release(t)
    BY <2>2 DEF Mutex!Release, owned
  <2> QED BY <2>3 DEF Mutex!Next
<1>5. ASSUME NEW t \in Thread, DowngradeActionLock(t) PROVE UNCHANGED owned
  BY <1>0, <1>5 DEF TypeOK, DowngradeActionLock, NotifyAll, owned, Holding, Exclusive
<1>6. ASSUME NEW t \in Thread, UpgradeActionLock(t) \/ Unregister(t) PROVE UNCHANGED owned
  BY <1>0, <1>6 DEF TypeOK, UpgradeActionLock, Unregister, owned, Holding, Exclusive
<1>7. CASE UNCHANGED vars
  BY <1>7 DEF vars, owned, Holding, Exclusive
<1> QED
  BY <1>1, <1>2, <1>3, <1>4, <1>5, <1>6, <1>7 DEF Next

(* The action lock implements the mutex on subtrees that its users rely on. *)
THEOREM Refinement == Spec => ImplementsTreeMutex
<1>1. Init => Mutex!Init
  BY DEF Init, Mutex!Init, Holding, Exclusive
<1>2. IInv /\ [Next]_vars => [Mutex!Next]_owned
  BY StepRefines
<1> QED
  BY <1>1, <1>2, Invariance, PTL DEF Spec, ImplementsTreeMutex, Mutex!Spec, owned
=============================================================================
