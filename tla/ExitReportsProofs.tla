------------------------- MODULE ExitReportsProofs --------------------------
(***************************************************************************)
(* No exit status is lost, for any number of tasks, any size of the pipes  *)
(* and any number of server crashes.  ExitIsKept is not inductive: it also *)
(* takes that the ack pipe holds no pid that a container still claims.     *)
(***************************************************************************)
EXTENDS ExitReports, FiniteSetTheorems, SequenceTheorems, TLAPS

(* A batch under work is not empty. *)
BatchIsOpen == at = "batch" => batch # <<>>

(* What is acknowledged is no container's task any more. *)
AckedIsForgotten == ToSet(ack) \cap claimed = {}

IInv == TypeOK /\ BatchIsOpen /\ ExitIsKept /\ AckedIsForgotten /\ ReportIsOnItsWay

-----------------------------------------------------------------------------
(* The elements of a sequence, for the operations of pipes and queues. *)
LEMMA ToSetEmpty == ToSet(<<>>) = {}
BY DEF ToSet

LEMMA ToSetAppend ==
  ASSUME NEW S, NEW s \in Seq(S), NEW e \in S
  PROVE  /\ Append(s, e) \in Seq(S)
         /\ Len(Append(s, e)) = Len(s) + 1
         /\ ToSet(Append(s, e)) = ToSet(s) \cup {e}
<1>1. DOMAIN Append(s, e) = 1..(Len(s) + 1) /\ DOMAIN s = 1..Len(s) /\ Len(s) \in Nat
  OBVIOUS
<1>2. \A i \in 1..(Len(s) + 1) : Append(s, e)[i] = IF i = Len(s) + 1 THEN e ELSE s[i]
  OBVIOUS
<1>3. ToSet(Append(s, e)) \subseteq ToSet(s) \cup {e}
  BY <1>1, <1>2 DEF ToSet
<1>4. ToSet(s) \subseteq ToSet(Append(s, e))
  BY <1>1, <1>2 DEF ToSet
<1>5. e \in ToSet(Append(s, e))
  <2>1. Len(s) + 1 \in DOMAIN Append(s, e) /\ Append(s, e)[Len(s) + 1] = e
    BY <1>1, <1>2
  <2>2. QED
    BY <2>1 DEF ToSet
<1>6. QED
  BY <1>3, <1>4, <1>5

LEMMA ToSetConcat ==
  ASSUME NEW S, NEW s \in Seq(S), NEW u \in Seq(S)
  PROVE  s \o u \in Seq(S) /\ ToSet(s \o u) = ToSet(s) \cup ToSet(u)
<1>1. /\ s \o u \in Seq(S)
      /\ DOMAIN (s \o u) = 1..(Len(s) + Len(u))
      /\ DOMAIN s = 1..Len(s) /\ DOMAIN u = 1..Len(u)
      /\ Len(s) \in Nat /\ Len(u) \in Nat
  OBVIOUS
<1>2. \A i \in 1..(Len(s) + Len(u)) :
        (s \o u)[i] = IF i <= Len(s) THEN s[i] ELSE u[i - Len(s)]
  OBVIOUS
<1>3. ToSet(s \o u) \subseteq ToSet(s) \cup ToSet(u)
  <2>1. SUFFICES ASSUME NEW i \in 1..(Len(s) + Len(u))
                 PROVE  (s \o u)[i] \in ToSet(s) \cup ToSet(u)
    BY <1>1 DEF ToSet
  <2>2. CASE i <= Len(s)
    BY <2>2, <1>1, <1>2 DEF ToSet
  <2>3. CASE i > Len(s)
    <3>1. i - Len(s) \in DOMAIN u
      BY <2>3, <1>1
    <3>2. (s \o u)[i] = u[i - Len(s)]
      BY <2>3, <1>1, <1>2
    <3>3. QED
      BY <3>1, <3>2 DEF ToSet
  <2>4. QED
    BY <2>2, <2>3, <1>1
<1>4. ToSet(s) \subseteq ToSet(s \o u)
  BY <1>1, <1>2 DEF ToSet
<1>5. ToSet(u) \subseteq ToSet(s \o u)
  <2>1. SUFFICES ASSUME NEW i \in 1..Len(u)
                 PROVE  u[i] \in ToSet(s \o u)
    BY <1>1 DEF ToSet
  <2>2. i + Len(s) \in DOMAIN (s \o u) /\ (s \o u)[i + Len(s)] = u[i]
    BY <1>1, <1>2
  <2>3. QED
    BY <2>2 DEF ToSet
<1>6. QED
  BY <1>1, <1>3, <1>4, <1>5

LEMMA ToSetTail ==
  ASSUME NEW S, NEW s \in Seq(S), s # <<>>
  PROVE  /\ Tail(s) \in Seq(S) /\ Len(Tail(s)) = Len(s) - 1 /\ Len(s) \in Nat \ {0}
         /\ Head(s) \in S /\ Head(s) \in ToSet(s)
         /\ ToSet(s) = ToSet(Tail(s)) \cup {Head(s)}
<1>1. /\ Tail(s) \in Seq(S) /\ Len(s) \in Nat \ {0} /\ Len(Tail(s)) = Len(s) - 1
      /\ DOMAIN s = 1..Len(s) /\ DOMAIN Tail(s) = 1..(Len(s) - 1)
      /\ Head(s) = s[1] /\ Head(s) \in S
  OBVIOUS
<1>2. \A i \in 1..(Len(s) - 1) : Tail(s)[i] = s[i + 1]
  OBVIOUS
<1>3. Head(s) \in ToSet(s)
  BY <1>1 DEF ToSet
<1>4. ToSet(Tail(s)) \subseteq ToSet(s)
  <2>1. SUFFICES ASSUME NEW i \in 1..(Len(s) - 1) PROVE Tail(s)[i] \in ToSet(s)
    BY <1>1 DEF ToSet
  <2>2. i + 1 \in DOMAIN s /\ Tail(s)[i] = s[i + 1]
    BY <1>1, <1>2
  <2>3. QED
    BY <2>2 DEF ToSet
<1>5. ToSet(s) \subseteq ToSet(Tail(s)) \cup {Head(s)}
  <2>1. SUFFICES ASSUME NEW i \in 1..Len(s) PROVE s[i] \in ToSet(Tail(s)) \cup {Head(s)}
    BY <1>1 DEF ToSet
  <2>2. CASE i = 1
    BY <2>2, <1>1
  <2>3. CASE i # 1
    <3>1. i - 1 \in DOMAIN Tail(s) /\ Tail(s)[i - 1] = s[i]
      BY <2>3, <1>1, <1>2
    <3>2. QED
      BY <3>1 DEF ToSet
  <2>4. QED
    BY <2>2, <2>3
<1>6. QED
  BY <1>1, <1>3, <1>4, <1>5
-----------------------------------------------------------------------------
(* A report adds its pid to the pipe and to Zombies, or changes nothing. *)
LEMMA Report ==
  ASSUME TypeOK, NEW pid \in Reportable \cup {None, Server}, HandleZombie(pid)
  PROVE  /\ evt' \in Seq(Reportable) /\ Len(evt') <= PipeSize
         /\ Zombies' \subseteq Reportable
         /\ ToSet(evt) \subseteq ToSet(evt')
         /\ ToSet(evt') \subseteq ToSet(evt) \cup {pid}
         /\ Zombies' \subseteq Zombies \cup ToSet(evt')
<1>1. CASE MayReport(pid)
  <2>1. /\ pid \in Reportable /\ Len(evt) < PipeSize
        /\ evt' = Append(evt, pid) /\ Zombies' = Zombies \cup {pid}
    BY <1>1 DEF HandleZombie, MayReport
  <2>2. evt \in Seq(Reportable) /\ Zombies \subseteq Reportable
    BY DEF TypeOK
  <2>3. /\ evt' \in Seq(Reportable) /\ Len(evt') = Len(evt) + 1
        /\ ToSet(evt') = ToSet(evt) \cup {pid}
    BY <2>1, <2>2, ToSetAppend
  <2>4. Len(evt') <= PipeSize
    BY <2>1, <2>2, <2>3, Bounds
  <2>5. QED
    BY <2>1, <2>2, <2>3, <2>4
<1>2. CASE ~MayReport(pid)
  BY <1>2 DEF HandleZombie, TypeOK
<1>3. QED
  BY <1>1, <1>2

(* The batch shrinks, and is left when it is empty. *)
LEMMA Batch ==
  ASSUME TypeOK, BatchIsOpen, at = "batch", NextEvent
  PROVE  batch' \in Seq(Source) /\ at' \in {"poll", "batch", "report"} /\ BatchIsOpen'
<1>1. batch \in Seq(Source) /\ batch # <<>>
  BY DEF TypeOK, BatchIsOpen
<1>2. Tail(batch) \in Seq(Source) /\ Len(Tail(batch)) = Len(batch) - 1 /\ Len(batch) \in Nat \ {0}
  BY <1>1, ToSetTail
<1>3. Len(batch) # 1 => Tail(batch) # <<>>
  <2>1. Len(<<>>) = 0
    OBVIOUS
  <2>2. ASSUME Tail(batch) = <<>> PROVE Len(Tail(batch)) = 0
    BY <2>1, <2>2
  <2>3. QED
    BY <1>2, <2>2
<1>4. QED
  BY <1>2, <1>3 DEF NextEvent, BatchIsOpen

(* The initial state satisfies the invariant. *)
LEMMA InitIInv == Init => IInv
<1> SUFFICES ASSUME Init PROVE IInv
  OBVIOUS
<1>1. TypeOK
  BY Bounds DEF Init, TypeOK, None
<1>2. ToSet(evt) = {} /\ ToSet(queue) = {} /\ ToSet(ack) = {}
  BY ToSetEmpty DEF Init
<1>3. QED
  BY <1>1, <1>2 DEF IInv, BatchIsOpen, ExitIsKept, AckedIsForgotten, ReportIsOnItsWay, Init

(* A task exits. *)
LEMMA TaskExitsKeeps == IInv /\ TaskExits => IInv'
<1> SUFFICES ASSUME IInv, TaskExits PROVE IInv'
  OBVIOUS
<1>1. PICK p \in running : /\ running' = running \ {p}
                           /\ zombies' = zombies \cup {p}
                           /\ Raise(p)
                           /\ UNCHANGED <<master, evt, ack, server>>
  BY DEF TaskExits
<1>2. UNCHANGED <<at, batch, Zombies, ackPolled, evt, ack, up, queue, claimed, crashes>>
  BY <1>1 DEF master, server
<1>3. p \in Task /\ sigchld' \in {p, sigchld}
  BY <1>1 DEF IInv, TypeOK, Raise
<1>4. TypeOK'
  BY <1>1, <1>2, <1>3 DEF IInv, TypeOK, Reportable
<1>5. ExitIsKept'
  BY <1>1, <1>2, <1>3 DEF IInv, ExitIsKept
<1>6. BatchIsOpen' /\ AckedIsForgotten' /\ ReportIsOnItsWay'
  BY <1>2 DEF IInv, BatchIsOpen, AckedIsForgotten, ReportIsOnItsWay
<1>7. QED
  BY <1>4, <1>5, <1>6 DEF IInv

(* A child is stopped or continued. *)
LEMMA ChildStopsKeeps == IInv /\ ChildStops => IInv'
<1> SUFFICES ASSUME IInv, ChildStops PROVE IInv'
  OBVIOUS
<1>1. PICK p \in running \cup (IF up THEN {Server} ELSE {}) :
        Raise(p) /\ UNCHANGED <<kernel, master, evt, ack, server>>
  BY DEF ChildStops
<1>2. UNCHANGED <<running, zombies, at, batch, Zombies, ackPolled, evt, ack, up, queue,
                  claimed, crashes>>
  BY <1>1 DEF kernel, master, server
<1>3. sigchld' \in Reportable \cup {None, Server}
  BY <1>1 DEF IInv, TypeOK, Raise, Reportable
<1>4. TypeOK'
  BY <1>2, <1>3 DEF IInv, TypeOK
<1>5. ExitIsKept' /\ BatchIsOpen' /\ AckedIsForgotten' /\ ReportIsOnItsWay'
  BY <1>2 DEF IInv, ExitIsKept, BatchIsOpen, AckedIsForgotten, ReportIsOnItsWay
<1>6. QED
  BY <1>4, <1>5 DEF IInv

(* The server dies, by a crash or because it cannot acknowledge. *)
LEMMA DiesKeeps ==
  ASSUME IInv, crashes < MaxCrashes, Dies,
         UNCHANGED <<running, zombies, at, batch, Zombies, ackPolled, ack, claimed>>
  PROVE  IInv'
<1>1. /\ up' = FALSE /\ queue' = <<>> /\ evt' = <<>> /\ crashes' = crashes + 1
      /\ sigchld' \in {Server, sigchld}
  BY DEF Dies, Raise
<1>2. TypeOK'
  <2>1. crashes' \in 0..MaxCrashes
    BY <1>1, Bounds DEF IInv, TypeOK
  <2>2. evt' \in Seq(Reportable) /\ Len(evt') <= PipeSize /\ queue' \in Seq(Reportable)
    BY <1>1, Bounds
  <2>3. QED
    BY <1>1, <2>1, <2>2 DEF IInv, TypeOK
<1>3. ToSet(evt') = {} /\ ToSet(queue') = {}
  BY <1>1, ToSetEmpty
<1>5. ExitIsKept'
  BY DEF IInv, ExitIsKept
<1>6. BatchIsOpen' /\ AckedIsForgotten' /\ ReportIsOnItsWay'
  BY <1>1 DEF IInv, BatchIsOpen, AckedIsForgotten, ReportIsOnItsWay
<1>7. QED
  BY <1>2, <1>5, <1>6 DEF IInv

(* The master gets its events: any sequence of the ready sources. *)
LEMMA PollKeeps == IInv /\ Poll => IInv'
<1> SUFFICES ASSUME IInv, Poll PROVE IInv'
  OBVIOUS
<1> DEFINE ready == {s \in Source : IsReady(s)}
<1>1. /\ ready # {} /\ at' = "batch" /\ batch' \in SetToSeqs(ready)
      /\ UNCHANGED <<running, zombies, sigchld, Zombies, ackPolled, evt, ack,
                     up, queue, claimed, crashes>>
  BY DEF Poll, kernel, server
<1>2. IsFiniteSet(ready)
  <2>1. IsFiniteSet({"signal"}) /\ IsFiniteSet({"pidfd"}) /\ IsFiniteSet({"ack"})
    BY FS_Singleton
  <2>2. IsFiniteSet({"signal"} \cup {"pidfd"})
    BY <2>1, FS_Union
  <2>3. IsFiniteSet(({"signal"} \cup {"pidfd"}) \cup {"ack"})
    BY <2>1, <2>2, FS_Union
  <2>4. Source = ({"signal"} \cup {"pidfd"}) \cup {"ack"}
    BY DEF Source
  <2>5. IsFiniteSet(Source)
    BY <2>3, <2>4
  <2>6. QED
    BY <2>5, FS_Subset
<1>3. Cardinality(ready) \in Nat /\ Cardinality(ready) # 0
  BY <1>1, <1>2, FS_CardinalityType, FS_EmptySet
<1>4. batch' \in [1..Cardinality(ready) -> ready]
  BY <1>1 DEF SetToSeqs
<1>5. batch' \in Seq(Source) /\ Len(batch') = Cardinality(ready)
  <2> DEFINE n == Cardinality(ready)
  <2>1. batch' \in [1..n -> Source] /\ n \in Nat
    BY <1>3, <1>4
  <2> HIDE DEF n
  <2>2. batch' \in Seq(Source) /\ Len(batch') = n
    BY <2>1
  <2>3. QED
    BY <2>2 DEF n
<1>6. batch' # <<>>
  <2>1. Len(<<>>) = 0
    OBVIOUS
  <2>2. Len(batch') # 0
    BY <1>3, <1>5
  <2>3. QED
    BY <2>1, <2>2
<1>7. TypeOK'
  BY <1>1, <1>5 DEF IInv, TypeOK
<1>8. BatchIsOpen'
  BY <1>6 DEF BatchIsOpen
<1>9. ExitIsKept' /\ AckedIsForgotten' /\ ReportIsOnItsWay'
  BY <1>1 DEF IInv, ExitIsKept, AckedIsForgotten, ReportIsOnItsWay
<1>10. QED
  BY <1>7, <1>8, <1>9 DEF IInv

(* A report keeps what concerns the pipes. *)
LEMMA ReportKeeps ==
  ASSUME IInv, NEW pid \in Reportable \cup {None, Server},
         HandleZombie(pid), sigchld' \in {sigchld, None},
         UNCHANGED <<running, zombies, ack, up, queue, claimed>>
  PROVE  ExitIsKept' /\ AckedIsForgotten' /\ ReportIsOnItsWay'
<1>1. /\ ToSet(evt) \subseteq ToSet(evt') /\ ToSet(evt') \subseteq ToSet(evt) \cup {pid}
      /\ Zombies' \subseteq Zombies \cup ToSet(evt')
  BY Report DEF IInv
<1>3. ExitIsKept'
  BY DEF IInv, ExitIsKept
<1>4. AckedIsForgotten'
  BY DEF IInv, AckedIsForgotten
<1>5. ReportIsOnItsWay'
  <2>1. ToSet(queue') = ToSet(queue) /\ ToSet(ack') = ToSet(ack)
    OBVIOUS
  <2>2. QED
    BY <1>1, <2>1 DEF IInv, ReportIsOnItsWay
<1>6. QED
  BY <1>3, <1>4, <1>5

LEMMA HandleSignalKeeps == IInv /\ HandleSignal => IInv'
<1> SUFFICES ASSUME IInv, HandleSignal PROVE IInv'
  OBVIOUS
<1>1. /\ HandleZombie(sigchld) /\ sigchld' = None /\ NextEvent /\ at = "batch"
      /\ UNCHANGED <<running, zombies, ackPolled, ack, up, queue, claimed, crashes>>
  BY DEF HandleSignal, Handling, kernel, server
<1>2. sigchld \in Reportable \cup {None, Server}
  BY DEF IInv, TypeOK
<1>3. /\ evt' \in Seq(Reportable) /\ Len(evt') <= PipeSize /\ Zombies' \subseteq Reportable
  BY <1>1, <1>2, Report DEF IInv
<1>4. batch' \in Seq(Source) /\ at' \in {"poll", "batch", "report"} /\ BatchIsOpen'
  BY <1>1, Batch DEF IInv
<1>5. TypeOK'
  BY <1>1, <1>3, <1>4 DEF IInv, TypeOK
<1>6. ExitIsKept' /\ AckedIsForgotten' /\ ReportIsOnItsWay'
  BY <1>1, <1>2, ReportKeeps
<1>7. QED
  BY <1>4, <1>5, <1>6 DEF IInv

LEMMA ReapZombiesKeeps == IInv /\ ReapZombies => IInv'
<1> SUFFICES ASSUME IInv, ReapZombies PROVE IInv'
  OBVIOUS
<1>1. /\ zombies' = zombies \ (Zombies \cap ToSet(ack)) /\ Zombies' = Zombies \ ToSet(ack)
      /\ ackPolled' \in BOOLEAN /\ ack' = <<>> /\ NextEvent /\ at = "batch"
      /\ UNCHANGED <<running, sigchld, evt, up, queue, claimed, crashes>>
  BY DEF ReapZombies, Handling, server
<1>2. batch' \in Seq(Source) /\ at' \in {"poll", "batch", "report"} /\ BatchIsOpen'
  BY <1>1, Batch DEF IInv
<1>3. ToSet(ack') = {} /\ ack' \in Seq(Reportable) /\ Len(ack') <= PipeSize
  BY <1>1, ToSetEmpty, Bounds
<1>4. TypeOK'
  BY <1>1, <1>2, <1>3 DEF IInv, TypeOK
<1>5. ExitIsKept' /\ AckedIsForgotten'
  BY <1>1, <1>3 DEF IInv, ExitIsKept, AckedIsForgotten
<1>6. ReportIsOnItsWay'
  BY <1>1 DEF IInv, ReportIsOnItsWay
<1>7. QED
  BY <1>2, <1>4, <1>5, <1>6 DEF IInv

LEMMA ReportZombiesKeeps == IInv /\ ReportZombies => IInv'
<1> SUFFICES ASSUME IInv, ReportZombies PROVE IInv'
  OBVIOUS
<1>1. /\ at' = "poll"
      /\ UNCHANGED <<running, zombies, sigchld, batch, ackPolled, ack, up, queue, claimed, crashes>>
  BY DEF ReportZombies, kernel, server
<1>2. BatchIsOpen'
  BY <1>1 DEF BatchIsOpen
<1>3. CASE UNCHANGED <<evt, Zombies>>
  <2>1. TypeOK'
    BY <1>1, <1>3 DEF IInv, TypeOK
  <2>2. ExitIsKept' /\ AckedIsForgotten' /\ ReportIsOnItsWay'
    BY <1>1, <1>3 DEF IInv, ExitIsKept, AckedIsForgotten, ReportIsOnItsWay
  <2>3. QED
    BY <1>2, <2>1, <2>2 DEF IInv
<1>4. ASSUME NEW pid \in FirstZombies, HandleZombie(pid) PROVE IInv'
  <2>1. pid \in Reportable \cup {None, Server}
    BY <1>4 DEF FirstZombies, IInv, TypeOK, Reportable
  <2>2. evt' \in Seq(Reportable) /\ Len(evt') <= PipeSize /\ Zombies' \subseteq Reportable
    BY <1>4, <2>1, Report DEF IInv
  <2>3. TypeOK'
    BY <1>1, <2>2 DEF IInv, TypeOK
  <2>4. ExitIsKept' /\ AckedIsForgotten' /\ ReportIsOnItsWay'
    BY <1>1, <1>4, <2>1, ReportKeeps
  <2>5. QED
    BY <1>2, <2>3, <2>4 DEF IInv
<1>5. QED
  BY <1>3, <1>4 DEF ReportZombies

LEMMA SpawnServerKeeps == IInv /\ SpawnServer => IInv'
<1> SUFFICES ASSUME IInv, SpawnServer PROVE IInv'
  OBVIOUS
<1>1. /\ at' = "poll" /\ batch' = <<>> /\ Zombies' = {} /\ ackPolled' = TRUE
      /\ evt' = <<>> /\ ack' = <<>> /\ up' = TRUE
      /\ sigchld' \in {sigchld, OldServer}
      /\ sigchld' # Server
      /\ UNCHANGED <<running, zombies, queue, claimed, crashes>>
  BY DEF SpawnServer, kernel, Server, OldServer
<1>2. TypeOK'
  <2>1. /\ evt' \in Seq(Reportable) /\ Len(evt') <= PipeSize
        /\ ack' \in Seq(Reportable) /\ Len(ack') <= PipeSize /\ batch' \in Seq(Source)
    BY <1>1, Bounds
  <2>2. sigchld' \in Reportable \cup {None, Server}
    BY <1>1 DEF IInv, TypeOK, Reportable
  <2>3. QED
    BY <1>1, <2>1, <2>2 DEF IInv, TypeOK
<1>3. ToSet(evt') = {} /\ ToSet(ack') = {}
  BY <1>1, ToSetEmpty
<1>5. ExitIsKept'
  BY <1>1 DEF IInv, ExitIsKept
<1>6. BatchIsOpen' /\ AckedIsForgotten' /\ ReportIsOnItsWay'
  BY <1>1, <1>3 DEF BatchIsOpen, AckedIsForgotten, ReportIsOnItsWay
<1>7. QED
  BY <1>2, <1>5, <1>6 DEF IInv

LEMMA RecvExitEventsKeeps == IInv /\ RecvExitEvents => IInv'
<1> SUFFICES ASSUME IInv, RecvExitEvents PROVE IInv'
  OBVIOUS
<1>1. /\ queue' = queue \o evt /\ evt' = <<>>
      /\ UNCHANGED <<running, zombies, sigchld, at, batch, Zombies, ackPolled, ack,
                     up, claimed, crashes>>
  BY DEF RecvExitEvents, kernel, master
<1>2. queue' \in Seq(Reportable) /\ ToSet(queue') = ToSet(queue) \cup ToSet(evt)
  <2>1. queue \in Seq(Reportable) /\ evt \in Seq(Reportable)
    BY DEF IInv, TypeOK
  <2>2. QED
    BY <1>1, <2>1, ToSetConcat
<1>3. ToSet(evt') = {} /\ evt' \in Seq(Reportable) /\ Len(evt') <= PipeSize
  BY <1>1, ToSetEmpty, Bounds
<1>4. TypeOK'
  BY <1>1, <1>2, <1>3 DEF IInv, TypeOK
<1>5. ExitIsKept'
  BY <1>1, <1>2, <1>3 DEF IInv, ExitIsKept
<1>6. BatchIsOpen' /\ AckedIsForgotten'
  BY <1>1 DEF IInv, BatchIsOpen, AckedIsForgotten
<1>7. ReportIsOnItsWay'
  <2>1. ToSet(ack') = ToSet(ack)
    BY <1>1
  <2>2. QED
    BY <1>1, <1>2, <1>3, <2>1 DEF IInv, ReportIsOnItsWay
<1>8. QED
  BY <1>4, <1>5, <1>6, <1>7 DEF IInv

(* A container is done with its task, by an exit event or by a stop. *)
LEMMA ForgetKeeps ==
  ASSUME IInv, NEW p \in claimed, Forget(p),
         UNCHANGED <<at, batch, Zombies, ackPolled, evt, ack, up, queue, crashes>>
  PROVE  IInv'
<1>1. /\ claimed' = claimed \ {p} /\ p \in Task
      /\ running' \subseteq running /\ running' \cup zombies' = running \cup zombies
      /\ zombies' \cap running' = {}
      /\ sigchld' \in {sigchld, p}
  BY DEF Forget, Raise, kernel, IInv, TypeOK
<1>2. TypeOK'
  BY <1>1 DEF IInv, TypeOK, Reportable
<1>3. ExitIsKept' /\ AckedIsForgotten'
  BY <1>1 DEF IInv, ExitIsKept, AckedIsForgotten
<1>4. BatchIsOpen' /\ ReportIsOnItsWay'
  BY DEF IInv, BatchIsOpen, ReportIsOnItsWay
<1>5. QED
  BY <1>2, <1>3, <1>4 DEF IInv

LEMMA AckExitStatusKeeps == IInv /\ AckExitStatus => IInv'
<1> SUFFICES ASSUME IInv, AckExitStatus PROVE IInv'
  OBVIOUS
<1>1. /\ queue # <<>> /\ Head(queue) \notin claimed
      /\ UNCHANGED <<running, zombies, at, batch, Zombies, ackPolled, claimed>>
  BY DEF AckExitStatus, kernel, master
<1>2. CASE /\ Len(ack) < PipeSize /\ ack' = Append(ack, Head(queue)) /\ queue' = Tail(queue)
           /\ UNCHANGED <<sigchld, evt, up, crashes>>
  <2>1. queue \in Seq(Reportable) /\ ack \in Seq(Reportable)
    BY DEF IInv, TypeOK
  <2>2. /\ queue' \in Seq(Reportable) /\ Head(queue) \in Reportable
        /\ ToSet(queue) = ToSet(queue') \cup {Head(queue)}
    BY <1>1, <1>2, <2>1, ToSetTail
  <2>3. /\ ack' \in Seq(Reportable) /\ Len(ack') = Len(ack) + 1
        /\ ToSet(ack') = ToSet(ack) \cup {Head(queue)}
    BY <1>2, <2>1, <2>2, ToSetAppend
  <2>4. Len(ack') <= PipeSize
    BY <1>2, <2>1, <2>3, Bounds
  <2>5. TypeOK'
    BY <1>1, <1>2, <2>2, <2>3, <2>4 DEF IInv, TypeOK
  <2>6. ExitIsKept' /\ BatchIsOpen' /\ AckedIsForgotten'
    BY <1>1, <1>2, <2>2, <2>3 DEF IInv, ExitIsKept, BatchIsOpen, AckedIsForgotten
  <2>7. ReportIsOnItsWay'
    <3>1. ToSet(evt') = ToSet(evt)
      BY <1>2
    <3>2. QED
      BY <1>1, <1>2, <2>2, <2>3, <3>1 DEF IInv, ReportIsOnItsWay
  <2>8. QED
    BY <2>5, <2>6, <2>7 DEF IInv
<1>3. CASE crashes < MaxCrashes /\ Dies /\ UNCHANGED ack
  BY <1>1, <1>3, DiesKeeps
<1>4. QED
  BY <1>2, <1>3 DEF AckExitStatus

-----------------------------------------------------------------------------
(* The invariant holds in every reachable state. *)
THEOREM Invariance == Spec => []IInv
<1>1. IInv /\ [Next]_vars => IInv'
  <2> SUFFICES ASSUME IInv, [Next]_vars PROVE IInv'
    OBVIOUS
  <2>1. CASE ServerCrashes
    BY <2>1, DiesKeeps DEF ServerCrashes, kernel, master
  <2>2. CASE Deliver \/ StopContainer
    BY <2>2, ForgetKeeps DEF Deliver, StopContainer, master
  <2>3. CASE UNCHANGED vars
    BY <2>3 DEF vars, IInv, TypeOK, BatchIsOpen, ExitIsKept, AckedIsForgotten, ReportIsOnItsWay
  <2>4. QED
    BY <2>1, <2>2, <2>3, TaskExitsKeeps, ChildStopsKeeps, PollKeeps, HandleSignalKeeps,
       ReapZombiesKeeps, ReportZombiesKeeps, SpawnServerKeeps, RecvExitEventsKeeps,
       AckExitStatusKeeps DEF Next
<1>2. QED
  BY InitIInv, <1>1, PTL DEF Spec

(* The master never waits for the acknowledgement of a zombie whose report *)
(* is lost: as long as the server lives it is in a pipe or in the queue.   *)
THEOREM ReportsAreTracked == Spec => []ReportIsOnItsWay
<1>1. IInv => ReportIsOnItsWay
  BY DEF IInv
<1>2. QED
  BY <1>1, Invariance, PTL

(* ReapZombies never takes a pid that a container still waits for,         *)
(* whenever and however often the server crashes, and although exits are   *)
(* acknowledged that no container has got.                                 *)
THEOREM NoExitIsLost == Spec => []ExitIsKept
<1>1. IInv => ExitIsKept
  BY DEF IInv
<1>2. QED
  BY <1>1, Invariance, PTL
=============================================================================
