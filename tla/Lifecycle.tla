----------------------------- MODULE Lifecycle ------------------------------
(***************************************************************************)
(* The life cycle of the containers of a tree (src/src/container.cpp):     *)
(* create, start (with start of stopped parents), stop, pause, resume,     *)
(* respawn, destroy, and the exit and respawn events.                      *)
(*                                                                         *)
(* Requests run in client threads, events in the one event worker.  Each   *)
(* works under the action lock of one container; the lock itself is        *)
(* ActionLock, and here a thread simply owns a container as in TreeMutex.  *)
(* A handler is cut where it gives the lock up, or downgrades it to wait   *)
(* for tasks: in between nobody else may touch its subtree or ancestors.   *)
(*                                                                         *)
(* The tree is one record, because a handler is a sequence of updates of   *)
(* many containers, each of which looks at the result of the previous one. *)
(***************************************************************************)
EXTENDS Integers, FiniteSets, SequencesExt

CONSTANTS
  Container,     \* container objects, the root included
  NoContainer,
  Root,          \* the root container "/", always meta
  Parent,        \* Parent[Root] = NoContainer
  Above,         \* proper ancestors
  PostOrder,     \* the objects of a subtree, children first
  IsMeta,        \* containers without a command: they have no task
  RootOnLoop,    \* containers whose root is still the file of a loop image
  AutoRespawn,   \* containers with respawn=true
  RespawnLimit,  \* max_respawns
  Pressurize,    \* containers with pressurize_on_death=true
  StartParents,  \* config: container.enable_start_parents
  Aging,         \* whether dead containers get past their aging_time
  Faults,        \* what may fail: subset of {"start", "save", "free"}
  Existing,      \* containers that exist from the beginning
  Restored,      \* those of them that a restart of the server found running
  Client,        \* request threads
  Worker,        \* the event worker thread
  Ops,           \* requests the clients make
  MaxRequests,   \* bound: requests over the whole run
  Pid,           \* pids of the kernel
  MaxDue         \* bound: queued respawn events of one container

ASSUME TreeIsClosed ==
  /\ Root \in Container /\ NoContainer \notin Container
  /\ \A c \in Container :
       /\ (Parent[c] = NoContainer) <=> (c = Root)
       /\ c # Root => Above[c] = Above[Parent[c]] \cup {Parent[c]}
       /\ ToSet(PostOrder[c]) = {d \in Container : d = c \/ c \in Above[d]}
       /\ \A i, j \in DOMAIN PostOrder[c] :
            PostOrder[c][i] \in Above[PostOrder[c][j]] => i > j

VARIABLES
  w,        \* the containers and the kernel's view of their tasks
  job,      \* what each thread is doing
  requests  \* requests made so far

vars == <<w, job, requests>>

Thread == Client \cup {Worker}

State == {"Absent", "Stopped", "Starting", "Running", "Stopping", "Paused",
          "Dead", "Meta", "Respawning", "Destroyed"}

(* A job: the operation, the place in it, the container that is locked or  *)
(* to be locked, the pid of an exit event, and a list of containers (those *)
(* left to do, or the frames of StartParents).  A thread at "lock" waits   *)
(* for the action lock, one at "image" has given it up to make a volume of *)
(* its loop image; at the other places it owns it: shared at "down",       *)
(* exclusively elsewhere.                                                  *)
Place == {"idle", "lock", "image", "held", "down", "killed", "unregister"}

Idle == [op |-> "none", at |-> "idle", ct |-> NoContainer, pid |-> 0, todo |-> <<>>]

-----------------------------------------------------------------------------
(* Reading the tree.                                                       *)

Registered(x, c) == c \in x.index
IsRunningOrMeta(x, c) == x.state[c] \in {"Running", "Meta"}
IsParentFreezing(x, c) == \E a \in Above[c] : x.frozen[a]
IsFrozen(x, c) == x.frozen[c] \/ IsParentFreezing(x, c)
Subtree(x, c) == SelectSeq(PostOrder[c], LAMBDA d : d = c \/ Registered(x, d))

(* Pids are only compared for equality, so it does not matter which of the *)
(* free ones fork returns: the lowest is the one reused first.             *)
Live(x) == {p \in Pid : x.home[p] # NoContainer}
FreePids(x) == Pid \ (Live(x) \cup x.zombie)
LowestFree(x) == CHOOSE p \in FreePids(x) : \A q \in FreePids(x) : p <= q

TypeOK ==
  /\ w.state \in [Container -> State]
  /\ w.index \subseteq Container /\ w.image \subseteq RootOnLoop
  /\ w.raced \subseteq RootOnLoop
  /\ w.running \in [Container -> 0..Cardinality(Container)]
  /\ w.starting \in [Container -> 0..Cardinality(Container)]
  /\ w.pid \in [Container -> Pid \cup {0}]
  /\ w.home \in [Pid -> Container \cup {NoContainer}]
  /\ w.killed \subseteq Live(w) /\ w.zombie \subseteq Pid \ Live(w)
  /\ \A t \in Thread : job[t].at \in Place /\ job[t].ct \in Container \cup {NoContainer}
  /\ \A c \in Container : w.count[c] <= RespawnLimit

(* Updates of one container, applied to a sequence of them in order. *)
ForEach(Update(_, _), x, seq) == FoldLeft(Update, x, seq)

-----------------------------------------------------------------------------
(* SetState and what hangs on it.                                          *)

MayRespawn(x, c) ==
  /\ x.state[c] \in {"Dead", "Respawning"}
  /\ x.state[Parent[c]] \in {"Running", "Meta", "Respawning"}
  /\ RespawnLimit >= 0 => x.count[c] < RespawnLimit

(* The event is only queued when the parent is not respawning itself. *)
ScheduleRespawn(x, c) ==
  IF MayRespawn(x, c)
    THEN [x EXCEPT !.state[c] = "Respawning",
                   !.due[c] = @ + IF x.state[Parent[c]] = "Respawning" THEN 0 ELSE 1]
    ELSE x

(* How RunningChildren or StartingChildren of the ancestors change.  The   *)
(* walk to the root is one step: the counters are atomic, so what threads  *)
(* in other subtrees add meanwhile commutes with it, and nobody but        *)
(* UpdateSoftLimit, of which no property speaks, reads them.               *)
Delta(prev, next, s) == IF next = s THEN 1 ELSE IF prev = s THEN -1 ELSE 0
Shift(f, c, n) == [a \in Container |-> f[a] + IF a \in Above[c] THEN n ELSE 0]

(* Mutant: only the entry into Running is counted. *)
SetState_NoDecrement(x, c, next) ==
  IF x.state[c] = next THEN x
  ELSE LET y == [x EXCEPT !.state[c] = next,
                   !.running = Shift(@, c, IF next = "Running" THEN 1 ELSE 0),
                   !.starting = Shift(@, c, Delta(x.state[c], next, "Starting"))]
       IN IF next = "Dead" /\ c \in AutoRespawn THEN ScheduleRespawn(y, c) ELSE y

SetState(x, c, next) ==
  IF x.state[c] = next THEN x
  ELSE LET y == [x EXCEPT !.state[c] = next,
                   !.running = Shift(@, c, Delta(x.state[c], next, "Running")),
                   !.starting = Shift(@, c, Delta(x.state[c], next, "Starting"))]
       IN IF next = "Dead" /\ c \in AutoRespawn THEN ScheduleRespawn(y, c) ELSE y

RunState(c) == IF c \in IsMeta THEN "Meta" ELSE "Running"

(* A tiny soft limit for dead and hollow meta containers, up the branch. *)
Hollow(x, c) == x.state[c] = "Meta" /\ x.running[c] = 0 /\ x.starting[c] = 0

UpdateSoftLimit(x, c) ==
  [x EXCEPT !.soft = [d \in Container |->
     IF d # Root /\ d \in Above[c] \cup {c}
       THEN d \in Pressurize /\ (x.state[d] = "Dead" \/ Hollow(x, d))
       ELSE @[d]]]

(* A killed task dies once it is not frozen, by its own cgroup or one above. *)
Settle(x) ==
  LET dying == {p \in x.killed : ~IsFrozen(x, x.home[p])}
  IN [x EXCEPT !.home = [p \in Pid |-> IF p \in dying THEN NoContainer ELSE @[p]],
               !.killed = @ \ dying, !.zombie = @ \cup dying]

Thaw(x, c) == Settle([x EXCEPT !.frozen[c] = FALSE])

(* SIGKILL to all tasks of the cgroup, which is thawed; but an empty one is *)
(* left as it is.                                                          *)
Terminate(x, c) ==
  LET tasks == {p \in Pid : x.home[p] = c}
  IN IF tasks = {} THEN x ELSE Thaw([x EXCEPT !.killed = @ \cup tasks], c)

ForgetPid(x, c) == [x EXCEPT !.pid[c] = 0]

(* The cgroup goes away, and with it the freezer's state. *)
FreeResources(x, c) == Thaw(x, c)

Reap(x, c) == UpdateSoftLimit(SetState(ForgetPid(Terminate(x, c), c), c, "Dead"), c)

(* Mutant: only the container that exited is reaped. *)
Exit_SelfOnly(x, c) == IF x.state[c] = "Stopped" THEN x ELSE Reap(x, c)

Exit(x, c) ==
  LET ReapLive(y, d) == IF y.state[d] \in {"Stopped", "Dead"} THEN y ELSE Reap(y, d)
  IN IF x.state[c] = "Stopped" THEN x ELSE ForEach(ReapLive, x, Subtree(x, c))

-----------------------------------------------------------------------------
(* The two halves of Stop.                                                 *)

StopKill(x, c) ==
  LET Kill(y, d) ==
        IF y.state[d] = "Stopped" THEN y
        ELSE Thaw(Terminate(SetState(y, d, "Stopping"), d), d)
  IN ForEach(Kill, x, Subtree(x, c))

Release(x, d) ==
  IF x.state[d] = "Stopped" THEN x
  ELSE SetState(ForgetPid(FreeResources(UpdateSoftLimit(x, d), d), d), d, "Stopped")

(* FreeResources fails: the container is left dead, and Stop gives up. *)
ReleaseFails(x, d) == SetState(ForgetPid(UpdateSoftLimit(x, d), d), d, "Dead")

(* The possible results of the second half, with the error it returns.     *)
(* It may stop early: at an error of FreeResources or of Save.             *)
StopResults(x, seq) ==
  LET Fails(f) == {i \in DOMAIN seq : f \in Faults /\ x.state[seq[i]] # "Stopped"}
      First(k) == ForEach(Release, x, SubSeq(seq, 1, k))
  IN {[tree |-> First(Len(seq)), ok |-> TRUE]} \cup
     {[tree |-> First(k), ok |-> FALSE] : k \in Fails("save")} \cup
     {[tree |-> ReleaseFails(First(k - 1), seq[k]), ok |-> FALSE] : k \in Fails("free")}

(* Stop: the tree can refuse it before anything happens. *)
StopRefused(x, c) == x.state[c] = "Stopped" \/ IsParentFreezing(x, c)

-----------------------------------------------------------------------------
(* Threads and their locks.                                                *)

Owns(t) == job[t].at \notin {"idle", "lock", "image"}
Excludes(t) == Owns(t) /\ job[t].at # "down"
Apart(c, d) == c # d /\ c \notin Above[d] /\ d \notin Above[c]

LockIsFree(t) == \A u \in Thread \ {t} : Owns(u) => Apart(job[u].ct, job[t].ct)

At(t, op, place) == job[t].op = op /\ job[t].at = place
Go(t, j) == job' = [job EXCEPT ![t] = j] /\ UNCHANGED requests
Done(t) == Go(t, Idle)

(* The tree becomes x, if the bound on queued events admits it. *)
Commit(x) == (\A c \in Container : x.due[c] <= MaxDue) /\ w' = x

(* WriteContainer finds the container by name ... *)
Request(t) ==
  /\ t \in Client /\ job[t].at = "idle" /\ requests < MaxRequests
  /\ \E op \in Ops, c \in Container \ {Root} :
       /\ Registered(w, c)
       /\ job' = [job EXCEPT ![t] = [Idle EXCEPT !.op = op, !.at = "lock", !.ct = c]]
  /\ requests' = requests + 1
  /\ UNCHANGED w

(* ... and locks it; LockAction fails if it was destroyed meanwhile, and   *)
(* then the exit event that waited is acknowledged anyway.                 *)
Lock(t) ==
  /\ job[t].at = "lock"
  /\ IF w.state[job[t].ct] = "Destroyed"
       THEN /\ w' = [w EXCEPT !.zombie = @ \ {job[t].pid}]
            /\ Done(t)
       ELSE /\ LockIsFree(t)
            /\ Go(t, [job[t] EXCEPT !.at = "held"])
            /\ UNCHANGED w

(* Create runs in one critical section, with the parent's lock shared. *)
Create(c) ==
  /\ w.state[c] = "Absent"
  /\ Registered(w, Parent[c])
  /\ \A t \in Thread : Excludes(t) => job[t].ct \notin Above[c]
  /\ w' = [w EXCEPT !.state[c] = "Stopped", !.index = @ \cup {c}]
  /\ UNCHANGED <<job, requests>>

-----------------------------------------------------------------------------
(* Start.  job[t].todo holds the containers whose StartParents is on the   *)
(* call stack, the innermost last.                                         *)

(* The topmost ancestor of f that has to be started first. *)
Target(x, f) ==
  CHOOSE a \in Above[f] \ {Root} :
    /\ IsRunningOrMeta(x, Parent[a])
    /\ \A b \in Above[f] : a \in Above[b] => ~IsRunningOrMeta(x, Parent[b])

(* Mutant: StartParents does not see that it has reached the parent. *)
AfterStart_Again(x, j) ==
  IF j.todo = <<>> THEN Idle
  ELSE [j EXCEPT !.at = "lock", !.ct = Parent[Last(j.todo)]]

(* The job of a thread when Start(c) has returned OK, or c was running:    *)
(* StartParents gives the lock up, and locks the next container to start   *)
(* or, after the parent, the container it came from.                       *)
AfterStart(x, j) ==
  IF j.todo = <<>> THEN Idle
  ELSE LET f == Last(j.todo)
       IN [j EXCEPT !.at = "lock", !.ct = IF @ = Parent[f] THEN f ELSE Target(x, f)]

(* What can fail before there is a task.  PrepareStart looks at properties *)
(* and permissions.  Resources need those of the parent (working directory, *)
(* cgroup), even if that parent is only dead.                              *)
PrepareStartFails == "start" \in Faults
PrepareResourcesFails(c) ==
  "start" \in Faults \/ w.state[Parent[c]] \in {"Stopped", "Destroyed"}
PrepareRuntimeResourcesFails == "start" \in Faults

(* The error path of Start once there are resources. *)
Undo(x, c) == SetState(FreeResources(UpdateSoftLimit(x, c), c), c, "Stopped")

(* Start from the end of PrepareStart, in the tree y, to the point where   *)
(* the lock is downgraded.                                                 *)
StartPrepared(t, c, frames, y) ==
  LET x == UpdateSoftLimit(SetState(y, c, "Starting"), c)
  IN \/ /\ y.state[Parent[c]] \notin {"Stopped", "Destroyed"}
        /\ Commit(x)
        /\ Go(t, [job[t] EXCEPT !.at = "down", !.ct = c, !.todo = frames])
     \/ /\ PrepareStartFails \/ PrepareResourcesFails(c)
        /\ Commit(SetState(y, c, "Stopped"))
        /\ Done(t)
     \/ /\ PrepareRuntimeResourcesFails
        /\ Commit(Undo(x, c))
        /\ Done(t)

(* Start once the parents are up.  For a root that is a file PrepareStart  *)
(* gives the lock up, and makes a loop volume of it.                       *)
StartBegin(t, c, frames) ==
  \/ c \notin w.image /\ StartPrepared(t, c, frames, w)
  \/ /\ c \in w.image
     /\ \/ Go(t, [job[t] EXCEPT !.at = "image", !.ct = c, !.todo = frames])
        \/ PrepareStartFails /\ Done(t)
     /\ UNCHANGED w

(* Meanwhile others may have started, stopped or destroyed the container,  *)
(* or its parents.  Nobody looks: what PrepareStart checked under its first *)
(* lock may no longer hold when Start goes on, and an error writes Stopped *)
(* over any state.  A history field records the containers it happened to. *)
Overtaken(x, c) ==
  \/ x.state[c] # "Stopped" \/ ~Registered(x, c)
  \/ ~IsRunningOrMeta(x, Parent[c]) \/ IsFrozen(x, Parent[c])
MarkRaced(x, c) == IF Overtaken(x, c) THEN [x EXCEPT !.raced = @ \cup {c}] ELSE x

(* The volume is there, or there is an error: of TVolume::Create, or of    *)
(* LockContainer, because the container is destroyed.                      *)
StartWithImage(t) ==
  LET c == job[t].ct
      y == MarkRaced(w, c)
  IN /\ At(t, "start", "image")
     /\ \/ /\ PrepareStartFails \/ w.state[c] = "Destroyed"
           /\ Commit(SetState(y, c, "Stopped"))
           /\ Done(t)
        \/ /\ w.state[c] # "Destroyed" /\ LockIsFree(t)
           /\ StartPrepared(t, c, job[t].todo, [y EXCEPT !.image = @ \ {c}])

(* Start is called: it is the request's own container, or one that         *)
(* StartParents has just locked and found not running.                     *)
StartEnter(t) ==
  LET c == job[t].ct
      frames == job[t].todo
  IN /\ At(t, "start", "held")
     /\ frames # <<>> => Last(frames) # c /\ ~IsRunningOrMeta(w, c)
     /\ \/ /\ \/ w.state[c] # "Stopped"
              \/ IsFrozen(w, Parent[c])
              \/ ~IsRunningOrMeta(w, Parent[c]) /\ ~StartParents
           /\ UNCHANGED w
           /\ Done(t)
        \/ /\ w.state[c] = "Stopped" /\ ~IsFrozen(w, Parent[c])
           /\ \/ IsRunningOrMeta(w, Parent[c]) /\ StartBegin(t, c, frames)
              \/ /\ ~IsRunningOrMeta(w, Parent[c]) /\ StartParents
                 /\ Go(t, [job[t] EXCEPT !.at = "lock", !.ct = Target(w, c),
                                        !.todo = Append(frames, c)])
                 /\ UNCHANGED w

(* StartParents locked an ancestor that somebody else has started. *)
StartSkip(t) ==
  LET j == job[t]
  IN /\ At(t, "start", "held")
     /\ j.todo # <<>> /\ Last(j.todo) # j.ct /\ IsRunningOrMeta(w, j.ct)
     /\ Go(t, AfterStart(w, j))
     /\ UNCHANGED w

(* StartParents is through, and the container is locked again: it may have *)
(* been started by others, but the parents are not looked at once more.    *)
StartRelocked(t) ==
  LET j == job[t]
      frames == Front(j.todo)
  IN /\ At(t, "start", "held")
     /\ j.todo # <<>> /\ Last(j.todo) = j.ct
     /\ CASE w.state[j.ct] = "Stopped" -> StartBegin(t, j.ct, frames)
          [] IsRunningOrMeta(w, j.ct) -> /\ Go(t, AfterStart(w, [j EXCEPT !.todo = frames]))
                                         /\ UNCHANGED w
          [] OTHER -> Done(t) /\ UNCHANGED w

(* The result of StartTask: a task for all but meta containers.  The child *)
(* moves itself into the freezer cgroup before it reports: if that is      *)
(* frozen, the start times out, but then waits for the child to die.       *)
CanFork(x, c) == c \in IsMeta \/ (FreePids(x) # {} /\ ~IsFrozen(x, c))
ForkFails(x, c) == "start" \in Faults \/ (c \notin IsMeta /\ FreePids(x) = {})
Started(x, c) ==
  SetState(IF c \in IsMeta THEN x
           ELSE [x EXCEPT !.pid[c] = LowestFree(x), !.home[LowestFree(x)] = c],
           c, RunState(c))

StartFinish(t) ==
  LET c == job[t].ct
  IN /\ At(t, "start", "down")
     /\ \/ /\ CanFork(w, c)
           /\ Commit(Started(w, c))
           /\ Go(t, AfterStart(Started(w, c), job[t]))
        \/ /\ CanFork(w, c) /\ "save" \in Faults
           /\ Commit(Undo(Reap(Started(w, c), c), c))
           /\ Done(t)
        \/ /\ ForkFails(w, c)
           /\ Commit(Undo(Terminate(SetState(w, c, "Stopping"), c), c))
           /\ Done(t)

-----------------------------------------------------------------------------
(* Stop, Destroy, Pause, Resume.                                           *)

(* With a timeout Stop downgrades the lock while it waits for the tasks;   *)
(* without one, and inside Destroy, it keeps it.                           *)
Stop(t) ==
  LET c == job[t].ct
  IN /\ At(t, "stop", "held")
     /\ \/ StopRefused(w, c) /\ Done(t) /\ UNCHANGED w
        \/ /\ ~StopRefused(w, c)
           /\ Commit(StopKill(w, c))
           /\ \E p \in {"down", "killed"} :
                Go(t, [job[t] EXCEPT !.at = p, !.todo = Subtree(w, c)])

(* DestroyContainer, and DestroyAgedContainer, which looks at the state    *)
(* again once it has the lock.                                             *)
Destroy(t) ==
  LET c == job[t].ct
  IN /\ At(t, "destroy", "held") \/ At(t, "aged", "held")
     /\ \/ /\ \/ IsParentFreezing(w, c) /\ w.state[c] # "Stopped"
              \/ job[t].op = "aged" /\ w.state[c] # "Dead"
           /\ Done(t) /\ UNCHANGED w
        \/ /\ job[t].op = "destroy" /\ w.state[c] = "Stopped"
           /\ Go(t, [job[t] EXCEPT !.at = "unregister", !.todo = Subtree(w, c)])
           /\ UNCHANGED w
        \/ /\ ~StopRefused(w, c)
           /\ job[t].op = "aged" => w.state[c] = "Dead"
           /\ Commit(StopKill(w, c))
           /\ Go(t, [job[t] EXCEPT !.at = "killed", !.todo = Subtree(w, c)])

(* The second half of Stop.  If it fails, the rest of the subtree is left  *)
(* as it is, and Destroy stops there too.                                  *)
StopFinish(t) ==
  /\ job[t].op \in {"stop", "destroy", "aged"} /\ job[t].at \in {"down", "killed"}
  /\ \E r \in StopResults(w, job[t].todo) :
       /\ Commit(r.tree)
       /\ IF r.ok /\ job[t].op # "stop"
            THEN Go(t, [job[t] EXCEPT !.at = "unregister",
                                      !.todo = Subtree(r.tree, job[t].ct)])
            ELSE Done(t)

(* Unregister, children first, each in a critical section of its own. *)
Unregister(t) ==
  /\ job[t].at = "unregister"
  /\ w' = [w EXCEPT !.state[Head(job[t].todo)] = "Destroyed",
                    !.index = @ \ {Head(job[t].todo)}]
  /\ IF Len(job[t].todo) = 1 THEN Done(t)
     ELSE Go(t, [job[t] EXCEPT !.todo = Tail(@)])

Pause(t) ==
  LET c == job[t].ct
      Stall(x, d) == IF IsRunningOrMeta(x, d) THEN SetState(x, d, "Paused") ELSE x
  IN /\ At(t, "pause", "held")
     /\ IF IsRunningOrMeta(w, c)
          THEN Commit(ForEach(Stall, [w EXCEPT !.frozen[c] = TRUE], Subtree(w, c)))
          ELSE UNCHANGED w
     /\ Done(t)

(* Mutant: containers below that were paused on their own stay frozen. *)
Resume_SelfOnly(t) ==
  LET c == job[t].ct
      Unstall(x, d) == IF x.state[d] = "Paused" THEN SetState(x, d, RunState(d)) ELSE x
  IN /\ At(t, "resume", "held")
     /\ IF IsParentFreezing(w, c) \/ ~w.frozen[c] THEN UNCHANGED w
        ELSE Commit(ForEach(Unstall, Thaw(w, c), Subtree(w, c)))
     /\ Done(t)

Resume(t) ==
  LET c == job[t].ct
      Unstall(x, d) == LET y == Thaw(x, d)
                       IN IF y.state[d] = "Paused" THEN SetState(y, d, RunState(d)) ELSE y
  IN /\ At(t, "resume", "held")
     /\ IF IsParentFreezing(w, c) \/ ~w.frozen[c] THEN UNCHANGED w
        ELSE Commit(ForEach(Unstall, w, Subtree(w, c)))
     /\ Done(t)

-----------------------------------------------------------------------------
(* Respawn, and the events.                                                *)

(* A failed attempt ends in Dead, where SetState may schedule the next. *)
RespawnFails(x, c) == SetState(x, c, "Dead")

Respawn(t) ==
  LET c == job[t].ct
      x == [w EXCEPT !.count[c] = @ + 1]
  IN /\ At(t, "respawn", "held")
     /\ \/ /\ ~MayRespawn(w, c)
           /\ Commit(IF w.state[c] = "Respawning" THEN SetState(w, c, "Dead") ELSE w)
           /\ Done(t)
        \/ /\ MayRespawn(w, c) /\ w.state[Parent[c]] = "Respawning"
           /\ Commit(SetState(w, c, "Respawning"))
           /\ Done(t)
        \/ /\ MayRespawn(w, c) /\ w.state[Parent[c]] # "Respawning"
           /\ \/ /\ Commit(UpdateSoftLimit(x, c))
                 /\ Go(t, [job[t] EXCEPT !.at = "down"])
              \/ /\ PrepareStartFails
                 /\ Commit(RespawnFails(x, c))
                 /\ Done(t)

(* Mutant: nobody tells the children. *)
RespawnFinish_NoWake(t) ==
  LET c == job[t].ct
  IN /\ At(t, "respawn", "down")
     /\ \/ CanFork(w, c) /\ Commit(Started(w, c))
        \/ ForkFails(w, c) /\ Commit(RespawnFails(UpdateSoftLimit(w, c), c))
     /\ Done(t)

(* When the parent is back, the children that were waiting for it are      *)
(* scheduled, and so are dead ones with respawn=true.                      *)
RespawnFinish(t) ==
  LET c == job[t].ct
      Wake(x, d) == IF Parent[d] = c /\ (x.state[d] = "Respawning" \/ d \in AutoRespawn)
                      THEN ScheduleRespawn(x, d) ELSE x
  IN /\ At(t, "respawn", "down")
     /\ \/ /\ CanFork(w, c)
           /\ Commit(ForEach(Wake, Started(w, c), Subtree(w, c)))
        \/ /\ CanFork(w, c) /\ "save" \in Faults
           /\ Commit(RespawnFails(UpdateSoftLimit(Reap(Started(w, c), c), c), c))
        \/ /\ ForkFails(w, c)
           /\ Commit(RespawnFails(UpdateSoftLimit(w, c), c))
     /\ Done(t)

(* The event worker takes a respawn event that is due. *)
TakeRespawn ==
  /\ job[Worker].at = "idle"
  /\ \E c \in Container :
       /\ w.due[c] > 0
       /\ w' = [w EXCEPT !.due[c] = @ - 1]
       /\ Go(Worker, [Idle EXCEPT !.op = "respawn", !.at = "lock", !.ct = c])

(* Mutant: the event is dropped when the container is locked. *)
TakeExit_Drop ==
  /\ job[Worker].at = "idle"
  /\ \E p \in w.zombie :
       \/ \E c \in Container :
            /\ w.pid[c] = p
            /\ \A t \in Client : Owns(t) => Apart(job[t].ct, c)
            /\ Go(Worker, [Idle EXCEPT !.op = "exit", !.at = "held", !.ct = c, !.pid = p])
            /\ UNCHANGED w
       \/ /\ \A c \in Container : w.pid[c] = p =>
               \E t \in Client : Owns(t) /\ ~Apart(job[t].ct, c)
          /\ w' = [w EXCEPT !.zombie = @ \ {p}]
          /\ UNCHANGED <<job, requests>>

(* It takes an exit event, and looks its container up by pid. *)
TakeExit ==
  /\ job[Worker].at = "idle"
  /\ \E p \in w.zombie :
       \/ \E c \in Container :
            /\ Registered(w, c) /\ w.pid[c] = p
            /\ Go(Worker, [Idle EXCEPT !.op = "exit", !.at = "lock", !.ct = c, !.pid = p])
            /\ UNCHANGED w
       \/ /\ \A c \in w.index : w.pid[c] # p
          /\ w' = [w EXCEPT !.zombie = @ \ {p}]
          /\ UNCHANGED <<job, requests>>

(* RotateLogs found a dead container past its aging_time. *)
TakeAged ==
  /\ Aging
  /\ job[Worker].at = "idle"
  /\ \E c \in Container :
       /\ Registered(w, c) /\ w.state[c] = "Dead"
       /\ Go(Worker, [Idle EXCEPT !.op = "aged", !.at = "lock", !.ct = c])
  /\ UNCHANGED w

(* Mutant: the pid is not compared again once the lock is held. *)
HandleExit_NoRecheck(t) ==
  LET j == job[t]
  IN /\ At(t, "exit", "held")
     /\ Commit([Exit(w, j.ct) EXCEPT !.zombie = @ \ {j.pid}])
     /\ Done(t)

(* The container is locked: if the pid is still its own, it exits.  Only   *)
(* then is the exit acknowledged, and the pid free again.                  *)
HandleExit(t) ==
  LET j == job[t]
      x == IF w.pid[j.ct] = j.pid THEN Exit(w, j.ct) ELSE w
  IN /\ At(t, "exit", "held")
     /\ Commit([x EXCEPT !.zombie = @ \ {j.pid}])
     /\ Done(t)

(* A task dies by itself.  A frozen one cannot. *)
TaskDies ==
  /\ \E c \in Container :
       /\ w.pid[c] \in Live(w) /\ ~IsFrozen(w, c)
       /\ w' = [w EXCEPT !.home[w.pid[c]] = NoContainer, !.zombie = @ \cup {w.pid[c]}]
  /\ UNCHANGED <<job, requests>>

(* The tree as a restart of the server has found it. *)
Blank ==
  [state    |-> [c \in Container |->
                   IF c = Root THEN "Meta"
                   ELSE IF c \in Existing THEN "Stopped" ELSE "Absent"],
   index    |-> {Root} \cup Existing,         \* Containers, by name
   running  |-> [c \in Container |-> 0],      \* RunningChildren
   starting |-> [c \in Container |-> 0],      \* StartingChildren
   frozen   |-> [c \in Container |-> FALSE],  \* self-freezing cgroup
   soft     |-> [c \in Container |-> FALSE],  \* tiny MemSoftLimit set
   count    |-> [c \in Container |-> 0],      \* RespawnCount
   due      |-> [c \in Container |-> 0],      \* Respawn events queued
   image    |-> RootOnLoop,                   \* root not yet a volume
   raced    |-> {},                           \* history: see Overtaken
   pid      |-> [c \in Container |-> 0],      \* WaitTask.Pid
   home     |-> [p \in Pid |-> NoContainer],  \* freezer cgroup of a task
   killed   |-> {},                           \* SIGKILL pending: frozen
   zombie   |-> {}]                           \* pids not yet acknowledged

Init ==
  /\ w = ForEach(Started, Blank, Restored)
  /\ job = [t \in Thread |-> Idle]
  /\ requests = 0

Step(t) ==
  \/ Request(t) \/ Lock(t)
  \/ StartEnter(t) \/ StartSkip(t) \/ StartRelocked(t) \/ StartWithImage(t)
  \/ StartFinish(t)
  \/ Stop(t) \/ Destroy(t) \/ StopFinish(t) \/ Unregister(t)
  \/ Pause(t) \/ Resume(t)
  \/ Respawn(t) \/ RespawnFinish(t) \/ HandleExit(t)

Next ==
  \/ \E t \in Thread : Step(t)
  \/ \E c \in Container : Create(c)
  \/ TakeRespawn \/ TakeExit \/ TakeAged \/ TaskDies

Spec == Init /\ [][Next]_vars

(* Whether a thread can go on: one that waits for the lock, or for a task  *)
(* that starts in a frozen cgroup, cannot.  This is ENABLED of its step.   *)
CanGoOn(t) ==
  LET c == job[t].ct
  IN CASE job[t].at = "idle" -> FALSE
       [] job[t].at = "lock" -> w.state[c] = "Destroyed" \/ LockIsFree(t)
       [] job[t].at = "image" -> \/ w.state[c] = "Destroyed" \/ LockIsFree(t)
                                 \/ PrepareStartFails
       [] job[t].at = "down" /\ job[t].op # "stop" -> CanFork(w, c) \/ ForkFails(w, c)
       [] OTHER -> TRUE

EventIsQueued == w.zombie # {} \/ \E c \in Container : w.due[c] > 0

(* Weak fairness of the threads' steps and of the worker's loop, with      *)
(* ENABLED written out.  Nobody has to make requests.                      *)
Fairness ==
  /\ \A t \in Thread : []<>~CanGoOn(t) \/ []<><<Step(t)>>_vars
  /\ \/ []<>~(job[Worker].at = "idle" /\ EventIsQueued)
     \/ []<><<TakeRespawn \/ TakeExit>>_vars

FairSpec == Spec /\ Fairness

(* The same with ENABLED left to the tool, for small instances. *)
WeakFairSpec ==
  /\ Spec
  /\ \A t \in Thread : WF_vars(Step(t))
  /\ WF_vars(TakeRespawn \/ TakeExit)

-----------------------------------------------------------------------------
(* Properties.                                                             *)

CountBelow(c, s) == Cardinality({d \in Container : c \in Above[d] /\ w.state[d] = s})

(* The containers that a start with a loop image has spoiled (Overtaken):   *)
(* those it happened to, and what is below them.                           *)
Spoiled(c) == (Above[c] \cup {c}) \cap w.raced # {}

(* RunningChildren and StartingChildren are never counted, only moved by   *)
(* SetState from the state before and the state after.  They do not drift  *)
(* from the number of descendants in that state: not where ScheduleRespawn *)
(* writes State behind SetState's back, not where Stop gives up half-way   *)
(* through a subtree, and not where a start that was overtaken writes its  *)
(* state over any other, without the lock.                                 *)
CountersMatch ==
  \A c \in Container : /\ w.running[c] = CountBelow(c, "Running")
                       /\ w.starting[c] = CountBelow(c, "Starting")

(* A container only lives under a living parent: its start and its parent's *)
(* stop, death or respawn cannot overlap, although Start waits with a      *)
(* downgraded lock; and not even where PrepareStart gives the lock up for  *)
(* its loop image, unless the parent has changed in just that time.        *)
UnderLiveParent ==
  \A c \in Container \ {Root} :
    w.state[c] \in {"Starting", "Running", "Meta", "Paused"} /\ ~Spoiled(c)
      => w.state[Parent[c]] \in {"Running", "Meta", "Paused"}

(* The state agrees with the freezer: what is paused is frozen, itself or  *)
(* with an ancestor, and nothing that is frozen claims to run, whatever    *)
(* was paused and resumed above and below it; except below a start that    *)
(* was overtaken.                                                          *)
PausedIsFrozen ==
  \A c \in Container : ~Spoiled(c) =>
    /\ w.state[c] = "Paused" => IsFrozen(w, c)
    /\ w.state[c] \in {"Starting", "Running", "Meta"} => ~IsFrozen(w, c)

(* Porto knows every task it started: no task that has not been killed     *)
(* outlives its container's stop or death, no two containers claim one     *)
(* pid, and a container that claims to run has a task, or an exit event is *)
(* still to come.  A start that was overtaken may have lost the first task *)
(* of its container, or have given the container up with its task; and the *)
(* pid that it still claims may be that of another container by now, whose *)
(* exit event then goes to the wrong one.                                  *)
TasksMatch ==
  /\ \A p \in Live(w) \ w.killed : ~Spoiled(w.home[p]) =>
       w.pid[w.home[p]] = p /\ w.state[w.home[p]] \in {"Running", "Paused"}
  /\ w.raced = {} =>
       /\ \A c, d \in Container : c # d /\ w.pid[c] = w.pid[d] => w.pid[c] = 0
       /\ \A c \in Container \ IsMeta :
            w.state[c] \in {"Running", "Paused"} => w.pid[c] \in Live(w) \cup w.zombie

(* A container that waits to be respawned under a running parent has an    *)
(* event queued or being handled, also if it had to wait for that parent   *)
(* to respawn first.                                                       *)
RespawnIsScheduled ==
  \A c \in Container \ {Root} :
    w.state[c] = "Respawning" /\ IsRunningOrMeta(w, Parent[c]) =>
      \/ w.due[c] > 0
      \/ \E t \in Thread : job[t].op = "respawn" /\ job[t].ct = c

(* A running container is only declared dead when its own task or that of  *)
(* an ancestor has exited: a late exit event of an earlier task, which     *)
(* found the container by pid before a stop and a new start, is harmless.  *)
DeathHasCause ==
  [][\A c \in Container :
       w.state[c] \in {"Running", "Paused"} /\ w'.state[c] \in {"Dead", "Respawning"}
         => \E a \in Above[c] \cup {c} : w.pid[a] \in w.zombie]_vars

(* A container whose task has exited does not stay "running" for ever,     *)
(* even if the event worker finds it locked.                               *)
ExitIsNoticed ==
  \A c \in Container :
    w.state[c] = "Running" /\ w.pid[c] \in w.zombie ~> w.state[c] # "Running"

(* Every request comes to its end: nobody waits for ever for a lock, in    *)
(* particular not StartParents, which takes them one after the other from  *)
(* the top, nor who waits for a container that gets destroyed.             *)
RequestsEnd ==
  \A t \in Client : job[t].at # "idle" ~> job[t].at = "idle"

-----------------------------------------------------------------------------
(* What one would expect, or the documentation says, and the code does not *)
(* keep.                                                                   *)

(* A start with a loop image may overtake another one, and lose its task.   *)
EveryTaskIsKnown ==
  \A p \in Live(w) \ w.killed : w.pid[w.home[p]] = p

(* doc/porto.md:77, "respawning - dead and will be started again": a       *)
(* container does not stay respawning for ever.                            *)
RespawnEnds ==
  \A c \in Container : w.state[c] = "Respawning" ~> w.state[c] # "Respawning"
=============================================================================
