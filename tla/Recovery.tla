------------------------------ MODULE Recovery ------------------------------
(***************************************************************************)
(* What survives a crash of portod, and how a restarted portod puts the    *)
(* containers together again (src/src/container.cpp: Create, Start, Stop,  *)
(* Pause, Resume, Respawn, Exit, Destroy, Save, Load, Restore, SyncState;  *)
(* src/src/server.cpp: RestoreContainers, TRestoreWorker; kvalue.cpp).     *)
(*                                                                         *)
(* Three things hold the truth about a container: the object in memory,    *)
(* its key-value node, and the kernel (freezer cgroup, tasks, zombies).    *)
(* A crash takes the first and keeps the other two, so a handler is cut    *)
(* into steps that each make at most one lasting change; what it does to   *)
(* memory on the way belongs to the same step.  The locks of a tree let    *)
(* one handler at a time work on it (see Lifecycle), so there is one job.  *)
(***************************************************************************)
EXTENDS Integers, FiniteSets, SequencesExt

CONSTANTS
  Container,    \* names of containers, the root excluded
  Root,
  Parent,       \* the parent's name, Root for the top level
  PostOrder,    \* the names of a subtree, children first
  IsMeta,       \* containers without a command
  Isolate,      \* containers with isolate=true: a meta among them has a task
  AutoRespawn,  \* containers with respawn=true
  Existing,     \* containers that exist from the beginning
  Worker,       \* threads of the restore worker
  NoOne,
  MaxId,        \* ids of ContainerIdMap: 1..MaxId, the first is the root's
  MaxPid,       \* pids of the kernel: 1..MaxPid
  Ops,          \* requests the clients make
  PauseTargets, \* containers they ask to pause
  MaxOps,       \* bound: requests
  MaxExits,     \* bound: tasks that exit by themselves
  MaxFaults,    \* bound: failed starts and failed restores
  MaxCrashes    \* bound: crashes

ASSUME NamesFormTree ==
  /\ Root \notin Container /\ NoOne \notin Worker \cup Container
  /\ \A c \in Container :
       /\ Parent[c] \in Container \cup {Root}
       /\ c = Last(PostOrder[c])
       /\ ToSet(PostOrder[c]) = {c} \cup
            UNION {ToSet(PostOrder[d]) : d \in {e \in Container : Parent[e] = c}}

VARIABLES
  phase,     \* "load", "restore", "cleanup", "serve"
  mem,       \* container objects by name: [id, state, pid] or Gone
  used,      \* ContainerIdMap: ids taken
  last,      \* ContainerIdMap: id given last
  job,       \* the handler at work
  kv,        \* key-value nodes by id: [name, state, pid], Torn or Gone
  tmp,       \* ids with a left-over .tmp file
  cg,        \* containers whose freezer cgroup exists
  frozen,    \* ... and is self-freezing
  task,      \* the live tasks in a cgroup
  zombies,   \* tasks the master has not reaped
  rq,        \* the restore worker
  promised,  \* containers whose start was acknowledged and not undone since
  orphans,   \* names of nodes that a restart could not reach
  strays,    \* cgroups that the last restart could not remove
  budget     \* what is left of the bounds

memory == <<mem, used, last, job>>
store  == <<kv, tmp>>
kernel == <<cg, frozen, task, zombies>>
ghost  == <<promised, orphans, strays>>
vars   == <<phase, memory, store, kernel, rq, ghost, budget>>

Id  == 1..MaxId
RootId == 1
Pid == 1..MaxPid
Gone == [state |-> "Gone"]
Torn == [state |-> "Torn"]
Idle == [op |-> "none", at |-> "idle", ct |-> NoOne, todo |-> <<>>, pid |-> 0]

State == {"Stopped", "Starting", "Running", "Stopping", "Paused", "Dead",
          "Meta", "Respawning"}

-----------------------------------------------------------------------------
(* Reading memory and the kernel.                                          *)

Registered(c) == IF c = Root THEN TRUE ELSE mem[c] # Gone
Up(c) == IF c \in IsMeta THEN "Meta" ELSE "Running"
HasTask(c) == c \notin IsMeta \/ c \in Isolate
StateOf(m, c) == IF c = Root THEN "Meta" ELSE m[c].state
Subtree(c) == SelectSeq(PostOrder[c], Registered)
Below == [c \in Container |-> ToSet(PostOrder[c])]
Above == [c \in Container |-> {a \in Container \ {c} : c \in Below[a]}]

IsParentFreezing(c) == Above[c] \cap frozen # {}
IsFrozen(c) == c \in frozen \/ IsParentFreezing(c)

(* SIGKILL for the tasks in the cgroups of S; a frozen parent delays it,   *)
(* and none of the handlers below kills under a frozen parent.             *)
Killed(S) ==
  /\ task' = [c \in Container |-> IF c \in S THEN {} ELSE task[c]]
  /\ zombies' = zombies \cup UNION {task[c] : c \in S}

(* A pid is not given out again while a node or an object still names it. *)
FreePid ==
  Pid \ (UNION {task[c] : c \in Container} \cup zombies
         \cup {kv[i].pid : i \in {j \in Id : kv[j] \notin {Gone, Torn}}}
         \cup {mem[c].pid : c \in {d \in Container : Registered(d)}})

-----------------------------------------------------------------------------
(* ContainerIdMap, TIdMap in util/idmap.hpp: the search starts after the   *)
(* id given last, and wraps unless that one was the first.                 *)

IdAfter(n) == SelectInSeq([i \in Id |-> i], LAMBDA i : i > n /\ i \notin used)

GetId == IF IdAfter(last) = 0 /\ last # RootId THEN IdAfter(0) ELSE IdAfter(last)

-----------------------------------------------------------------------------
(* Save: the properties go to a .tmp file, which is renamed over the node. *)

SavedState(s) == IF s = "Respawning" THEN "Dead" ELSE s

SaveTmp(id) == tmp' = tmp \cup {id} /\ UNCHANGED kv

SaveRename(id, node) ==
  /\ kv' = [kv EXCEPT ![id] = node]
  /\ tmp' = tmp \ {id}

(* Mutant: the pid does not become a property that is saved. *)
Node_NoPid(m, c) == [name |-> c, state |-> SavedState(m.state), pid |-> 0]

Node(m, c) == [name |-> c, state |-> SavedState(m.state), pid |-> m.pid]

-----------------------------------------------------------------------------
(* SetState(Dead), MayRespawn and ScheduleRespawn.                         *)

DeadState(m, c) ==
  IF c \in AutoRespawn /\ StateOf(m, Parent[c]) \in {"Running", "Meta", "Respawning"}
    THEN "Respawning" ELSE "Dead"

(* Handlers.  A request is picked up when the previous job is done. *)

Request(op) ==
  /\ phase = "serve" /\ job = Idle
  /\ op \in Ops /\ budget.ops > 0
  /\ budget' = [budget EXCEPT !.ops = @ - 1]

Event == phase = "serve" /\ job = Idle /\ UNCHANGED budget

Work(op, at, c, todo) == [op |-> op, at |-> at, ct |-> c, todo |-> todo, pid |-> 0]

(* Create: the node is saved before the container is registered. *)
Create(c) ==
  /\ Request("create")
  /\ ~Registered(c) /\ Registered(Parent[c])
  /\ GetId # 0
  /\ used' = used \cup {GetId} /\ last' = GetId
  /\ job' = [Work("create", "rename", c, <<>>) EXCEPT !.pid = GetId]
  /\ SaveTmp(GetId)
  /\ UNCHANGED <<phase, mem, kernel, rq, ghost>>

Created ==
  /\ job.op = "create" /\ job.at = "rename"
  /\ mem' = [mem EXCEPT ![job.ct] = [id |-> job.pid, state |-> "Stopped", pid |-> 0]]
  /\ SaveRename(job.pid, Node([state |-> "Stopped", pid |-> 0], job.ct))
  /\ job' = Idle
  /\ UNCHANGED <<phase, used, last, kernel, rq, ghost, budget>>

(* Start and Respawn: cgroups, then the task, and only then the node. *)
Start(c) ==
  /\ Request("start")
  /\ Registered(c) /\ mem[c].state = "Stopped"
  /\ StateOf(mem, Parent[c]) \in {"Running", "Meta"}
  /\ mem' = [mem EXCEPT ![c].state = "Starting"]
  /\ cg' = cg \cup {c}
  /\ job' = Work("start", "fork", c, <<>>)
  /\ UNCHANGED <<phase, used, last, store, frozen, task, zombies, rq, ghost>>

Respawn(c) ==
  /\ Event
  /\ Registered(c) /\ mem[c].state = "Respawning"
  /\ IF StateOf(mem, Parent[c]) \in {"Running", "Meta"}
       THEN mem' = mem /\ job' = Work("respawn", "fork", c, <<>>)
       ELSE /\ StateOf(mem, Parent[c]) # "Respawning"
            /\ mem' = [mem EXCEPT ![c].state = "Dead"] /\ job' = job
  /\ UNCHANGED <<phase, used, last, store, kernel, rq, ghost>>

StartTask ==
  LET c == job.ct IN
  /\ job.at = "fork"
  /\ \E p \in IF HasTask(c) THEN FreePid ELSE {0} :
       /\ HasTask(c) => \A q \in FreePid : p <= q
       /\ task' = [task EXCEPT ![c] = @ \cup ({p} \ {0})]
       /\ mem' = [mem EXCEPT ![c].state = Up(c), ![c].pid = p]
  /\ job' = [job EXCEPT !.at = "rename"]
  /\ SaveTmp(mem[c].id)
  /\ UNCHANGED <<phase, used, last, cg, frozen, zombies, rq, ghost, budget>>

(* StartTask or the Save after it fails.  In the second case Reap has      *)
(* marked the container dead and tried to save that.  A failed start frees *)
(* the cgroup, a failed respawn leaves the container dead.                 *)
StartFailed ==
  LET c == job.ct IN
  /\ job.op \in {"start", "respawn"} /\ job.at \in {"fork", "rename"}
  /\ budget.faults > 0 /\ budget' = [budget EXCEPT !.faults = @ - 1]
  /\ Killed(IF job.op = "start" THEN Below[c] ELSE {c})
  /\ IF job.op = "start"
       THEN /\ mem' = [mem EXCEPT ![c].state = "Stopped", ![c].pid = 0]
            /\ \/ UNCHANGED kv
               \/ job.at = "rename" /\ kv' = [kv EXCEPT ![mem[c].id].state = "Dead",
                                                        ![mem[c].id].pid = 0]
            /\ tmp' = tmp \ {mem[c].id}
            /\ cg' = cg \ Below[c] /\ frozen' = frozen \ Below[c]
            /\ job' = Idle
       ELSE /\ mem' = [mem EXCEPT ![c].state = DeadState(mem, c), ![c].pid = 0]
            /\ SaveTmp(mem[c].id)
            /\ job' = Work("failed", "rename", c, <<>>)
            /\ UNCHANGED <<cg, frozen>>
  /\ UNCHANGED <<phase, used, last, rq, ghost>>

(* Stop kills the whole subtree first; NextStep then frees one by one. *)
Stop(op, c) ==
  /\ Request(op) /\ op \in {"stop", "destroy"}
  /\ Registered(c) /\ (op = "stop" => mem[c].state # "Stopped")
  /\ mem[c].state # "Stopped" => ~IsParentFreezing(c)
  /\ Killed(ToSet(Subtree(c)))
  /\ frozen' = frozen \ Below[c]
  /\ mem' = [d \in Container |->
               IF d \in Below[c] /\ Registered(d) /\ mem[d].state # "Stopped"
                 THEN [mem[d] EXCEPT !.state = "Stopping"] ELSE mem[d]]
  /\ LET todo == SelectSeq(Subtree(c), LAMBDA d : mem[d].state # "Stopped") IN
     job' = IF todo # <<>> THEN Work(op, "next", c, todo)
                           ELSE Work(op, "unlink", c, Subtree(c))
  /\ promised' = promised \ Below[c]
  /\ UNCHANGED <<phase, used, last, store, cg, rq, orphans, strays>>

Pause(c) ==
  /\ Request("pause")
  /\ Registered(c) /\ mem[c].state \in {"Running", "Meta"}
  /\ c \in PauseTargets
  /\ frozen' = frozen \cup {c}
  /\ job' = Work("pause", "next", c,
              SelectSeq(Subtree(c), LAMBDA d : mem[d].state \in {"Running", "Meta"}))
  /\ UNCHANGED <<phase, mem, used, last, store, cg, task, zombies, rq, ghost>>

Resume(c) ==
  /\ Request("resume")
  /\ Registered(c) /\ c \in frozen /\ ~IsParentFreezing(c)
  /\ frozen' = frozen \ {c}
  /\ job' = Work("resume", "next", c, Subtree(c))
  /\ UNCHANGED <<phase, mem, used, last, store, cg, task, zombies, rq, ghost>>

(* The exit event of a zombie: the subtree of its container is reaped, and *)
(* the report acknowledged at the end.  Nobody knows a stray zombie.       *)
Exit(p) ==
  /\ Event /\ p \in zombies
  /\ LET owners == {c \in Container : Registered(c) /\ mem[c].pid = p} IN
     IF owners = {}
       THEN zombies' = zombies \ {p} /\ job' = job
       ELSE /\ \E c \in owners :
                 job' = [Work("exit", "next", c,
                          SelectSeq(Subtree(c), LAMBDA d : mem[d].state \notin {"Stopped", "Dead"}))
                         EXCEPT !.pid = p]
            /\ zombies' = zombies
  /\ UNCHANGED <<phase, mem, used, last, store, cg, frozen, task, rq, ghost>>

(* The next container of the list: its lasting change, and the .tmp file. *)
NextStep ==
  LET c == Head(job.todo) IN
  /\ job.at = "next"
  /\ CASE job.op \in {"stop", "destroy"} ->
            /\ mem' = [mem EXCEPT ![c].state = "Stopped", ![c].pid = 0]
            /\ cg' = cg \ Below[c] /\ frozen' = frozen \ Below[c]
            /\ Killed(Below[c])
       [] job.op = "pause" ->
            /\ mem' = [mem EXCEPT ![c].state = "Paused"]
            /\ UNCHANGED kernel
       [] job.op = "resume" ->
            /\ mem' = [mem EXCEPT ![c].state = IF @ = "Paused" THEN Up(c) ELSE @]
            /\ frozen' = frozen \ {c}
            /\ UNCHANGED <<cg, task, zombies>>
       [] job.op = "exit" ->
            /\ mem' = [mem EXCEPT ![c].state = DeadState(mem, c), ![c].pid = 0]
            /\ Killed({c})
            /\ UNCHANGED <<cg, frozen>>
  /\ job' = [job EXCEPT !.at = "rename", !.ct = c, !.todo = Tail(@)]
  /\ SaveTmp(mem[c].id)
  /\ UNCHANGED <<phase, used, last, rq, ghost, budget>>

(* The rename; after the last one the handler ends, or goes on to destroy. *)
Renamed ==
  LET c == job.ct IN
  /\ job.op # "create" /\ job.at = "rename"
  /\ SaveRename(mem[c].id, Node(mem[c], c))
  /\ job' = CASE job.todo # <<>> -> [job EXCEPT !.at = "next"]
              [] job.todo = <<>> /\ job.op = "destroy" ->
                   Work("destroy", "unlink", c, Subtree(c))
              [] OTHER -> Idle
  /\ zombies' = IF job.op = "exit" /\ job.todo = <<>> THEN zombies \ {job.pid} ELSE zombies
  /\ promised' = IF /\ job.op \in {"start", "respawn"}
                    /\ \A d \in {c} \cup Above[c] : HasTask(d) => mem[d].pid \in task[d]
                   THEN promised \cup {c} ELSE promised
  /\ UNCHANGED <<phase, mem, used, last, cg, frozen, task, rq, orphans, strays, budget>>

(* Destroy: the node is unlinked, then the container unregistered. *)
Unlinked ==
  LET c == Head(job.todo) IN
  /\ job.at = "unlink"
  /\ kv' = [kv EXCEPT ![mem[c].id] = Gone]
  /\ used' = used \ {mem[c].id}
  /\ mem' = [mem EXCEPT ![c] = Gone]
  /\ job' = IF Tail(job.todo) = <<>> THEN Idle ELSE [job EXCEPT !.todo = Tail(@)]
  /\ UNCHANGED <<phase, last, tmp, kernel, rq, ghost, budget>>

-----------------------------------------------------------------------------
(* The world: tasks exit, and portod crashes.                              *)

TaskExits(c) ==
  /\ ~IsFrozen(c)
  /\ budget.exits > 0 /\ budget' = [budget EXCEPT !.exits = @ - 1]
  /\ \E p \in task[c] :
       task' = [task EXCEPT ![c] = @ \ {p}] /\ zombies' = zombies \cup {p}
  /\ promised' = promised \ Below[c]
  /\ UNCHANGED <<phase, memory, store, cg, frozen, rq, orphans, strays>>

NoQueue == [queue |-> <<>>, nodes |-> {}, size |-> 0, valid |-> FALSE,
            at |-> [w \in Worker |-> "done"], node |-> [w \in Worker |-> 0],
            kids |-> [w \in Worker |-> <<>>]]

Crash ==
  /\ budget.crashes > 0 /\ budget' = [budget EXCEPT !.crashes = @ - 1]
  /\ phase' = "load"
  /\ mem' = [c \in Container |-> Gone] /\ used' = {RootId} /\ last' = RootId /\ job' = Idle
  /\ rq' = NoQueue
  /\ UNCHANGED <<store, kernel, ghost>>

-----------------------------------------------------------------------------
(* Restart.  Nodes that do not load are removed; those of the top level    *)
(* are pushed to the restore worker, the others follow their parents.      *)

NodesOf(S, parent) == {i \in S : Parent[kv[i].name] = parent}

Reachable(S) ==
  {i \in S : \A a \in Above[kv[i].name] : \E j \in S : kv[j].name = a}

(* Mutant: a node whose save was cut short is taken for damaged. *)
LoadNodes_DropTmp ==
  LET nodes == {i \in Id : kv[i] \notin {Gone, Torn}} \ tmp
      top == NodesOf(nodes, Root) IN
  /\ phase = "load"
  /\ tmp' = {} /\ kv' = [i \in Id |-> IF i \in nodes THEN kv[i] ELSE Gone]
  /\ orphans' = {kv[i].name : i \in nodes \ Reachable(nodes)}
  /\ phase' = IF top = {} THEN "cleanup" ELSE "restore"
  /\ rq' = IF top = {} THEN NoQueue
           ELSE [queue |-> SetToSeq(top), nodes |-> nodes, size |-> Cardinality(top),
                 valid |-> TRUE,
                 at |-> [w \in Worker |-> "ready"], node |-> [w \in Worker |-> 0],
                 kids |-> [w \in Worker |-> <<>>]]
  /\ UNCHANGED <<memory, kernel, promised, strays, budget>>

LoadNodes ==
  LET nodes == {i \in Id : kv[i] \notin {Gone, Torn}}
      top == NodesOf(nodes, Root) IN
  /\ phase = "load"
  /\ tmp' = {} /\ kv' = [i \in Id |-> IF kv[i] = Torn THEN Gone ELSE kv[i]]
  /\ orphans' = {kv[i].name : i \in nodes \ Reachable(nodes)}
  /\ phase' = IF top = {} THEN "cleanup" ELSE "restore"
  /\ rq' = IF top = {} THEN NoQueue
           ELSE [queue |-> SetToSeq(top), nodes |-> nodes, size |-> Cardinality(top),
                 valid |-> TRUE,
                 at |-> [w \in Worker |-> "ready"], node |-> [w \in Worker |-> 0],
                 kids |-> [w \in Worker |-> <<>>]]
  /\ UNCHANGED <<memory, kernel, promised, strays, budget>>

(* Thaw and Reap as SyncState does them to container c in state s; the     *)
(* outcome is [state, pid, thaw, kill].                                    *)
Outcome(s, p, thaw, kill) == [state |-> s, pid |-> p, thaw |-> thaw, kill |-> kill, rmcg |-> FALSE]

(* SyncState up to the look at the parent.  Stop of a container that was   *)
(* saved as stopped does nothing: CleanupCgroups clears such a freezer.    *)
SyncSelf(c, saved, p) ==
  LET s1 == IF saved \in {"Starting", "Respawning"} THEN Up(c) ELSE saved
      thaw == IsFrozen(c) /\ s1 # "Paused"
      s2 == IF ~IsFrozen(c) /\ s1 = "Paused" THEN Up(c) ELSE s1
  IN IF s2 = "Stopped" \/ (s2 = "Meta" /\ p = 0 /\ c \notin Isolate) \/ p \in task[c] \cup zombies
       THEN Outcome(s2, p, thaw, FALSE)
       ELSE Outcome("Dead", 0, thaw, TRUE)

(* SyncState: a child follows its parent. *)
SyncState(c, saved, p, parentState) ==
  IF c \notin cg THEN Outcome("Stopped", 0, FALSE, FALSE) ELSE
  LET o == SyncSelf(c, saved, p) IN
  CASE parentState = "Stopped" /\ o.state # "Stopped" ->
         IF IsParentFreezing(c) THEN o
         ELSE [Outcome("Stopped", 0, TRUE, TRUE) EXCEPT !.rmcg = TRUE]
    [] parentState = "Dead" /\ o.state \notin {"Dead", "Stopped"} ->
         Outcome("Dead", 0, o.thaw, TRUE)
    [] parentState = "Paused" /\ o.state \in {"Running", "Meta"} ->
         [o EXCEPT !.state = "Paused"]
    [] OTHER -> o

(* TContainer::Restore in a worker: find the parent, take the id, register,*)
(* Load, SyncState, and schedule a respawn.  It may fail on the way (fault)*)
(* and then unregisters the container again.                               *)
RestoreBegin(w) ==
  /\ rq.at[w] = "ready" /\ rq.valid /\ rq.queue # <<>>
  /\ LET i == Head(rq.queue)
         c == kv[i].name
         found == ~Registered(c) /\ i \notin used
                  /\ Registered(Parent[c])
         o == SyncState(c, kv[i].state, kv[i].pid, StateOf(mem, Parent[c]))
         m == [id |-> i, pid |-> o.pid,
               state |-> IF o.state = "Dead" THEN DeadState(mem, c) ELSE o.state]
         next(at) == [rq EXCEPT !.queue = Tail(@), !.at[w] = at, !.node[w] = i]
     IN \/ /\ ~found
           /\ rq' = next("unlink")
           /\ UNCHANGED <<mem, used, store, kernel, promised, budget>>
        \/ /\ found
           /\ cg' = IF o.rmcg THEN cg \ Below[c] ELSE cg
           /\ frozen' = frozen \ ((IF o.rmcg THEN Below[c] ELSE {})
                                  \cup (IF o.thaw THEN {c} ELSE {}))
           /\ Killed(IF o.rmcg THEN Below[c] ELSE IF o.kill THEN {c} ELSE {})
           /\ \/ /\ mem' = [mem EXCEPT ![c] = m] /\ used' = used \cup {i}
                 /\ SaveTmp(i) /\ rq' = next("rename")
                 /\ UNCHANGED <<promised, budget>>
              \/ /\ budget.faults > 0 /\ budget' = [budget EXCEPT !.faults = @ - 1]
                 /\ rq' = next("unlink") /\ promised' = promised \ Below[c]
                 /\ UNCHANGED <<mem, used, store>>
  /\ UNCHANGED <<phase, last, job, orphans, strays>>

(* The rest of Handle.  The node is renamed into place, or unlinked. *)
RestoreEnd(w) ==
  LET i == rq.node[w]
      c == kv[i].name IN
  /\ \/ rq.at[w] = "rename" /\ SaveRename(i, Node(mem[c], c))
     \/ rq.at[w] = "unlink" /\ kv' = [kv EXCEPT ![i] = Gone] /\ UNCHANGED tmp
  /\ rq' = [rq EXCEPT !.at[w] = "push", !.node[w] = 0,
                      !.kids[w] = SetToSeq(NodesOf({j \in rq.nodes : kv[j] # Gone}, c))]
  /\ UNCHANGED <<phase, memory, kernel, ghost, budget>>

Woken(at, n) ==
  LET asleep == {w \in Worker : at[w] = "asleep"} IN
  {S \in SUBSET asleep : Cardinality(S) = n \/ (Cardinality(S) < n /\ S = asleep)}

Wake(S, at) == [v \in Worker |-> IF v \in S THEN "ready" ELSE at[v]]

OnlyQueue == UNCHANGED <<phase, memory, store, kernel, ghost, budget>>

(* Mutant: WorkSize does not count the child. *)
Push_Uncounted(w) ==
  /\ rq.at[w] = "push" /\ rq.kids[w] # <<>>
  /\ \E S \in Woken(rq.at, 1) :
       rq' = [rq EXCEPT !.queue = Append(@, Head(rq.kids[w])), !.kids[w] = Tail(@),
                        !.at = Wake(S, @)]
  /\ OnlyQueue

(* The next child is pushed, which wakes one thread.  WorkSize goes up     *)
(* just before, which nobody can see: it still counts the node at hand.    *)
Push(w) ==
  /\ rq.at[w] = "push" /\ rq.kids[w] # <<>>
  /\ \E S \in Woken(rq.at, 1) :
       rq' = [rq EXCEPT !.queue = Append(@, Head(rq.kids[w])), !.kids[w] = Tail(@),
                        !.size = @ + 1, !.at = Wake(S, @)]
  /\ OnlyQueue

(* --WorkSize: who brings it to zero shuts the worker down. *)
NodeDone(w) ==
  /\ rq.at[w] = "push" /\ rq.kids[w] = <<>>
  /\ rq' = [rq EXCEPT !.size = @ - 1,
                      !.at[w] = IF rq.size = 1 THEN "shutdown" ELSE "ready"]
  /\ OnlyQueue

(* Mutant: the threads that wait are not told. *)
Shutdown_Silent(w) ==
  /\ rq.at[w] = "shutdown"
  /\ rq' = [rq EXCEPT !.valid = FALSE, !.at[w] = "ready"]
  /\ OnlyQueue

Shutdown(w) ==
  /\ rq.at[w] = "shutdown"
  /\ \E S \in Woken(rq.at, Cardinality(Worker)) :
       rq' = [rq EXCEPT !.valid = FALSE, !.at = Wake(S \cup {w}, @)]
  /\ OnlyQueue

(* TWorker: a thread with nothing to do waits, and ends once not Valid. *)
WorkerWaits(w) ==
  /\ rq.at[w] = "ready" /\ (rq.queue = <<>> \/ ~rq.valid)
  /\ rq' = [rq EXCEPT !.at[w] = IF rq.valid THEN "asleep" ELSE "done"]
  /\ UNCHANGED <<phase, memory, store, kernel, ghost, budget>>

Restored ==
  /\ phase = "restore" /\ \A w \in Worker : rq.at[w] = "done"
  /\ phase' = "cleanup" /\ rq' = NoQueue
  /\ UNCHANGED <<memory, store, kernel, ghost, budget>>

(* CleanupCgroups removes, leaves first, every cgroup that belongs to no   *)
(* container or to a stopped one; under a frozen parent it gives up.       *)
Unowned(c) == c \in cg /\ (Registered(c) => mem[c].state = "Stopped")

(* Mutant: only what has no container object is cleaned. *)
Stray_Unknown(c) == c \in cg /\ ~Registered(c) /\ ~IsParentFreezing(c)

Stray(c) == Unowned(c) /\ ~IsParentFreezing(c)

CleanupCgroup(c) ==
  /\ phase = "cleanup" /\ Stray(c)
  /\ \A d \in Below[c] \ {c} : ~Stray(d)
  /\ Killed({c})
  /\ cg' = cg \ {c} /\ frozen' = frozen \ {c}
  /\ UNCHANGED <<phase, memory, store, rq, ghost, budget>>

Serve ==
  /\ phase = "cleanup" /\ \A c \in Container : ~Stray(c)
  /\ phase' = "serve" /\ strays' = {c \in Container : Unowned(c) /\ IsParentFreezing(c)}
  /\ UNCHANGED <<memory, store, kernel, rq, promised, orphans, budget>>

-----------------------------------------------------------------------------
(* At first portod serves some containers, any of them running.            *)

Closed(S) == \A c \in S : Parent[c] \in S \cup {Root}
Number(S, c) == SelectInSeq(SetToSeq(S), LAMBDA d : d = c)

Init ==
  \E up \in {S \in SUBSET Existing : Closed(S)} :
    LET pid(c) == IF c \in up /\ HasTask(c) THEN Number(Container, c) ELSE 0
        state(c) == IF c \in up THEN Up(c) ELSE "Stopped"
        id(c) == RootId + Number(Existing, c)
        name(i) == CHOOSE c \in Existing : id(c) = i
        ids == {id(c) : c \in Existing} IN
    /\ phase = "serve"
    /\ mem = [c \in Container |->
                IF c \in Existing THEN [id |-> id(c), state |-> state(c), pid |-> pid(c)] ELSE Gone]
    /\ used = ids \cup {RootId} /\ last = RootId + Cardinality(Existing) /\ job = Idle
    /\ kv = [i \in Id |->
               IF i \in ids
                 THEN [name |-> name(i), state |-> state(name(i)), pid |-> pid(name(i))]
                 ELSE Gone]
    /\ tmp = {} /\ cg = up /\ frozen = {} /\ zombies = {}
    /\ task = [c \in Container |-> {pid(c)} \ {0}]
    /\ rq = NoQueue /\ promised = up /\ orphans = {} /\ strays = {}
    /\ budget = [ops |-> MaxOps, exits |-> MaxExits,
                 faults |-> MaxFaults, crashes |-> MaxCrashes]

Handler ==
  \/ \E c \in Container :
       Create(c) \/ Start(c) \/ Respawn(c) \/ Pause(c) \/ Resume(c)
       \/ \E op \in {"stop", "destroy"} : Stop(op, c)
  \/ \E p \in zombies : Exit(p)
  \/ Created \/ StartTask \/ StartFailed \/ NextStep \/ Renamed \/ Unlinked

Restart ==
  \/ LoadNodes \/ Restored \/ Serve
  \/ \E w \in Worker : \/ RestoreBegin(w) \/ RestoreEnd(w) \/ WorkerWaits(w)
                      \/ Push(w) \/ NodeDone(w) \/ Shutdown(w)
  \/ \E c \in Container : CleanupCgroup(c)

Next == Handler \/ Restart \/ Crash \/ \E c \in Container : TaskExits(c)

(* The daemon's threads run, and nobody waits for a client to restart it.  *)
(* CanRestart is ENABLED Restart, so this is weak fairness written out.    *)
CanRestart ==
  \/ phase \in {"load", "cleanup"}
  \/ phase = "restore" /\ ((\E w \in Worker : rq.at[w] \notin {"asleep", "done"})
                           \/ (\A w \in Worker : rq.at[w] = "done"))

Spec == Init /\ [][Next]_vars /\ ([]<>~CanRestart \/ []<><<Restart>>_vars)

-----------------------------------------------------------------------------
(* Properties.                                                             *)

TypeOK ==
  /\ phase \in {"load", "restore", "cleanup", "serve"}
  /\ \A c \in Container : Registered(c) =>
       mem[c].id \in used /\ mem[c].state \in State /\ mem[c].pid \in Pid \cup {0}
  /\ used \subseteq Id /\ tmp \subseteq Id
  /\ frozen \subseteq cg /\ cg \subseteq Container
  /\ task \in [Container -> SUBSET Pid] /\ zombies \subseteq Pid

Quiet == phase = "serve" /\ job = Idle

(* A restart would find what is there.  Whenever no handler is at work,    *)
(* the state SyncState would compute for a container from its node, its    *)
(* cgroup and its task is the state of the object in memory, and its id is *)
(* the node's: whatever crashes and failures came before, the three places *)
(* that hold a container's state tell the same story.                      *)
RestartAgrees ==
  Quiet => \A c \in Container : Registered(c) =>
    LET n == kv[mem[c].id]
        o == SyncState(c, n.state, n.pid, StateOf(mem, Parent[c]))
    IN /\ n \notin {Gone, Torn} /\ n.name = c
       /\ SavedState(mem[c].state) = o.state
       /\ mem[c].pid = o.pid
       /\ ~o.kill \/ mem[c].state \in {"Dead", "Respawning"}

(* Every node and every id belongs to a container: whatever was destroyed, *)
(* restored, or not restored, no node is left that a restart would bring   *)
(* back to life, and no id is lost or given twice.  In particular the      *)
(* threads of the restore worker do not stop while a node is still to be   *)
(* pushed or handled.  Only a restore that failed for a parent, and was    *)
(* interrupted before its children's nodes were removed, can leave a node  *)
(* that no container stands behind.                                        *)
NoGhostNodes ==
  Quiet =>
    /\ \A i \in Id : kv[i] # Gone =>
         \/ Registered(kv[i].name) /\ mem[kv[i].name].id = i
         \/ kv[i].name \in orphans
    /\ used = {RootId} \cup {mem[c].id : c \in {d \in Container : Registered(d)}}

(* When portod serves, no task and no cgroup is left over: a live task is  *)
(* the task of a registered container that is up or paused, and a cgroup   *)
(* that of a container that is not stopped.  The one exception are cgroups *)
(* under a paused parent, where CleanupCgroups gives up.                   *)
NoStrays ==
  Quiet => \A c \in Container \ strays :
    /\ \A p \in task[c] :
         Registered(c) /\ mem[c].state \in {"Running", "Meta", "Paused"} /\ mem[c].pid = p
    /\ c \in cg => Registered(c) /\ mem[c].state # "Stopped"

(* A container whose start was acknowledged survives crashes: until its    *)
(* task (or one of a parent) exits, somebody stops it, or its restore or   *)
(* that of a parent fails, its task lives on, and it is up or paused       *)
(* whenever portod serves.                                                 *)
RunningSurvives ==
  \A c \in promised :
    /\ HasTask(c) => task[c] # {}
    /\ phase = "serve" =>
         /\ Registered(c) /\ mem[c].state \in {"Running", "Meta", "Paused"}
         /\ HasTask(c) => mem[c].pid \in task[c]

(* A restart comes to its end: whatever the threads of the restore worker  *)
(* find in the queue, and however often a crash begins it anew, none of    *)
(* them waits for ever for a node or for the last one's Shutdown.          *)
RestartEnds == []<>(phase = "serve")
=============================================================================
