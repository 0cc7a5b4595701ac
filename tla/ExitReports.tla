---------------------------- MODULE ExitReports -----------------------------
(***************************************************************************)
(* How the exit of a container's task gets from the kernel to the event    *)
(* worker (src/src/master.cpp, src/src/server.cpp:73-122).                 *)
(*                                                                         *)
(* Tasks are children of the master process.  The master learns of a       *)
(* zombie by SIGCHLD, which the kernel merges, and by waitid, which always *)
(* returns the first zombie as long as that is not reaped.  It reports it  *)
(* to the server through a pipe, remembers it in Zombies, and reaps it     *)
(* when the server acknowledges it through a second pipe.  The server may  *)
(* crash at any time; the master then starts a new one with new pipes and  *)
(* an empty Zombies set.                                                   *)
(*                                                                         *)
(* SIGCHLD also tells of children that were stopped or continued, and the  *)
(* master takes these for exits.                                           *)
(*                                                                         *)
(* A pid is not used again here: the kernel hands pids out in a cycle.     *)
(* SIGKILL takes effect at once.                                           *)
(***************************************************************************)
EXTENDS Integers, Sequences, FiniteSets, SequencesExt

CONSTANTS
  Task,        \* pids of the tasks, numbered in the order of waitid
  PipeSize,    \* reports, and acknowledgements, that fit into a pipe
  MaxCrashes   \* bound: crashes of the server

ASSUME Bounds ==
  Task \subseteq Nat \ {0} /\ IsFiniteSet(Task) /\ PipeSize \in Nat \ {0} /\ MaxCrashes \in Nat

None == 0
Server == -1      \* pid of the running server
OldServer == -2   \* pid of one that is already reaped

VARIABLES
  running,   \* tasks that have not exited
  zombies,   \* tasks that have exited and are not reaped
  sigchld,   \* the pending SIGCHLD: the first of those that were merged
  at,        \* the master: in epoll, with a batch of events, or reporting
  batch,     \* the rest of the batch
  Zombies,   \* TServer::Zombies: reported and not acknowledged
  evt,       \* pipe to the server
  ack,       \* pipe from the server
  ackPolled, \* the ack pipe is still in the epoll set
  up,        \* the server has not exited
  queue,     \* exit events in the server's event queue
  claimed,   \* tasks that are the WaitTask of a container (saved with it)
  crashes

kernel == <<running, zombies>>
master == <<at, batch, Zombies, ackPolled>>
server == <<up, queue, claimed, crashes>>
vars == <<running, zombies, sigchld, at, batch, Zombies, evt, ack, ackPolled,
          up, queue, claimed, crashes>>

Source == {"signal", "pidfd", "ack"}
Reportable == Task \cup {OldServer}

TypeOK ==
  /\ running \subseteq Task /\ zombies \subseteq Task \ running
  /\ sigchld \in Reportable \cup {None, Server}
  /\ at \in {"poll", "batch", "report"} /\ batch \in Seq(Source)
  /\ Zombies \subseteq Reportable
  /\ evt \in Seq(Reportable) /\ Len(evt) <= PipeSize
  /\ ack \in Seq(Reportable) /\ Len(ack) <= PipeSize
  /\ queue \in Seq(Reportable)
  /\ claimed \subseteq Task
  /\ up \in BOOLEAN /\ ackPolled \in BOOLEAN /\ crashes \in 0..MaxCrashes

Init ==
  /\ running = Task /\ zombies = {} /\ sigchld = None
  /\ at = "poll" /\ batch = <<>> /\ Zombies = {} /\ ackPolled = TRUE
  /\ evt = <<>> /\ ack = <<>>
  /\ up = TRUE /\ queue = <<>> /\ claimed = Task /\ crashes = 0

-----------------------------------------------------------------------------
(* The kernel.                                                             *)

Raise(pid) == sigchld' = IF sigchld = None THEN pid ELSE sigchld

TaskExits ==
  \E p \in running :
    /\ running' = running \ {p}
    /\ zombies' = zombies \cup {p}
    /\ Raise(p)
    /\ UNCHANGED <<master, evt, ack, server>>

(* A child is stopped or continued: the signal handler has no SA_NOCLDSTOP. *)
ChildStops ==
  \E p \in running \cup (IF up THEN {Server} ELSE {}) :
    /\ Raise(p)
    /\ UNCHANGED <<kernel, master, evt, ack, server>>

(* The server's memory is gone, and so is what nobody can read any more. *)
Dies ==
  /\ up' = FALSE
  /\ Raise(Server)
  /\ queue' = <<>> /\ evt' = <<>>
  /\ crashes' = crashes + 1

ServerCrashes ==
  /\ up /\ crashes < MaxCrashes
  /\ Dies
  /\ UNCHANGED <<kernel, master, ack, claimed>>

-----------------------------------------------------------------------------
(* The master.                                                             *)

IsReady(s) ==
  CASE s = "signal" -> sigchld # None
    [] s = "pidfd"  -> ~up
    [] s = "ack"    -> ackPolled /\ (ack # <<>> \/ ~up)

(* epoll_wait without a timeout: all sources that are ready, in any order. *)
Poll ==
  LET ready == {s \in Source : IsReady(s)}
  IN /\ at = "poll" /\ ready # {}
     /\ at' = "batch"
     /\ batch' \in SetToSeqs(ready)
     /\ UNCHANGED <<kernel, sigchld, Zombies, ackPolled, evt, ack, server>>

(* The next event of the batch; after the last one comes ReportZombies. *)
NextEvent ==
  /\ batch' = Tail(batch)
  /\ at' = IF Len(batch) = 1 THEN "report" ELSE "batch"

Handling(s) == at = "batch" /\ Head(batch) = s

(* HandleZombie reports a pid that is not reported yet, if the pipe is not *)
(* full.  Writing to a dead server fails.                                  *)
MayReport(pid) ==
  /\ pid \notin Zombies \cup {None, Server}
  /\ up /\ Len(evt) < PipeSize

(* Mutant: a report that failed is remembered as well. *)
HandleZombie_Always(pid) ==
  /\ Zombies' = Zombies \cup ({pid} \ {None, Server})
  /\ evt' = IF MayReport(pid) THEN Append(evt, pid) ELSE evt

HandleZombie(pid) ==
  IF MayReport(pid)
    THEN evt' = Append(evt, pid) /\ Zombies' = Zombies \cup {pid}
    ELSE UNCHANGED <<evt, Zombies>>

HandleSignal ==
  /\ Handling("signal")
  /\ HandleZombie(sigchld)
  /\ sigchld' = None
  /\ NextEvent
  /\ UNCHANGED <<kernel, ackPolled, ack, server>>

(* All acknowledgements that are in the pipe; waitpid would wait for a task *)
(* that still runs.  An empty pipe is not polled any more: its other end   *)
(* is closed.                                                              *)
ReapZombies ==
  /\ Handling("ack")
  /\ running \cap Zombies \cap ToSet(ack) = {}
  /\ zombies' = zombies \ (Zombies \cap ToSet(ack))
  /\ Zombies' = Zombies \ ToSet(ack)
  /\ ackPolled' = (ack # <<>>)
  /\ ack' = <<>>
  /\ NextEvent
  /\ UNCHANGED <<running, sigchld, evt, server>>

(* waitid with WNOWAIT returns the same zombie until it is reaped, so the  *)
(* loop of ReportZombies ends after one report at the latest.  A dead      *)
(* server may be that first zombie.                                        *)
FirstZombies ==
  {p \in zombies : \A q \in zombies : p <= q} \cup (IF up THEN {} ELSE {Server})

(* Mutant: the zombies are only looked at when SIGCHLD says so. *)
ReportZombies_No ==
  /\ at = "report"
  /\ at' = "poll"
  /\ UNCHANGED <<kernel, sigchld, batch, Zombies, ackPolled, evt, ack, server>>

ReportZombies ==
  /\ at = "report"
  /\ at' = "poll"
  /\ \/ FirstZombies = {} /\ UNCHANGED <<evt, Zombies>>
     \/ \E pid \in FirstZombies : HandleZombie(pid)
  /\ UNCHANGED <<kernel, sigchld, batch, ackPolled, ack, server>>

(* The server is reaped, SpawnServer returns, and PortodMaster calls it    *)
(* once more.  A signal that nobody has read stays pending, also if it is  *)
(* for the old server.                                                     *)
SpawnServer ==
  /\ Handling("pidfd")
  /\ at' = "poll" /\ batch' = <<>> /\ Zombies' = {} /\ ackPolled' = TRUE
  /\ evt' = <<>> /\ ack' = <<>>
  /\ sigchld' = IF sigchld = Server THEN OldServer ELSE sigchld
  /\ up' = TRUE
  /\ UNCHANGED <<kernel, queue, claimed, crashes>>

-----------------------------------------------------------------------------
(* The server.                                                             *)

(* Mutant: the exit is acknowledged when it is read from the pipe. *)
RecvExitEvents_Ack ==
  /\ up /\ evt # <<>> /\ Len(ack) + Len(evt) <= PipeSize
  /\ queue' = queue \o evt
  /\ ack' = ack \o evt
  /\ evt' = <<>>
  /\ UNCHANGED <<kernel, sigchld, master, up, claimed, crashes>>

RecvExitEvents ==
  /\ up /\ evt # <<>>
  /\ queue' = queue \o evt
  /\ evt' = <<>>
  /\ UNCHANGED <<kernel, sigchld, master, ack, up, claimed, crashes>>

(* A container is done with its task: Terminate kills what is left of it,  *)
(* ForgetPid gives the pid up, and the container is saved.                 *)
Forget(p) ==
  /\ claimed' = claimed \ {p}
  /\ IF p \in running
       THEN running' = running \ {p} /\ zombies' = zombies \cup {p} /\ Raise(p)
       ELSE UNCHANGED <<kernel, sigchld>>

(* The event worker finds the container by its pid: it gets its exit. *)
Deliver ==
  /\ up /\ queue # <<>> /\ Head(queue) \in claimed
  /\ Forget(Head(queue))
  /\ UNCHANGED <<master, evt, ack, up, queue, crashes>>

(* A container is stopped by a request: the report finds nobody then. *)
StopContainer ==
  /\ up
  /\ \E p \in claimed : Forget(p)
  /\ UNCHANGED <<master, evt, ack, up, queue, crashes>>

(* The exit is acknowledged after it was delivered, and also if no         *)
(* container has the pid, or it is gone before it is locked.  If the pipe  *)
(* is full the server crashes.                                             *)
AckExitStatus ==
  /\ up /\ queue # <<>> /\ Head(queue) \notin claimed
  /\ IF Len(ack) < PipeSize
       THEN /\ ack' = Append(ack, Head(queue))
            /\ queue' = Tail(queue)
            /\ UNCHANGED <<sigchld, evt, up, crashes>>
       ELSE /\ crashes < MaxCrashes
            /\ Dies
            /\ UNCHANGED ack
  /\ UNCHANGED <<kernel, master, claimed>>

Next ==
  \/ TaskExits \/ ChildStops \/ ServerCrashes
  \/ Poll \/ HandleSignal \/ ReapZombies \/ ReportZombies \/ SpawnServer
  \/ RecvExitEvents \/ Deliver \/ StopContainer \/ AckExitStatus

Spec == Init /\ [][Next]_vars

(* The master's loop and the server's threads run; nothing has to exit. *)
Fairness ==
  /\ WF_vars(Poll \/ HandleSignal \/ ReapZombies \/ ReportZombies \/ SpawnServer)
  /\ WF_vars(RecvExitEvents)
  /\ WF_vars(Deliver \/ AckExitStatus)

FairSpec == Spec /\ Fairness

-----------------------------------------------------------------------------
(* Properties.                                                             *)

(* What a container waits for is never reaped behind its back, neither by  *)
(* an acknowledgement that goes out for a container that was not found, nor *)
(* by one for a task that was only stopped: whatever is lost in pipes and  *)
(* queues when the server crashes, the new server still finds the zombie.  *)
ExitIsKept == claimed \subseteq running \cup zombies

(* Zombies is exact as long as the server lives: what the master waits for *)
(* is somewhere on its way, so that no acknowledgement is ever missing.    *)
ReportIsOnItsWay ==
  up => Zombies \subseteq ToSet(evt) \cup ToSet(queue) \cup ToSet(ack)

(* As long as the server does not crash every exit is delivered and every  *)
(* zombie reaped, although signals are merged and waitid shows one zombie  *)
(* at a time.                                                              *)
EveryExitIsDelivered ==
  \A p \in Task : p \in zombies ~> p \notin claimed \cup zombies \/ crashes > 0

(* doc/porto.md:72 "running - command execution in progress": a container  *)
(* whose task has exited does not stay running, also if the server crashes. *)
EveryExitIsDeliveredAfterCrash ==
  \A p \in Task : p \in zombies ~> p \notin claimed

(* master.cpp:166, "HandleZombie": what is reported as an exit is one.  A   *)
(* task that is only stopped is reported too, and its container dies.      *)
OnlyExitsAreReported == running \cap ToSet(queue) = {}
=============================================================================
