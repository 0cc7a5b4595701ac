------------------------------ MODULE Waiters -------------------------------
(***************************************************************************)
(* Clients that wait for containers (src/src/waiter.cpp, WaitContainers in *)
(* src/src/rpc.cpp).                                                       *)
(*                                                                         *)
(* A client has at most one synchronous and one asynchronous waiter.  The  *)
(* active ones are in the list ContainerWaiters, as raw pointers, under    *)
(* ContainerWaitersLock.  SetState writes the state first and then walks   *)
(* the list; WaitContainers looks at the states first and then activates   *)
(* its waiter.  A waiter belongs to its client, and a client object lives  *)
(* as long as somebody has a reference to it: the server's loop until it   *)
(* closes the connection, the thread that handles a request, and for a     *)
(* moment who reports to it.                                               *)
(*                                                                         *)
(* Of the states only those that end a synchronous wait (stopped, dead,    *)
(* respawning) are told from the others; meta containers, which are        *)
(* reported when their last child stops running, are left out.  Names are  *)
(* containers; a wildcard is the set it matches.  An asynchronous report   *)
(* that has to wait for the socket is only a delay.  Waits for labels are  *)
(* left out.                                                               *)
(***************************************************************************)
EXTENDS Integers, Sequences, Functions

CONSTANTS
  Container, Client,
  Handler,       \* RPC threads
  Reporter,      \* threads that change states
  Main, Worker,  \* the server's loop and the event worker
  Free,          \* nobody holds the lock
  Kinds,         \* kinds of waits that are requested
  Targets,       \* FALSE: any state, TRUE: target_state is a final one
  MaxChanges,    \* bound: state changes
  MaxRequests,   \* bound: requests of all clients
  Timed,         \* waits may have a timeout
  Disconnects    \* clients may disconnect

Kind == {"sync", "async"}
Slot == Client \X Kind
Walker == Reporter \cup Handler \cup {Worker}   \* who holds the lock for longer
Thread == Walker \cup {Main}

ASSUME WaitersAssumption ==
  /\ Handler \cap Reporter = {} /\ Main # Worker
  /\ {Main, Worker} \cap (Handler \cup Reporter) = {}
  /\ Free \notin Handler \cup Reporter \cup {Main, Worker} \cup Client \cup Container
  /\ Kinds \subseteq Kind \cup {"stop"} /\ Targets \subseteq BOOLEAN

VARIABLES
  final,    \* containers that are stopped, dead, respawning or hollow meta
  changes,
  refs,     \* who holds a reference to the client object
  doomed,   \* the thread that runs the destructor of the client
  active,   \* the waiters that are active
  timer,    \* ... and have a timeout
  names, target,   \* what a waiter waits for
  ContainerWaiters,
  lock,     \* ContainerWaitersLock
  req,      \* the request of a handler
  processing,   \* clients with TClient::Processing
  owed,     \* requests of the client less answers to it
  requests,
  rep,      \* who walks over the list: ReportAll, Remove, Timeout
  late      \* of a waiter: what was final when it was activated

waiters == <<active, names, target, timer, ContainerWaiters, late>>
objects == <<refs, doomed>>
clients == <<req, processing, owed, requests>>
vars == <<final, changes, refs, doomed, active, names, target, timer, ContainerWaiters,
          lock, req, processing, owed, requests, rep, late>>

NoRequest ==
  [at |-> "idle", cl |-> Free, kind |-> "sync", todo |-> {}, names |-> {}, target |-> FALSE]
NoReport == [at |-> "idle", ct |-> Free, todo |-> <<>>, to |-> Free]

TypeOK ==
  /\ final \subseteq Container /\ changes \in 0..MaxChanges
  /\ refs \in [Client -> SUBSET Thread]
  /\ doomed \in [Client -> Thread \cup {Free}]
  /\ active \subseteq Slot /\ timer \subseteq Slot
  /\ names \in [Slot -> SUBSET Container] /\ target \in [Slot -> BOOLEAN]
  /\ late \in [Slot -> SUBSET Container]
  /\ ContainerWaiters \in Seq(Slot)
  /\ lock \in Thread \cup {Free}
  /\ req \in [Handler -> [at : {"idle", "check", "remove", "end"}, cl : Client \cup {Free},
                          kind : Kind \cup {"stop"}, todo : SUBSET Container,
                          names : SUBSET Container, target : BOOLEAN]]
  /\ processing \subseteq Client /\ owed \in [Client -> 0..1]
  /\ requests \in 0..MaxRequests
  /\ rep \in [Walker ->
                [at : {"idle", "lock", "walk", "drop"}, ct : Container \cup {Free},
                 todo : Seq(Slot), to : Client \cup {Free}]]

Init ==
  /\ final = {} /\ changes = 0
  /\ refs = [c \in Client |-> {Main}] /\ doomed = [c \in Client |-> Free]
  /\ active = {} /\ timer = {}
  /\ names = [s \in Slot |-> {}] /\ target = [s \in Slot |-> FALSE]
  /\ late = [s \in Slot |-> {}]
  /\ ContainerWaiters = <<>> /\ lock = Free
  /\ req = [h \in Handler |-> NoRequest]
  /\ processing = {} /\ owed = [c \in Client |-> 0] /\ requests = 0
  /\ rep = [t \in Walker |-> NoReport]

(* A thread inside a client's destructor does nothing else. *)
IsFree(t) == \A c \in Client : doomed[c] # t

-----------------------------------------------------------------------------
(* References.                                                             *)

(* The last reference takes the client with it. *)
Drop(t, c) ==
  /\ refs' = [refs EXCEPT ![c] = @ \ {t}]
  /\ doomed' = IF refs[c] = {t} THEN [doomed EXCEPT ![c] = t] ELSE doomed

RemoveAt(list, i) == SubSeq(list, 1, i - 1) \o SubSeq(list, i + 1, Len(list))

(* ContainerWaiters.remove: the waiter is in the list at most once. *)
Without(list, s) ==
  IF s \in Range(list) THEN RemoveAt(list, CHOOSE i \in DOMAIN list : list[i] = s) ELSE list

(* Mutant: the destructor leaves the list alone. *)
DestroyClient_Listed(c) ==
  /\ doomed[c] # Free
  /\ (\E k \in Kind : <<c, k>> \in active) => lock = Free
  /\ doomed' = [doomed EXCEPT ![c] = Free]
  /\ active' = active \ ({c} \X Kind) /\ timer' = timer \ ({c} \X Kind)
  /\ UNCHANGED <<final, changes, refs, names, target, ContainerWaiters, late, lock, clients, rep>>

(* The destructors of its waiters take the lock if they are active. *)
DestroyClient(c) ==
  /\ doomed[c] # Free
  /\ (\E k \in Kind : <<c, k>> \in active) => lock = Free
  /\ doomed' = [doomed EXCEPT ![c] = Free]
  /\ active' = active \ ({c} \X Kind) /\ timer' = timer \ ({c} \X Kind)
  /\ ContainerWaiters' = Without(Without(ContainerWaiters, <<c, "sync">>), <<c, "async">>)
  /\ UNCHANGED <<final, changes, refs, names, target, late, lock, clients, rep>>

(* The server's loop closes the connection. *)
Disconnect(c) ==
  /\ Disconnects /\ IsFree(Main) /\ Main \in refs[c]
  /\ Drop(Main, c)
  /\ UNCHANGED <<final, changes, waiters, lock, clients, rep>>

-----------------------------------------------------------------------------
(* WaitContainers.                                                         *)

ShouldReport(kind, tgt, c) == (kind = "sync" \/ tgt) => c \in final

(* TClient::Event: the next request is read when the last one is answered, *)
(* also if its handler has not finished.                                   *)
Receive(h, c, k, ns, tg) ==
  /\ Main \in refs[c] /\ c \notin processing
  /\ k = "sync" => ~tg
  /\ req' = [req EXCEPT ![h] = [at |-> IF k = "stop" THEN "remove" ELSE "check", cl |-> c,
                                kind |-> k, todo |-> ns, names |-> ns, target |-> tg]]
  /\ processing' = processing \cup {c}
  /\ owed' = [owed EXCEPT ![c] = @ + 1]
  /\ refs' = [refs EXCEPT ![c] = @ \cup {h}]

Request(h) ==
  /\ req[h].at = "idle" /\ IsFree(h) /\ IsFree(Main) /\ requests < MaxRequests
  /\ \E c \in Client, k \in Kinds, ns \in (SUBSET Container) \ {{}}, tg \in Targets :
       Receive(h, c, k, ns, tg)
  /\ requests' = requests + 1
  /\ UNCHANGED <<final, changes, doomed, waiters, lock, rep>>

(* The answer to the request: a synchronous report, or the response. *)
Answer(c) ==
  /\ processing' = processing \ {c}
  /\ owed' = [owed EXCEPT ![c] = @ - 1]

(* One name after the other.  A synchronous wait is answered at once if    *)
(* one of them is final; an asynchronous one goes on.                      *)
CheckState(h) ==
  /\ req[h].at = "check"
  /\ \E ct \in req[h].todo :
       IF req[h].kind = "sync" /\ ShouldReport("sync", FALSE, ct)
         THEN /\ req' = [req EXCEPT ![h].at = "end"]
              /\ Answer(req[h].cl)
         ELSE /\ req' = [req EXCEPT ![h].todo = @ \ {ct}]
              /\ UNCHANGED <<processing, owed>>
  /\ UNCHANGED <<final, changes, objects, waiters, lock, requests, rep>>

(* A wait with timeout_ms = 0 is answered. *)
DontWait(h) ==
  /\ req[h].at = "check" /\ req[h].todo = {} /\ Timed
  /\ req' = [req EXCEPT ![h].at = "end"]
  /\ Answer(req[h].cl)
  /\ UNCHANGED <<final, changes, objects, waiters, lock, requests, rep>>

(* The waiter replaces the one of its kind.  An asynchronous request is    *)
(* answered now.                                                           *)
Activate(h) ==
  LET q == req[h]
      s == <<q.cl, q.kind>>
  IN /\ q.at = "check" /\ q.todo = {} /\ lock = Free
     /\ active' = active \cup {s}
     /\ names' = [names EXCEPT ![s] = q.names]
     /\ target' = [target EXCEPT ![s] = q.target]
     /\ timer' = timer \ {s} \/ (Timed /\ timer' = timer \cup {s})
     /\ late' = [late EXCEPT ![s] = q.names \cap final]
     /\ ContainerWaiters' = Append(Without(ContainerWaiters, s), s)
     /\ req' = [req EXCEPT ![h].at = "end"]
     /\ IF q.kind = "async" THEN Answer(q.cl) ELSE UNCHANGED <<processing, owed>>
     /\ UNCHANGED <<final, changes, objects, lock, requests, rep>>

FinishRequest(h) ==
  /\ req[h].at = "end"
  /\ req' = [req EXCEPT ![h] = NoRequest]
  /\ Drop(h, req[h].cl)
  /\ UNCHANGED <<final, changes, waiters, lock, processing, owed, requests, rep>>

-----------------------------------------------------------------------------
(* SetState and ReportAll.                                                 *)

(* Mutant: the change is not reported. *)
SetState_Quiet(t) ==
  /\ rep[t].at = "idle" /\ changes < MaxChanges
  /\ \E ct \in Container : final' = IF ct \in final THEN final \ {ct} ELSE final \cup {ct}
  /\ changes' = changes + 1
  /\ UNCHANGED <<objects, waiters, lock, clients, rep>>

(* The action lock of the container lets one thread at a time do this. *)
SetState(t) ==
  /\ rep[t].at = "idle" /\ changes < MaxChanges
  /\ \E ct \in Container :
       /\ \A u \in Reporter : rep[u].ct # ct
       /\ final' = IF ct \in final THEN final \ {ct} ELSE final \cup {ct}
       /\ rep' = [rep EXCEPT ![t] = [NoReport EXCEPT !.at = "lock", !.ct = ct]]
  /\ changes' = changes + 1
  /\ UNCHANGED <<objects, waiters, lock, clients>>

LockWaiters(t) ==
  /\ lock = Free
  /\ rep[t].at = "lock" \/ (t \in Handler /\ rep[t].at = "idle" /\ req[t].at = "remove")
  /\ lock' = t
  /\ rep' = [rep EXCEPT ![t].at = "walk", ![t].todo = ContainerWaiters]
  /\ UNCHANGED <<final, changes, objects, waiters, clients>>

(* Deactivate, and the client forgets the waiter. *)
Reset(s) ==
  /\ active' = active \ {s} /\ timer' = timer \ {s}
  /\ ContainerWaiters' = Without(ContainerWaiters, s)

MakeReport(c, kind) ==
  IF kind = "sync" THEN Answer(c) ELSE UNCHANGED <<processing, owed>>

Hits(s, ct) ==
  /\ ct \in names[s] /\ ShouldReport(s[2], target[s], ct)
  /\ refs[s[1]] # {}

(* Mutant: after the first report the rest of the list is left. *)
ReportNext_Once(t) ==
  LET s == Head(rep[t].todo)
      once == s[2] = "sync" \/ target[s]
  IN /\ t \in Reporter /\ rep[t].at = "walk" /\ rep[t].todo # <<>> /\ IsFree(t)
     /\ IF Hits(s, rep[t].ct)
          THEN /\ refs' = [refs EXCEPT ![s[1]] = @ \cup {t}]
               /\ rep' = [rep EXCEPT ![t].at = "drop", ![t].to = s[1], ![t].todo = <<>>]
               /\ MakeReport(s[1], s[2])
               /\ IF once THEN Reset(s) ELSE UNCHANGED <<active, timer, ContainerWaiters>>
          ELSE /\ rep' = [rep EXCEPT ![t].todo = Tail(@)]
               /\ UNCHANGED <<refs, processing, owed, active, timer, ContainerWaiters>>
     /\ UNCHANGED <<final, changes, doomed, names, target, late, lock, req, requests>>

(* The next waiter of the list.  Its client is kept alive while it gets    *)
(* the report.                                                             *)
ReportNext(t) ==
  LET s == Head(rep[t].todo)
      once == s[2] = "sync" \/ target[s]
  IN /\ t \in Reporter /\ rep[t].at = "walk" /\ rep[t].todo # <<>> /\ IsFree(t)
     /\ IF Hits(s, rep[t].ct)
          THEN /\ refs' = [refs EXCEPT ![s[1]] = @ \cup {t}]
               /\ rep' = [rep EXCEPT ![t].at = "drop", ![t].to = s[1], ![t].todo = Tail(@)]
               /\ MakeReport(s[1], s[2])
               /\ IF once THEN Reset(s) ELSE UNCHANGED <<active, timer, ContainerWaiters>>
          ELSE /\ rep' = [rep EXCEPT ![t].todo = Tail(@)]
               /\ UNCHANGED <<refs, processing, owed, active, timer, ContainerWaiters>>
     /\ UNCHANGED <<final, changes, doomed, names, target, late, lock, req, requests>>

(* The reference ends while the lock is held. *)
ReportDrop(t) ==
  /\ rep[t].at = "drop" /\ IsFree(t)
  /\ Drop(t, rep[t].to)
  /\ rep' = [rep EXCEPT ![t].at = "walk", ![t].to = Free]
  /\ UNCHANGED <<final, changes, waiters, lock, clients>>

Unlock(t) ==
  /\ rep[t].at = "walk" /\ rep[t].todo = <<>> /\ IsFree(t)
  /\ lock' = Free
  /\ rep' = [rep EXCEPT ![t] = NoReport]

ReportEnd(t) ==
  /\ t \notin Handler /\ Unlock(t)
  /\ UNCHANGED <<final, changes, objects, waiters, clients>>

(* TContainerWaiter::Remove, for a request to end an asynchronous wait: it *)
(* looks at the client of every waiter until it finds the one that is      *)
(* equal to the request's, ...                                             *)
RemoveNext(h) ==
  LET s == Head(rep[h].todo)
      q == req[h]
      same == s = <<q.cl, "async">> /\ names[s] = q.names /\ target[s] = q.target
  IN /\ h \in Handler /\ rep[h].at = "walk" /\ rep[h].todo # <<>> /\ IsFree(h)
     /\ IF refs[s[1]] = {} \/ h \in refs[s[1]]
          THEN UNCHANGED refs /\ rep' = [rep EXCEPT ![h].todo = IF same THEN <<>> ELSE Tail(@)]
          ELSE /\ refs' = [refs EXCEPT ![s[1]] = @ \cup {h}]
               /\ rep' = [rep EXCEPT ![h].at = "drop", ![h].to = s[1], ![h].todo = Tail(@)]
     /\ IF same THEN Reset(s) ELSE UNCHANGED <<active, timer, ContainerWaiters>>
     /\ UNCHANGED <<final, changes, doomed, names, target, late, lock, clients>>

(* ... and the request is answered, also if there was none. *)
RemoveEnd(h) ==
  /\ h \in Handler /\ Unlock(h)
  /\ req' = [req EXCEPT ![h].at = "end"]
  /\ Answer(req[h].cl)
  /\ UNCHANGED <<final, changes, objects, waiters, requests>>

(* Mutant: a timeout is reported to a waiter that has been served. *)
Timeout_Late(s) ==
  /\ s \in timer /\ lock = Free /\ rep[Worker].at = "idle" /\ refs[s[1]] # {}
  /\ lock' = Worker
  /\ refs' = [refs EXCEPT ![s[1]] = @ \cup {Worker}]
  /\ rep' = [rep EXCEPT ![Worker].at = "drop", ![Worker].to = s[1]]
  /\ MakeReport(s[1], s[2])
  /\ UNCHANGED <<final, changes, doomed, waiters, req, requests>>

(* TContainerWaiter::Timeout.  The waiter is gone if it was reset, and it  *)
(* finds no client if that is being destroyed.                             *)
Timeout(s) ==
  /\ s \in timer /\ lock = Free /\ rep[Worker].at = "idle" /\ refs[s[1]] # {}
  /\ lock' = Worker
  /\ refs' = [refs EXCEPT ![s[1]] = @ \cup {Worker}]
  /\ rep' = [rep EXCEPT ![Worker].at = "drop", ![Worker].to = s[1]]
  /\ MakeReport(s[1], s[2])
  /\ Reset(s)
  /\ UNCHANGED <<final, changes, doomed, names, target, late, req, requests>>

Walk(t) == ReportNext(t) \/ ReportDrop(t) \/ ReportEnd(t) \/ RemoveNext(t) \/ RemoveEnd(t)
Handle(h) == CheckState(h) \/ DontWait(h) \/ Activate(h) \/ FinishRequest(h)

Next ==
  \/ \E c \in Client : Disconnect(c) \/ DestroyClient(c)
  \/ \E h \in Handler : Request(h) \/ Handle(h)
  \/ \E t \in Reporter : SetState(t)
  \/ \E t \in Walker : LockWaiters(t) \/ Walk(t)
  \/ \E s \in Slot : Timeout(s)

Spec == Init /\ [][Next]_vars

(* Threads go on; nobody has to ask, to die or to disconnect, and no       *)
(* timeout has to come.  There are finitely many requests, so weak         *)
(* fairness is enough for who waits for the mutex.                         *)
FairSpec ==
  /\ Spec
  /\ \A h \in Handler : WF_vars(Handle(h))
  /\ \A c \in Client : WF_vars(DestroyClient(c))
  /\ \A t \in Walker : WF_vars(LockWaiters(t) \/ Walk(t))

-----------------------------------------------------------------------------
(* Properties.                                                             *)

(* The raw pointers of ContainerWaiters are good: every one is an active   *)
(* waiter of a client that is alive or just being destroyed, once.         *)
ListIsAlive ==
  /\ IsInjective(ContainerWaiters)
  /\ Range(ContainerWaiters) = active
  /\ \A s \in active : refs[s[1]] # {} \/ doomed[s[1]] # Free

(* A client is answered when it has asked: a report of death and a timeout *)
(* never answer one synchronous wait both, and the second is not taken for *)
(* the answer to a later request.                                          *)
AnsweredOnce ==
  \A c \in Client :
    /\ owed[c] = IF c \in processing THEN 1 ELSE 0
    /\ <<c, "sync">> \in active => c \in processing

(* Who waits is told: when ReportAll is through, nobody waits for a        *)
(* container that became final after the waiter was activated.             *)
ActiveIsTold ==
  \A c \in Client : <<c, "sync">> \in active /\ refs[c] # {} =>
    \A ct \in names[<<c, "sync">>] \cap final :
      ct \in late[<<c, "sync">>] \/ \E t \in Reporter : rep[t].ct = ct

Waits(c, ct) == <<c, "sync">> \in active /\ ct \in names[<<c, "sync">>] /\ refs[c] # {}

(* doc/porto.md:92, "wait - wait for container death": nobody goes on to   *)
(* wait for a container that stays dead.                                   *)
WaitEnds ==
  \A c \in Client, ct \in Container : []<>~(Waits(c, ct) /\ ct \in final)

(* As long as nobody disconnects this holds for those who waited before    *)
(* the container died.                                                     *)
ConnectedWaitEnds ==
  \A c \in Client, ct \in Container :
    []<>~(/\ Waits(c, ct) /\ ct \in final /\ ct \notin late[<<c, "sync">>]
          /\ \A d \in Client : Main \in refs[d])

(* The same also if other clients disconnect. *)
EarlyWaitEnds ==
  \A c \in Client, ct \in Container :
    []<>~(Waits(c, ct) /\ ct \in final /\ ct \notin late[<<c, "sync">>])
=============================================================================
