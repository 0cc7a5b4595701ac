---------------------------- MODULE RequestFence ----------------------------
(***************************************************************************)
(* The requests of clients on their way through a request queue, and the   *)
(* graceful shutdown of the server that waits for them (src/src/rpc.cpp,   *)
(* src/src/server.cpp).                                                    *)
(*                                                                         *)
(* TFence is one atomic word: the number of requests inside, and a flag in *)
(* its top bit.  Shutdown sets the flag; who brings the word to exactly    *)
(* the flag signals an eventfd, on which the server's loop closes idle     *)
(* clients and then waits until the others have got their answers.  A      *)
(* timer bounds the wait for the fence, a deadline the one for the clients. *)
(*                                                                         *)
(* Requests are of the queues that have a fence (RW and VL), and removals  *)
(* of layers and storages (IO), whose handlers enter and leave the fence   *)
(* themselves.  A client has one request at a time: it is not read while   *)
(* Processing.  It may leave at any time, stop in the middle of a request, *)
(* or not read its answer.                                                 *)
(***************************************************************************)
EXTENDS Integers, Sequences, SequencesExt, FiniteSets

CONSTANTS
  Client, Worker,
  Width,         \* bits of the word, 64 in the code
  MaxLeaked,     \* bound: removals that return without Leave
  NoClient

ASSUME WidthAssumption == Width \in Nat /\ Width >= 3

F == 2^(Width - 1)
F1 == 2^(Width - 2)
Word == 0..(2^Width - 1)

VARIABLES
  Count,    \* TFence::Count
  evfd,     \* the eventfd is readable
  at,       \* where a worker is in TRequest::Handle
  seen,     \* the value of Count that Enter compares with
  serves,   \* the client whose request a worker handles
  kind,     \* of that request: of a queue with a fence, or a removal
  leaked,   \* removals that have returned without Leave
  conn,     \* the connection of a client
  queue,    \* the requests that no worker has taken
  hup,      \* SIGHUP has come: the graceful timer is armed
  broken,   \* history: a refused request has left the fence
  expired,  \* history: portod_shutdown_timeout has passed
  phase     \* the server's loop

work == <<at, seen, serves, kind, leaked>>
vars == <<Count, evfd, work, conn, queue, hup, broken, expired, phase>>

Place == {"idle", "load", "cas", "inside", "reply", "leave", "left", "last-reply"}
Refused == {"refused", "outside", "reply-refused", "leave-refused"}

(* A connection: part of a request is read; the request is queued or at    *)
(* work; a worker, under the client's lock, is about to answer; the answer *)
(* is in the buffer and nothing of it is sent, or a part is; all is sent   *)
(* and the socket shut down; it is closed as soon as the worker has        *)
(* answered; the server has closed it; the client has left.                *)
Connection == {"idle", "receiving", "processing", "answering", "unsent", "partial", "hup",
               "last", "closed", "gone"}
Phase == {"serving", "shutdown", "stopping", "joining", "stopped", "crashed"}

TypeOK ==
  /\ Count \in Word /\ evfd \in BOOLEAN
  /\ at \in [Worker -> Place \cup Refused]
  /\ seen \in [Worker -> Word]
  /\ serves \in [Worker -> Client \cup {NoClient}]
  /\ kind \in [Worker -> {"fenced", "removal"}] /\ leaked \in 0..MaxLeaked
  /\ conn \in [Client -> Connection]
  /\ queue \in Seq(Client)
  /\ hup \in BOOLEAN /\ broken \in BOOLEAN /\ expired \in BOOLEAN /\ phase \in Phase

Init ==
  /\ Count = 0 /\ evfd = FALSE
  /\ at = [w \in Worker |-> "idle"]
  /\ seen = [w \in Worker |-> 0]
  /\ serves = [w \in Worker |-> NoClient]
  /\ kind = [w \in Worker |-> "fenced"] /\ leaked = 0
  /\ conn = [c \in Client |-> "idle"]
  /\ queue = <<>>
  /\ hup = FALSE /\ broken = FALSE /\ expired = FALSE /\ phase = "serving"

Alive == phase \notin {"stopped", "crashed"}

-----------------------------------------------------------------------------
(* The server's loop.                                                      *)

Looping == phase \in {"serving", "shutdown"}

(* The client's end of the connection: in the loop only conn changes. *)
Turn(c, from, to) ==
  /\ Looping /\ conn[c] \in from
  /\ conn' = [conn EXCEPT ![c] = to]
  /\ UNCHANGED <<Count, evfd, work, queue, hup, broken, expired, phase>>

(* A part of a request comes; Offset is no longer zero. *)
ReadRequest(c) == Turn(c, {"idle"}, "receiving")

(* The rest of it comes: it is queued. *)
QueueRequest(c) ==
  /\ Looping /\ conn[c] \in {"idle", "receiving"}
  /\ conn' = [conn EXCEPT ![c] = "processing"]
  /\ queue' = Append(queue, c)
  /\ UNCHANGED <<Count, evfd, work, hup, broken, expired, phase>>

(* All of an answer is sent: the input is watched again, or, when the      *)
(* server shuts down, the socket is shut down.                             *)
AllSent == IF phase = "serving" THEN "idle" ELSE "hup"

(* EPOLLOUT: more of the answer goes out. *)
SendResponse(c) ==
  \/ Turn(c, {"unsent", "partial"}, AllSent)
  \/ Turn(c, {"unsent"}, "partial")

(* EPOLLHUP: the client has closed the connection; its request stays where *)
(* it is.  Or the server has shut the socket down.                         *)
ConnectionLost(c) ==
  \/ Turn(c, {"idle", "receiving", "processing", "unsent", "partial"}, "gone")
  \/ Turn(c, {"hup"}, "closed")

HasFlag(c) == c >= F
IsOverflow(c) == (c \div F1) % 2 = 1

(* SIGHUP: TFence::Shutdown.  Once more is allowed. *)
StartGracefulShutdown ==
  /\ Looping
  /\ hup' = TRUE
  /\ Count' = IF HasFlag(Count) THEN Count ELSE Count + F
  /\ evfd' = (evfd \/ Count = 0)
  /\ UNCHANGED <<work, conn, queue, broken, expired, phase>>

(* IsBlockShutdown: Processing, or Offset is not zero.  An answer of which *)
(* nothing is sent yet does not count.                                     *)
Blocks == {"processing", "receiving", "partial"}

(* CloseConnection has to wait for the lock of a client that is about to   *)
(* be answered.                                                            *)
Closed(keep) ==
  [c \in Client |-> CASE conn[c] \in keep \cup {"gone", "last"} -> conn[c]
                     [] conn[c] = "answering"                  -> "last"
                     [] OTHER                                  -> "closed"]

(* Mutant: only those count whose buffer is in use. *)
StartShutdown_Offset ==
  /\ phase = "serving"
  /\ phase' = "shutdown"
  /\ conn' = Closed({"receiving", "partial"})

(* The eventfd, the timer or SIGTERM: idle clients are closed. *)
StartShutdown ==
  /\ phase = "serving"
  /\ phase' = "shutdown"
  /\ conn' = Closed(Blocks)

GracefulShutdownSatisfied ==
  /\ evfd /\ evfd' = FALSE
  /\ Looping
  /\ IF phase = "serving" THEN StartShutdown ELSE UNCHANGED <<phase, conn>>
  /\ UNCHANGED <<Count, work, queue, hup, broken, expired>>

GracefulShutdownTimeout ==
  /\ hup
  /\ StartShutdown
  /\ UNCHANGED <<Count, evfd, work, queue, hup, broken, expired>>

Terminate ==
  /\ StartShutdown
  /\ UNCHANGED <<Count, evfd, work, queue, hup, broken, expired>>

(* The loop ends: who is still served gets an answer before the connection *)
(* is closed.                                                              *)
LeaveLoop ==
  /\ phase = "shutdown"
  /\ phase' = "stopping"
  /\ conn' = [c \in Client |-> IF conn[c] = "processing" THEN "last" ELSE Closed({})[c]]
  /\ UNCHANGED <<Count, evfd, work, queue, hup, broken>>

AllGone == \A c \in Client : conn[c] \in {"closed", "gone"}

AllClientsGone == AllGone /\ LeaveLoop /\ UNCHANGED expired

(* portod_shutdown_timeout. *)
DeadlinePasses == ~AllGone /\ LeaveLoop /\ expired' = TRUE

(* Mutant: Stop waits until the queue is empty. *)
StopRpcQueue_Drain ==
  /\ \/ phase = "stopping" /\ phase' = "joining"
     \/ /\ phase = "joining" /\ (\A w \in Worker : at[w] = "idle")
        /\ queue = <<>> /\ phase' = "stopped"
  /\ UNCHANGED <<Count, evfd, work, conn, queue, hup, broken, expired>>

(* TRequestQueue::Stop: the threads finish what they have taken, and       *)
(* nothing else: what is still queued is dropped.                          *)
StopRpcQueue ==
  /\ \/ phase = "stopping" /\ phase' = "joining"
     \/ phase = "joining" /\ (\A w \in Worker : at[w] = "idle") /\ phase' = "stopped"
  /\ UNCHANGED <<Count, evfd, work, conn, queue, hup, broken, expired>>

-----------------------------------------------------------------------------
(* A worker of a request queue.                                            *)

Go(w, from, to) == at[w] = from /\ at' = [at EXCEPT ![w] = to]

TakeRequest(w) ==
  /\ phase \in {"serving", "shutdown", "stopping"} /\ queue # <<>>
  /\ Go(w, "idle", "load")
  /\ serves' = [serves EXCEPT ![w] = Head(queue)]
  /\ queue' = Tail(queue)
  /\ \E k \in {"fenced", "removal"} : kind' = [kind EXCEPT ![w] = k]
  /\ UNCHANGED <<Count, evfd, seen, leaked, conn, hup, broken, expired, phase>>

(* What Enter does with a value that it has just read.  PORTO_ASSERT kills *)
(* the process.                                                            *)
Look(w, c) ==
  IF c = F
    THEN /\ at' = [at EXCEPT ![w] = "refused"]
         /\ seen' = [seen EXCEPT ![w] = 0]
         /\ UNCHANGED phase
    ELSE IF IsOverflow(c)
           THEN phase' = "crashed" /\ UNCHANGED <<at, seen>>
           ELSE /\ at' = [at EXCEPT ![w] = "cas"]
                /\ seen' = [seen EXCEPT ![w] = c]
                /\ UNCHANGED phase

EnterLoad(w) ==
  /\ Alive /\ at[w] = "load"
  /\ Look(w, Count)
  /\ UNCHANGED <<Count, evfd, serves, kind, leaked, conn, queue, hup, broken, expired>>

(* compare_exchange_weak gives the new value when it fails. *)
EnterExchange(w) ==
  /\ Alive /\ at[w] = "cas"
  /\ IF Count = seen[w]
       THEN /\ Count' = Count + 1
            /\ at' = [at EXCEPT ![w] = "inside"]
            /\ seen' = [seen EXCEPT ![w] = 0]
            /\ UNCHANGED phase
       ELSE /\ Look(w, Count)
            /\ UNCHANGED Count
  /\ UNCHANGED <<evfd, serves, kind, leaked, conn, queue, hup, broken, expired>>

(* The request is done: Processing ends. *)
Finish(c) ==
  conn' = IF conn[c] = "processing" THEN [conn EXCEPT ![c] = "answering"] ELSE conn

(* A request that was refused is executed as well, outside of the fence:   *)
(* only if Verbose is set is it left at the error.                         *)
RunRefused(w) ==
  /\ Alive /\ kind[w] = "fenced"
  /\ Go(w, "refused", "outside")
  /\ UNCHANGED <<Count, evfd, seen, serves, kind, leaked, conn, queue, hup, broken, expired,
                 phase>>

Handle(w) ==
  /\ Alive /\ kind[w] = "fenced"
  /\ \/ Go(w, "inside", "reply")
     \/ Go(w, "refused", "reply-refused")
     \/ Go(w, "outside", "reply-refused")
  /\ Finish(serves[w])
  /\ UNCHANGED <<Count, evfd, seen, serves, kind, leaked, queue, hup, broken, expired, phase>>

(* The answer is written to the socket: all of it, a part, or nothing if   *)
(* the client does not read.  If it is to be the last thing the connection *)
(* is closed whatever was sent.                                            *)
Sent(c) ==
  \/ /\ conn[c] = "answering"
     /\ \E next \in {AllSent, "unsent", "partial"} : conn' = [conn EXCEPT ![c] = next]
  \/ conn[c] = "last" /\ conn' = [conn EXCEPT ![c] = "closed"]
  \/ conn[c] \notin {"answering", "last"} /\ UNCHANGED conn

Answer(w) ==
  /\ Alive
  /\ \/ Go(w, "reply", "leave") /\ UNCHANGED <<serves, kind>>
     \/ Go(w, "reply-refused", "leave-refused") /\ UNCHANGED <<serves, kind>>
     \/ /\ Go(w, "last-reply", "idle")
        /\ serves' = [serves EXCEPT ![w] = NoClient]
        /\ kind' = [kind EXCEPT ![w] = "fenced"]
  /\ Sent(serves[w])
  /\ UNCHANGED <<Count, evfd, seen, leaked, queue, hup, broken, expired, phase>>

(* The word after a decrement, and the signal of who brings it to the flag. *)
Decrement ==
  /\ Count' = (Count - 1) % 2^Width
  /\ evfd' = (evfd \/ Count' = F)

Leaving(w) ==
  /\ Alive /\ at[w] \in {"leave", "leave-refused"}
  /\ at' = [at EXCEPT ![w] = "idle"]
  /\ serves' = [serves EXCEPT ![w] = NoClient]
  /\ broken' = (broken \/ at[w] = "leave-refused")
  /\ UNCHANGED <<seen, kind, leaked, conn, queue, hup, expired, phase>>

(* Mutant: the flag is tested before the word is decremented. *)
Leave_Early(w) ==
  /\ Leaving(w)
  /\ Count' = (Count - 1) % 2^Width
  /\ evfd' = (evfd \/ HasFlag(Count))

(* The deferred Leave, which comes for refused requests as well. *)
Leave(w) == Leaving(w) /\ Decrement

(* RemoveLayer, RemoveStorage, ...: they leave before the answer, and not  *)
(* at all if they were refused, or if the place is not resolved.           *)
HandleRemoval(w) ==
  /\ Alive /\ kind[w] = "removal"
  /\ \/ Go(w, "inside", "left") /\ Decrement /\ UNCHANGED <<conn, leaked>>
     \/ /\ \E from \in {"inside", "left", "refused"} : Go(w, from, "last-reply")
        /\ Finish(serves[w])
        /\ leaked' = IF at[w] = "inside" THEN leaked + 1 ELSE leaked
        /\ leaked' <= MaxLeaked
        /\ UNCHANGED <<Count, evfd>>
  /\ UNCHANGED <<seen, serves, kind, queue, hup, broken, expired, phase>>

Step(w) ==
  \/ TakeRequest(w) \/ EnterLoad(w) \/ EnterExchange(w)
  \/ RunRefused(w) \/ Handle(w) \/ HandleRemoval(w) \/ Answer(w) \/ Leave(w)

Next ==
  \/ \E c \in Client : \/ ReadRequest(c) \/ QueueRequest(c)
                      \/ SendResponse(c) \/ ConnectionLost(c)
  \/ StartGracefulShutdown \/ GracefulShutdownSatisfied \/ GracefulShutdownTimeout
  \/ Terminate \/ AllClientsGone \/ DeadlinePasses \/ StopRpcQueue
  \/ \E w \in Worker : Step(w)

Spec == Init /\ [][Next]_vars

(* The loop and the workers go on, requests end, and the timers fire: the  *)
(* graceful one and, since epoll returns every second, the deadline.  No   *)
(* client has to do anything.                                              *)
FairSpec ==
  /\ Spec
  /\ WF_vars(GracefulShutdownSatisfied \/ GracefulShutdownTimeout)
  /\ WF_vars(AllClientsGone \/ DeadlinePasses) /\ WF_vars(StopRpcQueue)
  /\ \A w \in Worker : WF_vars(Step(w))

-----------------------------------------------------------------------------
(* Properties.                                                             *)

Inside == {w \in Worker : at[w] \in {"inside", "reply", "leave"}}

(* The eventfd is readable exactly while nobody is inside after SIGHUP:    *)
(* the server neither starts to close connections because of the fence     *)
(* while an admitted request runs, nor misses the last one that leaves,    *)
(* however Enter, Leave and Shutdown race for the word.  Who leaves        *)
(* without having entered breaks the word, and who never leaves keeps the  *)
(* signal back.                                                            *)
SignalledWhenEmpty ==
  phase = "serving" /\ ~broken => (evfd <=> hup /\ Inside = {} /\ leaked = 0)

(* The server closes no connection whose request waits or is at work; and  *)
(* when it ends, the only requests it has dropped from its queue are of    *)
(* clients that have left, unless the deadline has passed.                 *)
ShutdownKeepsRequests ==
  /\ \A c \in Client : conn[c] = "closed" =>
       /\ c \notin ToSet(queue)
       /\ \A w \in Worker : serves[w] = c =>
            at[w] \in {"leave", "leave-refused"}
  /\ phase = "stopped" /\ ~expired =>
       \A c \in ToSet(queue) : conn[c] = "gone"

(* After SIGHUP the server ends in order, whatever the clients do: send    *)
(* one request after the other, stop in the middle of one, not read their  *)
(* answers, or leave; and although a removal may never leave the fence.    *)
(* It is killed by the assertion of Enter only if a refused request has    *)
(* left the fence before.                                                  *)
ShutdownCompletes ==
  hup ~> phase = "stopped" \/ (phase = "crashed" /\ broken)

-----------------------------------------------------------------------------
(* What one would expect, and the code does not keep.                      *)

(* src/src/rpc.cpp:82, "fail-fast on overflow": the assertion of Enter     *)
(* fails only if there are too many requests, which cannot be here.        *)
NoOverflow ==
  Cardinality(Worker) < F1 => phase # "crashed"

(* Before the deadline no connection is closed under an answer: one that   *)
(* is still in the buffer as a whole does not block the shutdown.          *)
AnswersAreSent ==
  [][\A c \in Client : conn[c] \in {"unsent", "partial"} /\ conn'[c] = "closed" => expired']_vars
=============================================================================
