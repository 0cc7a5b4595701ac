------------------------------ MODULE Volumes ------------------------------
(***************************************************************************)
(* Volumes and their links (src/src/volume.cpp: Create, Destroy,           *)
(* LinkVolume, UnlinkVolume, MountLink, UmountLink, Tune, CheckRequired;   *)
(* the requests of src/src/rpc.cpp that call them).                        *)
(*                                                                         *)
(* VolumesMutex protects all volumes but is released around everything     *)
(* slow: building, mounting, taking the lock of a container.  A request is *)
(* cut at these places; between two of them it is one step.  A thread that *)
(* sleeps on VolumesCv goes on only after a notification.                  *)
(***************************************************************************)
EXTENDS Integers, FiniteSets, SequencesExt

CONSTANTS
  Volume, Container, Root,
  Client,     \* the container that creates volumes
  Path,       \* paths in the host
  NoPath,
  Outer,      \* the next enclosing path of a path, or NoPath
  PathOf,     \* the path of a volume
  Internal,   \* volumes that live at their internal path
  DependsOn,  \* the directory of the path, the place, storage and layers, in order
  SpecLinks,  \* links in the specification of a new volume: <<ct, target>>
  Existing,   \* links of the volumes that exist: <<volume, ct, target>>
  LinkTargets,   \* links that clients ask for: <<ct, target>>
  UnlinkTargets, \* ... and ask to remove
  UnlinkModes,   \* in which way: <<all links of ct, strict>>
  RequiredAt, \* targets whose links are required
  Ops,        \* requests of the clients
  MaxTotal,   \* config: volumes/max_total
  MaxLink,    \* bound: link objects
  Requests,   \* bound: requests, each in a thread of its own
  MaxFaults   \* bound: builds, mounts, saves and stops that fail

VARIABLES
  st, nested, dep, owner, links, backend,     \* TVolume
  alive, held, run, req, ctLinks, mounts,     \* TContainer
  index,                                      \* VolumeLinks: link ids by path
  lk,                                         \* TVolumeLink objects, by id
  th, mutex, asleep,                          \* threads, VolumesMutex, VolumesCv
  needs, uses, unstopped,                     \* history
  faults

volumes == <<st, nested, dep, owner, links, backend>>
containers == <<alive, held, run, req, ctLinks, mounts>>
vars == <<volumes, containers, index, lk, th, mutex, asleep, needs, uses, unstopped, faults>>

Thread == 1..Requests
NoOne == 0
Idle == [pc |-> "idle", by |-> "", vol |-> NoOne, ct |-> NoOne, target |-> NoPath,
         all |-> FALSE, strict |-> FALSE, was |-> FALSE, err |-> FALSE,
         link |-> 0, common |-> 0, todo |-> <<>>, unlinked |-> <<>>,
         self |-> NoOne, plan |-> <<>>, pos |-> 0, stop |-> FALSE]

Up == {"Ready", "Tuning"}
Registered(v) == owner[v] # NoOne
Pc(t) == th[t].pc
Go(t, pc) == th' = [th EXCEPT ![t].pc = pc]
Locked(t) == mutex \in {NoOne, t} /\ t \notin asleep

(* Mutant: only Ready wakes the sleepers. *)
SetState_ReadyOnly(v, s) ==
  /\ st' = [st EXCEPT ![v] = s]
  /\ asleep' = IF s = "Ready" THEN {} ELSE asleep

(* SetState wakes the sleepers for two of the states only. *)
SetState(v, s) ==
  /\ st' = [st EXCEPT ![v] = s]
  /\ asleep' = IF s \in {"Ready", "Destroyed"} THEN {} ELSE asleep

-----------------------------------------------------------------------------
(* Paths.                                                                  *)

Enclosing ==
  LET up[p \in Path] == IF Outer[p] = NoPath THEN <<p>> ELSE <<p>> \o up[Outer[p]]
  IN up

Around == [p \in Path |-> ToSet(Enclosing[p])]
IsInside(p, q) == p # NoPath /\ q \in Around[p]

(* ResolveOriginLocked: the link at the nearest enclosing path. *)
ResolveOrigin(ix, p) ==
  LET q == SelectSeq(Enclosing[p], LAMBDA e : ix[e] # 0)
  IN IF q = <<>> THEN 0 ELSE ix[Head(q)]

(* CheckConflicts, for a link l that is about to be mounted or for none. *)
Conflict(p, l) ==
  \E v \in Volume : Registered(v) /\
    \/ IsInside(PathOf[v], p)
    \/ IsInside(p, PathOf[v]) /\ st[v] \notin Up
    \/ \E k \in ToSet(links[v]) \ {l} : IsInside(lk[k].host, p)

(* TContainer and its parents, whose VolumeMounts count a link. *)
Chain(c) == {c, Root}
Count(S, m, n) == [c \in DOMAIN m |-> IF c \in S THEN m[c] + n ELSE m[c]]

NewLink(v, c, p, host, busy) ==
  [vol |-> v, ct |-> c, target |-> p, host |-> host, busy |-> busy]
NoLink == [vol |-> NoOne, ct |-> NoOne, target |-> NoPath, host |-> NoPath, busy |-> FALSE]
FreeLink == CHOOSE l \in 1..MaxLink :
              lk[l] = NoLink /\ \A k \in 1..(l - 1) : lk[k] # NoLink
HasFreeLink == \E l \in 1..MaxLink : lk[l] = NoLink

-----------------------------------------------------------------------------
(* Create, up to the registration of the volume.                           *)

(* CheckDependencies: what the paths lead to must be ready, and is not the *)
(* link l of the new volume itself, which is not ready yet.  If one is not *)
(* the volume is taken out of Nested again, and Create changes nothing.    *)
Found(v, ix) == [i \in DOMAIN DependsOn[v] |-> ResolveOrigin(ix, DependsOn[v][i])]

(* Mutant: a volume that is about to go is good enough to build on. *)
CanDepend_Any(k, l) == TRUE

CanDepend(k, l) == k # 0 => (k # l /\ st[lk[k].vol] \in Up)

(* The volumes of the links that were found. *)
Origins(found) == {lk[found[i]].vol : i \in {j \in DOMAIN found : found[j] # 0}}
Nest(v, S) == nested' = [w \in Volume |-> IF w \in S THEN nested[w] \cup {v} ELSE nested[w]]

(* Requests come one after the other, to one thread after the other. *)
Request(t, op) ==
  /\ op \in Ops
  /\ Pc(t) = "idle" /\ \A u \in Thread : u < t => Pc(u) # "idle"
  /\ mutex = NoOne

Create(t, v) ==
  LET l == FreeLink
      own == IF v \in Internal THEN [index EXCEPT ![PathOf[v]] = l] ELSE index
      found == Found(v, own) IN
  /\ Request(t, "create")
  /\ st[v] = "Initial" /\ alive[Client] /\ held[Client] = NoOne
  /\ Cardinality({w \in Volume : Registered(w)}) < MaxTotal
  /\ HasFreeLink
  /\ ~Conflict(PathOf[v], 0)
  /\ \A i \in DOMAIN found : CanDepend(found[i], l)
  /\ lk' = [lk EXCEPT ![l] = NewLink(v, Root, PathOf[v], PathOf[v], TRUE)]
  /\ index' = own
  /\ mounts' = IF v \in Internal THEN Count({Root}, mounts, 1) ELSE mounts
  /\ Nest(v, Origins(found))
  /\ needs' = [needs EXCEPT ![v] = Origins(found)]
  /\ owner' = [owner EXCEPT ![v] = Client]
  /\ SetState(v, "Building")
  /\ th' = [th EXCEPT ![t] = [Idle EXCEPT !.pc = "build", !.vol = v, !.common = l,
                                          !.todo = SpecLinks[v]]]
  /\ UNCHANGED <<dep, links, backend, alive, held, run, req, ctLinks, mutex, uses, unstopped,
                 faults>>

Fault == faults > 0 /\ faults' = faults - 1

Build(t) ==
  /\ Pc(t) = "build"
  /\ backend' = [backend EXCEPT ![th[t].vol] = TRUE]
  /\ \/ Go(t, "addlinks") /\ UNCHANGED faults
     \/ Fault /\ Go(t, "undo")
  /\ UNCHANGED <<st, nested, dep, owner, links, containers, index, lk, mutex, asleep, needs, uses, unstopped>>

(* LinkVolume under VolumesMutex: the new link is busy until it is mounted.*)
AddLink(l, v, c, p, host, busy) ==
  /\ lk' = [lk EXCEPT ![l] = NewLink(v, c, p, host, busy)]
  /\ links' = [links EXCEPT ![v] = Append(@, l)]
  /\ ctLinks' = [ctLinks EXCEPT ![c] = Append(@, l)]
  /\ req' = IF p \in RequiredAt THEN [req EXCEPT ![c] = @ \cup {p}] ELSE req
  /\ dep' = IF p \in RequiredAt \cup req[c] THEN [dep EXCEPT ![v] = TRUE] ELSE dep

(* LinkVolume when the volume is not to be mounted: Save fails, and all is *)
(* taken back but the mark of the volume.                                  *)
AddLinkFails(v, c, p) ==
  /\ Fault
  /\ dep' = IF p \in RequiredAt \cup req[c] THEN [dep EXCEPT ![v] = TRUE] ELSE dep
  /\ UNCHANGED <<lk, links, ctLinks, req>>

(* The links of the specification; they are mounted later. *)
AddLinks(t) ==
  LET v == th[t].vol
      c == Head(th[t].todo)[1]
      p == Head(th[t].todo)[2] IN
  /\ Pc(t) = "addlinks" /\ mutex = NoOne
  /\ IF th[t].todo = <<>>
       THEN /\ \/ /\ th' = [th EXCEPT ![t].pc = IF v \in Internal THEN "mountlinks" ELSE "mount",
                                      ![t].by = "common", ![t].link = th[t].common]
                  /\ UNCHANGED faults
               \/ Fault /\ Go(t, "undo")
            /\ UNCHANGED <<lk, links, ctLinks, req, dep>>
       ELSE IF ~alive[c]
       THEN Go(t, "undo") /\ UNCHANGED <<lk, links, ctLinks, req, dep, faults>>
       ELSE /\ held[c] = NoOne
            /\ \/ /\ HasFreeLink
                  /\ AddLink(FreeLink, v, c, p, NoPath, FALSE)
                  /\ th' = [th EXCEPT ![t].todo = Tail(@)]
                  /\ UNCHANGED faults
               \/ AddLinkFails(v, c, p) /\ Go(t, "undo")
  /\ UNCHANGED <<st, nested, owner, backend, alive, held, run, mounts, index, mutex, asleep,
                 needs, uses, unstopped>>

(* next_link: mount what is not mounted yet, and then the volume is ready. *)
MountLinks(t) ==
  LET v == th[t].vol
      todo == SelectSeq(links[v], LAMBDA l : lk[l].target # NoPath /\ lk[l].host = NoPath) IN
  /\ Pc(t) = "mountlinks" /\ mutex = NoOne
  /\ IF todo # <<>>
       THEN /\ lk' = [lk EXCEPT ![Head(todo)].busy = TRUE]
            /\ th' = [th EXCEPT ![t].pc = "mount", ![t].by = "create", ![t].link = Head(todo)]
            /\ UNCHANGED <<st, asleep, faults>>
       ELSE /\ lk' = [lk EXCEPT ![th[t].common].busy = FALSE]
            /\ SetState(v, "Ready")
            /\ \/ th' = [th EXCEPT ![t] = [Idle EXCEPT !.pc = "done"]] /\ UNCHANGED faults
               \/ Fault /\ Go(t, "undo")
  /\ UNCHANGED <<nested, dep, owner, links, backend, containers, index, mutex, needs, uses, unstopped>>

Undo(t) ==
  /\ Pc(t) = "undo"
  /\ lk' = [lk EXCEPT ![th[t].common].busy = FALSE]
  /\ th' = [th EXCEPT ![t] = [Idle EXCEPT !.pc = "next", !.unlinked = <<th[t].vol>>]]
  /\ UNCHANGED <<volumes, containers, index, mutex, asleep, needs, uses, unstopped, faults>>

-----------------------------------------------------------------------------
(* LinkVolume and MountLink.                                               *)

Resolvable(v) == \E p \in Path : index[p] # 0 /\ lk[index[p]].vol = v

(* A request on container c and on a volume that is found by a path. *)
Control(t, op, v, c) ==
  /\ Request(t, op) /\ Resolvable(v)
  /\ alive[c] /\ held[c] = NoOne
  /\ held' = [held EXCEPT ![c] = t]

Release(t) == held' = [c \in Container |-> IF held[c] = t THEN NoOne ELSE held[c]]
Done(t) == th' = [th EXCEPT ![t] = [Idle EXCEPT !.pc = "done"]]

LinkRequest(t, v, c, p) ==
  /\ Control(t, "link", v, c)
  /\ th' = [th EXCEPT ![t] = [Idle EXCEPT !.pc = "link", !.vol = v, !.ct = c, !.target = p]]
  /\ UNCHANGED <<volumes, alive, run, req, ctLinks, mounts, index, lk, mutex, asleep,
                 needs, uses, unstopped, faults>>

LinkVolume(t) ==
  LET v == th[t].vol
      c == th[t].ct
      p == th[t].target
      mount == p # NoPath /\ st[v] \in Up IN
  /\ Pc(t) = "link" /\ mutex = NoOne
  /\ IF \/ \E l \in ToSet(links[v]) : lk[l].ct = c /\ lk[l].target = p
        \/ st[v] \notin Up \cup {"Building"}
        \/ mount /\ Conflict(p, 0)
       THEN Release(t) /\ Done(t) /\ UNCHANGED <<lk, links, ctLinks, req, dep, faults>>
       ELSE IF mount
       THEN /\ HasFreeLink
            /\ AddLink(FreeLink, v, c, p, p, TRUE)
            /\ \E ok \in BOOLEAN :
                 /\ IF ok THEN UNCHANGED faults ELSE Fault   \* Save
                 /\ th' = [th EXCEPT ![t].pc = IF ok THEN "mount" ELSE "unmounted",
                                     ![t].by = "link", ![t].link = FreeLink,
                                     ![t].was = p \in req[c]]
            /\ UNCHANGED held
       ELSE /\ \/ HasFreeLink /\ AddLink(FreeLink, v, c, p, NoPath, FALSE) /\ UNCHANGED faults
               \/ AddLinkFails(v, c, p)
            /\ Release(t) /\ Done(t)
  /\ UNCHANGED <<st, nested, owner, backend, alive, run, mounts, index, mutex, asleep,
                 needs, uses, unstopped>>

(* MountLink puts the link into the index, then mounts it. *)
MountLink(t) ==
  LET l == th[t].link
      v == lk[l].vol
      p == lk[l].target IN
  /\ Pc(t) = "mount" /\ mutex = NoOne
  /\ IF st[v] \notin Up \cup {"Building"}
       THEN Go(t, "unmounted") /\ UNCHANGED <<lk, index, mounts>>
     ELSE IF p # PathOf[v] /\ Conflict(p, l)
       THEN Go(t, "unmounted") /\ lk' = [lk EXCEPT ![l].host = NoPath] /\ UNCHANGED <<index, mounts>>
     ELSE /\ lk' = [lk EXCEPT ![l].host = p]
          /\ index' = IF index[p] = 0 THEN [index EXCEPT ![p] = l] ELSE index
          /\ mounts' = Count(Chain(lk[l].ct),
                             IF index[p] = 0 THEN mounts
                                             ELSE Count(Chain(lk[index[p]].ct), mounts, -1), 1)
          /\ Go(t, "bind")
  /\ UNCHANGED <<volumes, alive, held, run, req, ctLinks, mutex, asleep, needs, uses, unstopped, faults>>

(* A failed mount is taken back, unless somebody has done that already. *)
Bind(t) ==
  LET l == th[t].link
      p == lk[l].host IN
  /\ Pc(t) = "bind"
  /\ \/ Go(t, "mounted") /\ UNCHANGED <<lk, index, mounts, faults>>
     \/ /\ Fault /\ mutex = NoOne
        /\ Go(t, "unmounted")
        /\ lk' = [lk EXCEPT ![l].host = NoPath]
        /\ IF p = NoPath THEN UNCHANGED <<index, mounts>>
           ELSE index' = [index EXCEPT ![p] = 0] /\ mounts' = Count(Chain(lk[l].ct), mounts, -1)
  /\ UNCHANGED <<volumes, alive, held, run, req, ctLinks, mutex, asleep, needs, uses, unstopped>>

(* What the callers of MountLink do when it returns. *)
Mounted(t) ==
  LET l == th[t].link IN
  /\ Pc(t) = "mounted"
  /\ lk' = IF th[t].by = "common" THEN lk ELSE [lk EXCEPT ![l].busy = FALSE]
  /\ IF th[t].by = "link" THEN Release(t) /\ Done(t)
                          ELSE Go(t, "mountlinks") /\ UNCHANGED held
  /\ UNCHANGED <<volumes, alive, run, req, ctLinks, mounts, index, mutex, asleep, needs, uses, unstopped, faults>>

Unmounted(t) ==
  LET l == th[t].link
      c == lk[l].ct IN
  /\ Pc(t) = "unmounted" /\ mutex = NoOne
  /\ lk' = IF th[t].by = "common" THEN lk ELSE [lk EXCEPT ![l].busy = FALSE]
  /\ IF th[t].by = "link"
       THEN /\ links' = [links EXCEPT ![lk[l].vol] = Remove(@, l)]
            /\ ctLinks' = [ctLinks EXCEPT ![c] = Remove(@, l)]
            /\ req' = IF th[t].was THEN req ELSE [req EXCEPT ![c] = @ \ {lk[l].target}]
            /\ Release(t) /\ Done(t)
       ELSE Go(t, "undo") /\ UNCHANGED <<links, ctLinks, req, held>>
  /\ UNCHANGED <<st, nested, dep, owner, backend, alive, run, mounts, index, mutex, asleep,
                 needs, uses, unstopped, faults>>

-----------------------------------------------------------------------------
(* UnlinkVolume and UmountLink, called for a request, for the destruction  *)
(* of a container ("all") or of a volume ("destroy").                      *)

UnlinkRequest(t, v, c, p, mode) ==
  /\ Control(t, "unlink", v, c)
  /\ th' = [th EXCEPT ![t] = [Idle EXCEPT !.pc = "find", !.by = "unlink", !.vol = v, !.ct = c,
                                          !.target = p, !.all = mode[1], !.strict = mode[2]]]
  /\ UNCHANGED <<volumes, alive, run, req, ctLinks, mounts, index, lk, mutex, asleep,
                 needs, uses, unstopped, faults>>

(* The list that takes the volumes without links: a destroyed volume's     *)
(* plan, or the list to be destroyed when the container is released.       *)
Collect(rec, vs) ==
  IF rec.by = "destroy" THEN [rec EXCEPT !.plan = @ \o vs] ELSE [rec EXCEPT !.unlinked = @ \o vs]

(* The return from UnlinkVolume. *)
Return(t, rec, err) ==
  /\ th' = [th EXCEPT ![t] =
       CASE rec.by = "unlink"  -> [Idle EXCEPT !.pc = "next", !.unlinked = rec.unlinked]
         [] rec.by = "all"     -> [rec EXCEPT !.pc = "all", !.err = err]
         [] rec.by = "destroy" -> [rec EXCEPT !.pc = "detach", !.err = err]]
  /\ IF rec.by = "all" THEN UNCHANGED held ELSE Release(t)

(* Mutant: the list of the container keeps the link. *)
DropLink_KeepList(t, l) ==
  LET v == lk[l].vol
      last == Remove(links[v], l) = <<>> /\ st[v] \in Up
      rec == IF last THEN Collect(th[t], <<v>>) ELSE th[t] IN
  /\ links' = [links EXCEPT ![v] = Remove(@, l)]
  /\ UNCHANGED ctLinks
  /\ st' = IF last THEN [st EXCEPT ![v] = "Unlinked"] ELSE st
  /\ IF rec.all
       THEN th' = [th EXCEPT ![t] = [rec EXCEPT !.pc = "find", !.was = TRUE]] /\ UNCHANGED held
       ELSE Return(t, rec, FALSE)

(* The end of UnlinkVolume: the link goes, with the last one the volume. *)
DropLink(t, l) ==
  LET v == lk[l].vol
      last == Remove(links[v], l) = <<>> /\ st[v] \in Up
      rec == IF last THEN Collect(th[t], <<v>>) ELSE th[t] IN
  /\ links' = [links EXCEPT ![v] = Remove(@, l)]
  /\ ctLinks' = [ctLinks EXCEPT ![lk[l].ct] = Remove(@, l)]
  /\ st' = IF last THEN [st EXCEPT ![v] = "Unlinked"] ELSE st
  /\ IF rec.all
       THEN th' = [th EXCEPT ![t] = [rec EXCEPT !.pc = "find", !.was = TRUE]] /\ UNCHANGED held
       ELSE Return(t, rec, FALSE)

UnlinkVolume(t) ==
  LET v == th[t].vol
      mine == SelectSeq(links[v], LAMBDA l :
                lk[l].ct = th[t].ct /\ (th[t].all \/ lk[l].target = th[t].target))
      l == Head(mine) IN
  /\ Pc(t) = "find" /\ mutex = NoOne
  /\ IF mine = <<>> THEN Return(t, th[t], ~th[t].was) /\ UNCHANGED <<lk, links, ctLinks, st>>
     ELSE IF \/ th[t].strict /\ (Len(links[v]) > 1 \/ nested[v] # {})
             \/ lk[l].busy
       THEN Return(t, th[t], TRUE) /\ UNCHANGED <<lk, links, ctLinks, st>>
     ELSE IF lk[l].host = NoPath
       THEN DropLink(t, l) /\ UNCHANGED lk
     ELSE /\ lk' = [lk EXCEPT ![l].busy = TRUE]
          /\ th' = [th EXCEPT ![t].pc = "umount", ![t].link = l]
          /\ UNCHANGED <<links, ctLinks, st, held>>
  /\ UNCHANGED <<nested, dep, owner, backend, alive, run, req, mounts, index, mutex, asleep,
                 needs, uses, unstopped, faults>>

(* umount: a strict one fails when the volume is in use. *)
Umount(t) ==
  LET l == th[t].link IN
  /\ Pc(t) = "umount" /\ mutex = NoOne
  /\ \/ /\ th[t].strict /\ lk[l].host # NoPath
        /\ lk' = [lk EXCEPT ![l].busy = FALSE]
        /\ Return(t, th[t], TRUE)
     \/ /\ IF lk[l].host = NoPath
             THEN /\ lk' = [lk EXCEPT ![l].busy = FALSE]
                  /\ Go(t, "remove")
             ELSE /\ th' = [th EXCEPT ![t].pc = "umounted", ![t].target = lk[l].host]
                  /\ UNCHANGED lk
        /\ UNCHANGED held
  /\ UNCHANGED <<volumes, alive, run, req, ctLinks, mounts, index, mutex, asleep, needs, uses, unstopped, faults>>

(* What was mounted at p or inside. *)
Inner(p) == {q \in Path : IsInside(q, p) /\ index[q] # 0}

(* All links at and inside of the target leave the index, their volumes    *)
(* and their containers, whoever they belong to.                           *)
Umounted(t) ==
  LET gone == Inner(th[t].target)
      ls == {index[q] : q \in gone}
      left == [v \in Volume |-> SelectSeq(links[v], LAMBDA l : l \notin ls)]
      lost == {v \in Volume : /\ st[v] \in Up
                              /\ \E q \in gone : lk[index[q]].vol = v
                              /\ left[v] = <<>> \/ PathOf[v] \in gone} IN
  /\ Pc(t) = "umounted" /\ mutex = NoOne
  /\ links' = left
  /\ ctLinks' = [c \in Container |-> SelectSeq(ctLinks[c], LAMBDA l : l \notin ls)]
  /\ mounts' = [c \in DOMAIN mounts |->
                  mounts[c] - Cardinality({q \in gone : c \in Chain(lk[index[q]].ct)})]
  /\ index' = [q \in Path |-> IF q \in gone THEN 0 ELSE index[q]]
  /\ lk' = [l \in DOMAIN lk |->
              IF l \in ls \cup {th[t].link}
                THEN [lk[l] EXCEPT !.host = IF l \in ls THEN NoPath ELSE @,
                                   !.busy = IF l = th[t].link THEN FALSE ELSE @]
                ELSE lk[l]]
  /\ st' = [v \in Volume |-> IF v \in lost THEN "Unlinked" ELSE st[v]]
  /\ th' = [th EXCEPT ![t] = [Collect(@, SetToSeq(lost)) EXCEPT !.pc = "remove"]]
  /\ UNCHANGED <<nested, dep, owner, backend, alive, held, run, req, mutex, asleep,
                 needs, uses, unstopped, faults>>

Removed(t) ==
  /\ Pc(t) = "remove" /\ mutex = NoOne
  /\ DropLink(t, th[t].link)
  /\ UNCHANGED <<nested, dep, owner, backend, alive, run, req, mounts, index, lk, mutex, asleep,
                 needs, uses, unstopped, faults>>

-----------------------------------------------------------------------------
(* The destruction and the start of a container.                           *)

DestroyContainer(t, c) ==
  /\ Request(t, "destroy container") /\ alive[c] /\ held[c] = NoOne
  /\ held' = [held EXCEPT ![c] = t]
  /\ run' = [run EXCEPT ![c] = "stopped"]
  /\ th' = [th EXCEPT ![t] = [Idle EXCEPT !.pc = "all", !.by = "all", !.ct = c]]
  /\ UNCHANGED <<volumes, alive, req, ctLinks, mounts, index, lk, mutex, asleep, needs, uses, unstopped, faults>>

(* UnlinkAllVolumes: what cannot be unlinked is dropped from the list; the *)
(* volumes the container owns go to its parent.                            *)
UnlinkAllVolumes(t) ==
  LET c == th[t].ct
      failed == th[t].err /\ ctLinks[c] # <<>> /\ Last(ctLinks[c]) = th[t].link
      ls == IF failed THEN Front(ctLinks[c]) ELSE ctLinks[c] IN
  /\ Pc(t) = "all" /\ mutex = NoOne
  /\ ctLinks' = [ctLinks EXCEPT ![c] = ls]
  /\ IF ls = <<>>
       THEN /\ alive' = [alive EXCEPT ![c] = FALSE]
            /\ owner' = [v \in Volume |-> IF owner[v] = c THEN Root ELSE owner[v]]
            /\ Release(t)
            /\ th' = [th EXCEPT ![t] = [Idle EXCEPT !.pc = "next", !.unlinked = th[t].unlinked]]
       ELSE /\ th' = [th EXCEPT ![t] = [@ EXCEPT !.pc = "find", !.link = Last(ls), !.err = FALSE,
                                                 !.vol = lk[Last(ls)].vol,
                                                 !.target = lk[Last(ls)].target]]
            /\ UNCHANGED <<alive, owner, held>>
  /\ UNCHANGED <<st, nested, dep, links, backend, run, req, mounts, index, lk, mutex, asleep,
                 needs, uses, unstopped, faults>>

(* Mutant: it does not matter whether the volume is about to go. *)
CheckRequired_Linked(c) == \A p \in req[c] : index[p] # 0

(* CheckRequired: every required path is a link to a volume that is ready. *)
CheckRequired(c) ==
  \A p \in req[c] : index[p] # 0 /\ st[lk[index[p]].vol] \in Up
RequiredBy(c) == {lk[index[p]].vol : p \in {q \in req[c] : index[q] # 0}}

Start(t, c) ==
  /\ Request(t, "start") /\ alive[c] /\ held[c] = NoOne /\ run[c] = "stopped"
  /\ req[c] # {}   \* a container that requires nothing does not meet volumes
  /\ held' = [held EXCEPT ![c] = t]
  /\ run' = [run EXCEPT ![c] = "starting"]
  /\ th' = [th EXCEPT ![t] = [Idle EXCEPT !.pc = "check", !.ct = c]]
  /\ UNCHANGED <<volumes, alive, req, ctLinks, mounts, index, lk, mutex, asleep, needs, uses, unstopped, faults>>

PrepareResources(t) ==
  LET c == th[t].ct IN
  /\ Pc(t) = "check" /\ mutex = NoOne
  /\ IF CheckRequired(c)
       THEN /\ dep' = [v \in Volume |-> dep[v] \/ v \in RequiredBy(c)]
            /\ uses' = [uses EXCEPT ![c] = RequiredBy(c)]
            /\ Go(t, "started") /\ UNCHANGED <<held, run>>
       ELSE run' = [run EXCEPT ![c] = "stopped"] /\ Release(t) /\ Done(t) /\ UNCHANGED <<dep, uses>>
  /\ UNCHANGED <<st, nested, owner, links, backend, alive, req, ctLinks, mounts, index, lk,
                 mutex, asleep, needs, unstopped, faults>>

Started(t) ==
  /\ Pc(t) = "started"
  /\ run' = [run EXCEPT ![th[t].ct] = "running"]
  /\ Release(t) /\ Done(t)
  /\ UNCHANGED <<volumes, alive, req, ctLinks, mounts, index, lk, mutex, asleep, needs, uses, unstopped, faults>>

-----------------------------------------------------------------------------
(* Tune.                                                                   *)

TuneRequest(t, v) ==
  /\ Request(t, "tune") /\ Resolvable(v)
  /\ th' = [th EXCEPT ![t] = [Idle EXCEPT !.pc = "tune", !.vol = v]]
  /\ UNCHANGED <<volumes, containers, index, lk, mutex, asleep, needs, uses, unstopped, faults>>

Tune(t) ==
  LET v == th[t].vol IN
  /\ Pc(t) = "tune" /\ mutex = NoOne /\ t \notin asleep
  /\ CASE st[v] = "Tuning" -> asleep' = asleep \cup {t} /\ UNCHANGED <<th, st>>
       [] st[v] = "Ready"  -> SetState(v, "Tuning") /\ Go(t, "resize")
       [] OTHER            -> Done(t) /\ UNCHANGED <<asleep, st>>
  /\ UNCHANGED <<nested, dep, owner, links, backend, containers, index, lk, mutex,
                 needs, uses, unstopped, faults>>

Tuned(t) ==
  /\ Pc(t) = "resize" /\ mutex = NoOne
  /\ IF st[th[t].vol] = "Tuning" THEN SetState(th[t].vol, "Ready") ELSE UNCHANGED <<st, asleep>>
  /\ Done(t)
  /\ UNCHANGED <<nested, dep, owner, links, backend, containers, index, lk, mutex,
                 needs, uses, unstopped, faults>>

-----------------------------------------------------------------------------
(* Destroy.  The first loop marks the volume and all that is nested in it, *)
(* then the containers that require one are stopped, and the second loop   *)
(* takes the plan from its end.                                            *)

DestroyRequest(t, v) ==
  /\ Request(t, "destroy volume") /\ Resolvable(v) /\ st[v] = "Ready"
  /\ th' = [th EXCEPT ![t] = [Idle EXCEPT !.pc = "next", !.unlinked = <<v>>]]
  /\ UNCHANGED <<volumes, containers, index, lk, mutex, asleep, needs, uses, unstopped, faults>>

(* DestroyUnlinked: the next volume of the list. *)
Destroy(t) ==
  LET todo == th[t].unlinked IN
  /\ Pc(t) = "next" /\ mutex = NoOne
  /\ IF todo = <<>> THEN Done(t) /\ UNCHANGED mutex
     ELSE /\ th' = [th EXCEPT ![t] =
                      [Idle EXCEPT !.pc = "plan", !.by = "destroy", !.unlinked = Tail(todo),
                                   !.self = Head(todo), !.plan = <<Head(todo)>>, !.pos = 1,
                                   !.stop = dep[Head(todo)]]]
          /\ mutex' = t
  /\ UNCHANGED <<volumes, containers, index, lk, asleep, needs, uses, unstopped, faults>>

Sleep(t) == asleep' = asleep \cup {t} /\ mutex' = NoOne /\ UNCHANGED <<st, th>>

MustWait(t, v) ==
  \/ st[v] = "Destroying"
  \/ st[v] = "Building" /\ PathOf[v] # PathOf[th[t].self]

Plan(t) ==
  LET v == th[t].plan[th[t].pos] IN
  /\ Pc(t) = "plan" /\ Locked(t)
  /\ IF MustWait(t, v) THEN Sleep(t)
     ELSE LET new == nested[v] \ ToSet(th[t].plan)
              stop == th[t].stop \/ \E w \in new : dep[w]
          IN /\ st' = IF st[v] = "Destroyed" THEN st ELSE [st EXCEPT ![v] = "ToDestroy"]
             /\ \E s \in SetToSeqs(new) :
                  LET last == th[t].pos = Len(th[t].plan \o s) IN
                  /\ th' = [th EXCEPT ![t].plan = @ \o s, ![t].stop = stop,
                              ![t].pos = IF last THEN 0 ELSE @ + 1,
                              ![t].pc = IF ~last THEN "plan" ELSE IF stop THEN "scan" ELSE "pick",
                              ![t].todo = IF last /\ stop THEN SetToSeq(Container) ELSE <<>>]
                  /\ mutex' = IF last /\ stop THEN NoOne ELSE t
             /\ UNCHANGED asleep
  /\ UNCHANGED <<nested, dep, owner, links, backend, containers, index, lk, needs, uses, unstopped, faults>>

(* Stop the containers whose required volumes are not all there. *)
Scan(t) ==
  LET c == Head(th[t].todo) IN
  /\ Pc(t) = "scan" /\ mutex = NoOne
  /\ IF th[t].todo = <<>> THEN Go(t, "pick") /\ UNCHANGED dep
     ELSE IF req[c] = {} \/ run[c] = "stopped" \/ ~alive[c]
       THEN th' = [th EXCEPT ![t].todo = Tail(@)] /\ UNCHANGED dep
     ELSE IF CheckRequired(c)
       THEN /\ th' = [th EXCEPT ![t].todo = Tail(@)]
            /\ dep' = [v \in Volume |-> dep[v] \/ v \in RequiredBy(c)]
     ELSE Go(t, "stop") /\ UNCHANGED dep
  /\ UNCHANGED <<st, nested, owner, links, backend, containers, index, lk, mutex, asleep,
                 needs, uses, unstopped, faults>>

(* Stop(0) fails, for example under a paused parent; that is only logged. *)
StopContainer(t) ==
  LET c == Head(th[t].todo) IN
  /\ Pc(t) = "stop" /\ (alive[c] => held[c] = NoOne)
  /\ \/ /\ run' = [run EXCEPT ![c] = "stopped"]
        /\ unstopped' = unstopped \ {c}
        /\ UNCHANGED faults
     \/ Fault /\ unstopped' = unstopped \cup {c} /\ UNCHANGED run
  /\ th' = [th EXCEPT ![t].pc = "scan", ![t].todo = Tail(@)]
  /\ UNCHANGED <<volumes, alive, held, req, ctLinks, mounts, index, lk, mutex, asleep,
                 needs, uses>>

(* The reverse iterator: pos is the place after the volume it stands for,  *)
(* 0 the end of the list, wherever that is by now.                         *)
At(rec) == IF rec.pos = 0 THEN Len(rec.plan) ELSE rec.pos - 1

Advance(rec) ==
  IF At(rec) = 1 THEN [Idle EXCEPT !.pc = "next", !.unlinked = rec.unlinked]
                 ELSE [rec EXCEPT !.pc = "pick", !.pos = At(rec), !.err = FALSE]

(* Mutant: two threads that destroy one volume do not wait. *)
Pick_NoWait(t) ==
  LET v == th[t].plan[At(th[t])] IN
  /\ Pc(t) = "pick" /\ Locked(t)
  /\ IF st[v] = "Destroyed"
       THEN /\ th' = [th EXCEPT ![t] = Advance(@)]
            /\ mutex' = IF At(th[t]) = 1 THEN NoOne ELSE t
            /\ UNCHANGED <<st, asleep>>
     ELSE /\ SetState(v, "Destroying") /\ mutex' = t
          /\ th' = [th EXCEPT ![t].pc = "detach", ![t].vol = v]
  /\ UNCHANGED <<nested, dep, owner, links, backend, containers, index, lk, needs, uses, unstopped, faults>>

Pick(t) ==
  LET v == th[t].plan[At(th[t])] IN
  /\ Pc(t) = "pick" /\ Locked(t)
  /\ IF st[v] = "Destroying" THEN Sleep(t)
     ELSE IF st[v] = "Destroyed"
       THEN /\ th' = [th EXCEPT ![t] = Advance(@)]
            /\ mutex' = IF At(th[t]) = 1 THEN NoOne ELSE t
            /\ UNCHANGED <<st, asleep>>
     ELSE /\ SetState(v, "Destroying") /\ mutex' = t
          /\ th' = [th EXCEPT ![t].pc = "detach", ![t].vol = v]
  /\ UNCHANGED <<nested, dep, owner, links, backend, containers, index, lk, needs, uses, unstopped, faults>>

(* Unlink the containers, the last one first.  A link that cannot be       *)
(* unlinked is dropped (Links.back() of an empty list is no link).         *)
Detach(t) ==
  LET v == th[t].vol
      failed == th[t].err /\ links[v] # <<>> /\ Last(links[v]) = th[t].link
      ls == IF failed THEN Front(links[v]) ELSE links[v] IN
  /\ Pc(t) = "detach" /\ Locked(t)
  /\ links' = [links EXCEPT ![v] = ls]
  /\ th' = [th EXCEPT ![t] =
              IF ls = <<>> THEN [@ EXCEPT !.pc = "teardown", !.err = FALSE]
              ELSE [@ EXCEPT !.pc = "lock", !.link = Last(ls), !.err = FALSE]]
  /\ mutex' = NoOne
  /\ UNCHANGED <<st, nested, dep, owner, backend, containers, index, lk, asleep, needs, uses, unstopped, faults>>

LockContainer(t) ==
  LET c == lk[th[t].link].ct IN
  /\ Pc(t) = "lock"
  /\ IF ~alive[c] THEN th' = [th EXCEPT ![t].pc = "detach", ![t].err = TRUE] /\ UNCHANGED held
     ELSE /\ held[c] = NoOne /\ held' = [held EXCEPT ![c] = t]
          /\ th' = [th EXCEPT ![t].pc = "find", ![t].ct = c, ![t].target = lk[th[t].link].target]
  /\ UNCHANGED <<volumes, alive, run, req, ctLinks, mounts, index, lk, mutex, asleep,
                 needs, uses, unstopped, faults>>

DestroyOne(t) ==
  /\ Pc(t) = "teardown"
  /\ backend' = [backend EXCEPT ![th[t].vol] = FALSE]
  /\ Go(t, "erase")
  /\ UNCHANGED <<st, nested, dep, owner, links, containers, index, lk, mutex, asleep,
                 needs, uses, unstopped, faults>>

Erase(t) ==
  LET v == th[t].vol
      p == PathOf[v] IN
  /\ Pc(t) = "erase" /\ mutex = NoOne
  /\ nested' = [w \in Volume |-> nested[w] \ {v}]
  /\ index' = [index EXCEPT ![p] = 0]
  /\ mounts' = IF index[p] # 0 THEN Count({Root}, mounts, -1) ELSE mounts
  /\ owner' = [owner EXCEPT ![v] = NoOne]
  /\ SetState(v, "Destroyed")
  /\ th' = [th EXCEPT ![t] = Advance(@)]
  /\ UNCHANGED <<dep, links, backend, alive, held, run, req, ctLinks, lk, mutex, needs, uses, unstopped, faults>>

-----------------------------------------------------------------------------
(* At first some volumes are ready, and linked as Existing says.           *)

Ready0 == {Existing[i][1] : i \in DOMAIN Existing}
Common0 == SetToSeq(Ready0)

(* ... and nested in those whose paths enclose what they depend on. *)
Origins0(v) ==
  {w \in Ready0 \ {v} : \E p \in ToSet(DependsOn[v]) : IsInside(p, PathOf[w])}

Init ==
  LET n == Len(Common0)
      lk0 == [i \in 1..MaxLink |->
                CASE i <= n -> NewLink(Common0[i], Root, PathOf[Common0[i]], PathOf[Common0[i]], FALSE)
                  [] i > n /\ i <= n + Len(Existing) ->
                       NewLink(Existing[i - n][1], Existing[i - n][2], Existing[i - n][3],
                               Existing[i - n][3], FALSE)
                  [] OTHER -> NoLink]
      ids == [i \in 1..Len(Existing) |-> n + i]
      at(p) == {l \in 1..MaxLink : lk0[l].host = p}
  IN /\ st = [v \in Volume |-> IF v \in Ready0 THEN "Ready" ELSE "Initial"]
     /\ needs = [v \in Volume |-> IF v \in Ready0 THEN Origins0(v) ELSE {}]
     /\ nested = [v \in Volume |-> {w \in Ready0 : v \in Origins0(w)}]
     /\ req = [c \in Container |->
                 {Existing[i][3] : i \in {j \in DOMAIN Existing : Existing[j][2] = c}} \cap RequiredAt]
     /\ dep = [v \in Volume |-> \E i \in DOMAIN Existing :
                                  Existing[i][1] = v /\ Existing[i][3] \in RequiredAt]
     /\ owner = [v \in Volume |-> IF v \in Ready0 THEN Root ELSE NoOne]
     /\ links = [v \in Volume |-> SelectSeq(ids, LAMBDA l : lk0[l].vol = v)]
     /\ backend = [v \in Volume |-> v \in Ready0]
     /\ alive = [c \in Container |-> TRUE] /\ held = [c \in Container |-> NoOne]
     /\ run = [c \in Container |-> "stopped"]
     /\ ctLinks = [c \in Container |-> SelectSeq(ids, LAMBDA l : lk0[l].ct = c)]
     /\ index = [p \in Path |-> IF at(p) = {} THEN 0 ELSE CHOOSE l \in at(p) : TRUE]
     /\ mounts = [c \in Container \cup {Root} |->
                    Cardinality({l \in 1..MaxLink : lk0[l].host # NoPath /\ c \in Chain(lk0[l].ct)})]
     /\ lk = lk0 /\ uses = [c \in Container |-> {}] /\ unstopped = {}
     /\ th = [t \in Thread |-> Idle] /\ mutex = NoOne /\ asleep = {}
     /\ faults = MaxFaults

Arrive(t) ==
  /\ Pc(t) = "idle" /\ mutex = NoOne
  /\ \/ \E v \in Volume : Create(t, v) \/ TuneRequest(t, v) \/ DestroyRequest(t, v)
     \/ \E c \in Container : DestroyContainer(t, c) \/ Start(t, c)
     \/ \E v \in Volume :
          \/ \E x \in LinkTargets : LinkRequest(t, v, x[1], x[2])
          \/ \E x \in UnlinkTargets, m \in UnlinkModes : UnlinkRequest(t, v, x[1], x[2], m)

Work(t) ==
  \/ Build(t) \/ AddLinks(t) \/ MountLinks(t) \/ Undo(t)
  \/ LinkVolume(t) \/ MountLink(t) \/ Bind(t) \/ Mounted(t) \/ Unmounted(t)
  \/ UnlinkVolume(t) \/ Umount(t) \/ Umounted(t) \/ Removed(t)
  \/ UnlinkAllVolumes(t) \/ PrepareResources(t) \/ Started(t)
  \/ Tune(t) \/ Tuned(t)
  \/ Destroy(t) \/ Plan(t) \/ Scan(t) \/ StopContainer(t) \/ Pick(t) \/ Detach(t)
  \/ LockContainer(t) \/ DestroyOne(t) \/ Erase(t)

Next == \E t \in Thread : Arrive(t) \/ Work(t)

(* Whether a thread can go on, which is ENABLED Work(t): it may have to    *)
(* wait for VolumesMutex, for VolumesCv, or for the lock of a container.   *)
CanGoOn(t) ==
  LET r == th[t]
      free(c) == ~alive[c] \/ held[c] = NoOne IN
  CASE r.pc \in {"idle", "done"} -> FALSE
    [] r.pc \in {"build", "undo", "bind", "mounted", "started", "teardown"} -> TRUE
    [] r.pc \in {"plan", "pick", "detach"} -> Locked(t)
    [] r.pc = "stop" -> free(Head(r.todo))
    [] r.pc = "lock" -> free(lk[r.link].ct)
    [] r.pc = "addlinks" -> mutex = NoOne /\ (r.todo # <<>> => free(Head(r.todo)[1]))
    [] OTHER -> mutex = NoOne /\ t \notin asleep

(* The server runs: while a thread can go on, some thread does. *)
Spec ==
  /\ Init /\ [][Next]_vars
  /\ []<>~(\E t \in Thread : CanGoOn(t)) \/ []<><<\E t \in Thread : Work(t)>>_vars

-----------------------------------------------------------------------------
(* Properties.                                                             *)

TypeOK ==
  /\ \A v \in Volume : st[v] \in {"Initial", "Building", "Ready", "Tuning", "Unlinked",
                                  "ToDestroy", "Destroying", "Destroyed"}
  /\ \A p \in Path : index[p] \in 0..MaxLink
  /\ mutex \in Thread \cup {NoOne} /\ asleep \subseteq Thread

Ancestors(v) ==
  LET up[n \in 0..Cardinality(Volume)] ==
        IF n = 0 THEN {v} ELSE up[n - 1] \cup UNION {needs[w] : w \in up[n - 1]}
  IN up[Cardinality(Volume)]

(* Another origin of v lies with w in a third volume. *)
TwoWays(v, w) ==
  \E u \in needs[v] \ {w} : (Ancestors(u) \cap Ancestors(w)) \ {w} # {}

(* What is nested goes first: as long as a volume is built its origins,    *)
(* the volumes its path, place, storage and layers lie in, are built too,  *)
(* however many threads destroy, create and unlink them.  The exception    *)
(* is an origin that the plan of Destroy reaches on another way as well.   *)
NestedFirst ==
  \A v \in Volume : backend[v] => \A w \in needs[v] : backend[w] \/ TwoWays(v, w)

(* A volume is torn down by one thread, and a volume that clients can use  *)
(* or that is being tuned or linked has its backend.                       *)
OneTeardown ==
  /\ \A t, u \in Thread :
       t # u /\ Pc(t) \in {"teardown", "erase"} /\ Pc(u) \in {"teardown", "erase"}
         => th[t].vol # th[u].vol
  /\ \A v \in Volume :
       st[v] \in Up \cup {"Unlinked", "ToDestroy"} => backend[v]

Staying ==
  {c \in Container : alive[c] /\ ~\E t \in Thread : th[t].by = "all" /\ th[t].ct = c}

(* The index of links, the lists of the volumes and of the containers and  *)
(* the counters that guard a container's root agree.  The exception is a   *)
(* container that was destroyed while the creator of a volume mounted a    *)
(* link for it: that link stays behind.                                    *)
LinksAgree ==
  /\ mounts[Root] = Cardinality({p \in Path : index[p] # 0})
  /\ \A c \in Staying :
       /\ mounts[c] = Cardinality({p \in Path : index[p] # 0 /\ lk[index[p]].ct = c})
       /\ \A v \in Volume : {l \in ToSet(links[v]) : lk[l].ct = c}
                            = {l \in ToSet(ctLinks[c]) : lk[l].vol = v}
  /\ \A p \in Path : index[p] # 0 =>
       LET l == lk[index[p]] IN
       /\ l.host = p
       /\ l.ct \in Staying \cup {Root} => Registered(l.vol)

(* No volume is torn down below a running container that was started on    *)
(* it as a required one, unless Destroy has tried to stop the container    *)
(* and could not.                                                          *)
RequiredStays ==
  \A c \in Container \ unstopped : run[c] = "running" => \A v \in uses[c] : backend[v]

(* Every request ends: nobody waits for ever for VolumesCv, for the lock   *)
(* of a container or for another thread that destroys the same volume (a   *)
(* thread has one request, so all are done again and again).               *)
RequestsEnd == []<>(\A t \in Thread : Pc(t) \in {"idle", "done"})

-----------------------------------------------------------------------------
(* What one would expect, and the code does not keep.                      *)

(* volume.cpp:2721, "Cyclic dependency detected": Destroy takes a volume   *)
(* that is nested in two others for a cycle, and leaves it where the plan  *)
(* has it, which may be before its second origin.                          *)
NestedBeforeAll ==
  \A v \in Volume : backend[v] => \A w \in needs[v] : backend[w]

(* An unlinked volume is destroyed. *)
UnlinkedEnds == \A v \in Volume : st[v] = "Unlinked" ~> st[v] = "Destroyed"
=============================================================================
