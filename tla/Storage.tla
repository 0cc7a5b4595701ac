------------------------------ MODULE Storage ------------------------------
(***************************************************************************)
(* The layers of a place (src/src/storage.cpp): import, removal and export *)
(* by client requests, the thread that removes left-overs, volumes that    *)
(* use layers, and the crash of the server.                                *)
(*                                                                         *)
(* A layer l is the directory <l>.  It is imported in _import_<l> and      *)
(* removed in _remove_<l>, both by rename; _private_<l> names its owner.   *)
(* A directory in work is in ActiveInodes, by inode, so that the cleaner   *)
(* lets it alone.  The cleaner asks with an inode and removes by name.     *)
(*                                                                         *)
(* RemoveAll is two steps, the walk and the rmdir.  What VolumesMutex      *)
(* protects is one step.  ghost.raced says that somebody has removed from  *)
(* an import directory that had come into work unnoticed, ghost.leaked     *)
(* counts the returns that keep their load slot.                           *)
(***************************************************************************)
EXTENDS Integers

CONSTANTS
  Layer, NoLayer,
  Weak,          \* layers whose name starts with _weak_
  Thread,        \* threads that handle requests
  Volume,
  Limit,         \* place_load_limit
  Ino,           \* inode numbers
  Requests,      \* bound: requests of clients
  MaxFaults,     \* bound: failures of tar and the like
  MaxCrashes     \* bound: crashes of the server

ASSUME StorageAssumption ==
  /\ Ino \subseteq Nat \ {0} /\ Weak \subseteq Layer /\ NoLayer \notin Layer
  /\ Limit \in Nat \ {0} /\ {Requests, MaxFaults, MaxCrashes} \subseteq Nat

VARIABLES
  dir,       \* dir[k][l]: the inode of a name, 0 if there is none
  content,   \* of an inode
  priv,      \* layers with a _private_ file
  active,    \* ActiveInodes
  load,      \* PlaceLoad
  uses,      \* the layer of a volume in Volumes
  pins,      \* the inode that a volume has mounted
  th,        \* a thread
  cleaner,   \* AsyncRemoveWatchDog
  ghost, budget

disk == <<dir, content, priv>>
memory == <<active, load>>
volumes == <<uses, pins>>
vars == <<disk, memory, volumes, th, cleaner, ghost, budget>>

Kind == {"layer", "import", "remove"}
Idle == [pc |-> "idle", op |-> "none", layer |-> NoLayer, flag |-> FALSE, ino |-> 0]
Scan == [pc |-> "scan", todo |-> {}, kind |-> "none", layer |-> NoLayer, ino |-> 0,
         unaware |-> FALSE]

Place ==
  {"idle", "enter", "sleep", "load", "full", "work", "extract", "publish", "published", "undo",
   "undo root", "undo load", "undo active", "find", "clear", "clear root", "rm root", "rm load",
   "rm active"}
ThreadRecord ==
  [pc : Place, op : {"none", "import", "remove", "export"}, layer : Layer \cup {NoLayer},
   flag : BOOLEAN, ino : Ino \cup {0}]
CleanerRecord ==
  [pc : {"scan", "next", "check", "remove", "root"}, kind : {"none", "import", "remove"},
   todo : SUBSET ({"import", "remove", "private"} \X Layer),
   layer : Layer \cup {NoLayer}, ino : Ino \cup {0}, unaware : BOOLEAN]

TypeOK ==
  /\ dir \in [Kind -> [Layer -> Ino \cup {0}]]
  /\ content \in [Ino -> {"empty", "part", "whole"}]
  /\ priv \subseteq Layer /\ active \subseteq Ino
  /\ uses \in [Volume -> Layer \cup {NoLayer}] /\ pins \in [Volume -> Ino \cup {0}]
  /\ th \in [Thread -> ThreadRecord]
  /\ \A t \in Thread : th[t].pc # "idle" => th[t].layer \in Layer
  /\ cleaner \in CleanerRecord
  /\ cleaner.pc \in {"check", "remove", "root"} =>
       cleaner.kind \in {"import", "remove"} /\ cleaner.layer \in Layer
  /\ ghost \in [raced : BOOLEAN, leaked : Nat]

Init ==
  /\ dir = [k \in Kind |-> [l \in Layer |-> 0]]
  /\ content = [i \in Ino |-> "empty"]
  /\ priv = {} /\ active = {} /\ load = 0
  /\ uses = [v \in Volume |-> NoLayer] /\ pins = [v \in Volume |-> 0]
  /\ th = [t \in Thread |-> Idle] /\ cleaner = Scan
  /\ ghost = [raced |-> FALSE, leaked |-> 0]
  /\ budget = [requests |-> Requests, faults |-> MaxFaults, crashes |-> MaxCrashes]

-----------------------------------------------------------------------------
(* The file system.                                                        *)

(* Inode numbers that are neither named nor pinned. *)
Unused ==
  {i \in Ino : /\ \A k \in Kind, l \in Layer : dir[k][l] # i
               /\ \A t \in Thread : th[t].ino # i
               /\ cleaner.ino # i}

NewIno == CHOOSE i \in Unused : TRUE

(* rename(2) replaces nothing but an empty directory. *)
CanRename(from, to, l) ==
  /\ dir[from][l] # 0
  /\ dir[to][l] # 0 => content[dir[to][l]] = "empty"

Renamed(from, to, l) ==
  [dir EXCEPT ![to][l] = dir[from][l], ![from][l] = 0]

(* Somebody removes from a directory without knowing it to be in work.     *)
Touches(k, l, unaware) ==
  ghost' = [ghost EXCEPT !.raced = @ \/ (unaware /\ k = "import" /\ dir[k][l] \in active)]

(* RemoveAll: the walk, then the rmdir. *)
RemoveWalk(k, l, unaware) ==
  /\ content' = [i \in Ino |-> IF i = dir[k][l] THEN "empty" ELSE content[i]]
  /\ Touches(k, l, unaware)
  /\ UNCHANGED dir

RemoveRoot(k, l, unaware) ==
  IF dir[k][l] # 0 /\ content[dir[k][l]] = "empty"
    THEN /\ dir' = [dir EXCEPT ![k][l] = 0]
         /\ Touches(k, l, unaware)
    ELSE UNCHANGED <<dir, ghost>>

-----------------------------------------------------------------------------
(* Threads.                                                                *)

Pc(t) == th[t].pc
To(t, pc) == th' = [th EXCEPT ![t].pc = pc]
Ends(t) == th' = [th EXCEPT ![t] = Idle]

(* What StorageCv.notify_all makes of a sleeper. *)
Woken(r) ==
  IF r.pc = "sleep" THEN [r EXCEPT !.pc = "enter"]
  ELSE IF r.pc = "full" THEN [r EXCEPT !.pc = "load"] ELSE r

EndNotify(t) == th' = [u \in Thread |-> IF u = t THEN Idle ELSE Woken(th[u])]
ToNotify(t, pc) ==
  th' = [u \in Thread |-> IF u = t THEN [th[t] EXCEPT !.pc = pc] ELSE Woken(th[u])]

Begins(t, op, l, flag, pc) ==
  /\ Pc(t) = "idle" /\ budget.requests > 0
  /\ budget' = [budget EXCEPT !.requests = @ - 1]
  /\ th' = [th EXCEPT ![t] = [pc |-> pc, op |-> op, layer |-> l, flag |-> flag, ino |-> 0]]

Fails(n) == budget.faults > 0 /\ budget' = [budget EXCEPT !.faults = @ - n]

(* Mutant: a layer of a volume is not looked for. *)
CheckUsage_Exists(l) == dir["layer"][l] # 0

CheckUsage(l) ==
  /\ dir["layer"][l] # 0
  /\ \A v \in Volume : uses[v] # l

(* IncPlaceLoad, with its wait. *)
IncPlaceLoad(t) ==
  /\ Pc(t) = "load"
  /\ IF load < Limit
       THEN load' = load + 1 /\ To(t, "work")
       ELSE To(t, "full") /\ UNCHANGED load
  /\ UNCHANGED <<disk, active, volumes, cleaner, ghost, budget>>

(* Mutant: the waiters are not told. *)
DecPlaceLoad_Silent(t, pc) ==
  /\ load' = load - 1
  /\ IF pc = "idle" THEN Ends(t) ELSE To(t, pc)

DecPlaceLoad(t, pc) ==
  /\ load' = load - 1
  /\ IF pc = "idle" THEN EndNotify(t) ELSE ToNotify(t, pc)

-----------------------------------------------------------------------------
(* Import.                                                                 *)

(* Whether the layer is being removed is asked without the lock. *)
Import(t, l, merge) ==
  /\ dir["remove"][l] = 0
  /\ Begins(t, "import", l, merge, "enter")
  /\ UNCHANGED <<disk, memory, volumes, cleaner, ghost>>

Importing(l) == dir["import"][l] \in active

MayMerge(t, l) ==
  ~Importing(l) /\ th[t].flag /\ CheckUsage(l) /\ CanRename("layer", "import", l)

MayMake(l) ==
  ~Importing(l) /\ dir["layer"][l] = 0 /\ dir["import"][l] = 0 /\ Unused # {}

Claim(t, ino) ==
  /\ active' = active \cup {ino}
  /\ th' = [th EXCEPT ![t].ino = ino, ![t].pc = "load"]

(* Under the lock: a new directory, or for a merge the layer itself. *)
EnterImport(t) ==
  LET l == th[t].layer IN
  /\ Pc(t) = "enter" /\ th[t].op = "import"
  /\ \/ /\ MayMerge(t, l)
        /\ dir' = Renamed("layer", "import", l)
        /\ Claim(t, dir["layer"][l])
        /\ UNCHANGED content
     \/ /\ MayMake(l)
        /\ dir' = [dir EXCEPT !["import"][l] = NewIno]
        /\ content' = [content EXCEPT ![NewIno] = "empty"]
        /\ Claim(t, NewIno)
     \/ /\ ~MayMerge(t, l) /\ ~MayMake(l)
        /\ IF Importing(l) /\ ~th[t].flag THEN To(t, "sleep") ELSE Ends(t)
        /\ UNCHANGED <<dir, content, active>>
  /\ UNCHANGED <<priv, load, volumes, cleaner, ghost, budget>>

(* tar starts.  unsquashfs needs the parent directory; a failure to open   *)
(* it returns at once.                                                     *)
Extract(t) ==
  /\ Pc(t) = "work" /\ th[t].op = "import"
  /\ \/ /\ content' = [content EXCEPT ![th[t].ino] = "part"]
        /\ To(t, "extract")
        /\ UNCHANGED <<ghost, budget>>
     \/ /\ Fails(1)
        /\ Ends(t)
        /\ ghost' = [ghost EXCEPT !.leaked = @ + 1]
        /\ UNCHANGED content
  /\ UNCHANGED <<dir, priv, memory, volumes, cleaner>>

(* tar ends, and the owner is saved.  What somebody removed meanwhile is   *)
(* missing.                                                                *)
Extracted(t) ==
  LET ino == th[t].ino IN
  /\ Pc(t) = "extract"
  /\ \/ /\ content' = [content EXCEPT ![ino] = IF @ = "part" THEN "whole" ELSE "part"]
        /\ priv' = priv \cup {th[t].layer}
        /\ To(t, "publish")
        /\ UNCHANGED budget
     \/ /\ Fails(1)
        /\ To(t, "undo")
        /\ \E saved \in {{}, {th[t].layer}} : priv' = priv \cup saved
        /\ UNCHANGED content
  /\ UNCHANGED <<dir, memory, volumes, cleaner, ghost>>

(* Under the lock. *)
Publish(t) ==
  LET l == th[t].layer IN
  /\ Pc(t) = "publish"
  /\ IF CanRename("import", "layer", l)
       THEN /\ dir' = Renamed("import", "layer", l)
            /\ active' = active \ {th[t].ino}
            /\ To(t, "published")
       ELSE To(t, "undo") /\ UNCHANGED <<dir, active>>
  /\ UNCHANGED <<content, priv, load, volumes, cleaner, ghost, budget>>

Published(t) ==
  /\ Pc(t) = "published"
  /\ DecPlaceLoad(t, "idle")
  /\ UNCHANGED <<disk, active, volumes, cleaner, ghost, budget>>

Undo(t) ==
  LET l == th[t].layer IN
  /\ \/ /\ Pc(t) = "undo" /\ To(t, "undo root")
        /\ RemoveWalk("import", l, dir["import"][l] # th[t].ino)
        /\ UNCHANGED memory
     \/ /\ Pc(t) = "undo root" /\ To(t, "undo load")
        /\ RemoveRoot("import", l, dir["import"][l] # th[t].ino)
        /\ UNCHANGED <<content, memory>>
     \/ /\ Pc(t) = "undo load" /\ DecPlaceLoad(t, "undo active")
        /\ UNCHANGED <<dir, content, active, ghost>>
     \/ /\ Pc(t) = "undo active" /\ EndNotify(t)
        /\ active' = active \ {th[t].ino}
        /\ UNCHANGED <<dir, content, load, ghost>>
  /\ UNCHANGED <<priv, volumes, cleaner, budget>>

-----------------------------------------------------------------------------
(* Remove and export.                                                      *)

(* Load: the private file or the layer is there.  If not, a removal that   *)
(* was left is finished, without a lock.                                   *)
Found(l) == l \in priv \/ dir["layer"][l] # 0

Remove(t, l, async) ==
  /\ Begins(t, "remove", l, async, "find")
  /\ UNCHANGED <<disk, memory, volumes, cleaner, ghost>>

Find(t) ==
  LET l == th[t].layer IN
  /\ Pc(t) = "find"
  /\ IF Found(l) THEN To(t, "enter")
     ELSE IF dir["remove"][l] # 0 THEN To(t, "clear") ELSE Ends(t)
  /\ UNCHANGED <<disk, memory, volumes, cleaner, ghost, budget>>

Clear(t) ==
  LET l == th[t].layer IN
  /\ \/ /\ Pc(t) = "clear" /\ To(t, "clear root")
        /\ RemoveWalk("remove", l, FALSE)
     \/ /\ Pc(t) = "clear root" /\ Ends(t)
        /\ RemoveRoot("remove", l, FALSE)
        /\ UNCHANGED content
  /\ UNCHANGED <<priv, memory, volumes, cleaner, budget>>

(* Under the lock.  The private file goes first, whether or not the rename *)
(* then succeeds.                                                          *)
EnterRemove(t) ==
  LET l == th[t].layer  ino == dir["layer"][l] IN
  /\ Pc(t) = "enter" /\ th[t].op = "remove"
  /\ priv' = IF CheckUsage(l) THEN priv \ {l} ELSE priv
  /\ IF CheckUsage(l) /\ CanRename("layer", "remove", l)
       THEN /\ dir' = Renamed("layer", "remove", l)
            /\ active' = IF th[t].flag THEN active ELSE active \cup {ino}
            /\ th' = [th EXCEPT ![t].ino = IF th[t].flag THEN 0 ELSE ino, ![t].pc = "load"]
       ELSE Ends(t) /\ UNCHANGED <<dir, active>>
  /\ UNCHANGED <<content, load, volumes, cleaner, ghost, budget>>

Removing(t) ==
  LET l == th[t].layer IN
  /\ th[t].op = "remove"
  /\ \/ /\ Pc(t) = "work" /\ ~th[t].flag /\ To(t, "rm root")
        /\ RemoveWalk("remove", l, FALSE)
        /\ UNCHANGED memory
     \/ /\ Pc(t) = "work" /\ th[t].flag
        /\ DecPlaceLoad(t, "idle")
        /\ UNCHANGED <<dir, content, active, ghost>>
     \/ /\ Pc(t) = "rm root" /\ To(t, "rm load")
        /\ RemoveRoot("remove", l, FALSE)
        /\ UNCHANGED <<content, memory>>
     \/ /\ Pc(t) = "rm load" /\ DecPlaceLoad(t, "rm active")
        /\ UNCHANGED <<dir, content, active, ghost>>
     \/ /\ Pc(t) = "rm active" /\ Ends(t)
        /\ active' = active \ {th[t].ino}
        /\ UNCHANGED <<dir, content, load, ghost>>
  /\ UNCHANGED <<priv, volumes, cleaner, budget>>

(* The upper layer of a volume is exported; a failure to save checksums    *)
(* returns at once.                                                        *)
Export(t, v) ==
  /\ uses[v] # NoLayer
  /\ Begins(t, "export", uses[v], FALSE, "load")
  /\ UNCHANGED <<disk, memory, volumes, cleaner, ghost>>

Exported(t) ==
  /\ Pc(t) = "work" /\ th[t].op = "export"
  /\ \/ DecPlaceLoad(t, "idle") /\ UNCHANGED <<ghost, budget>>
     \/ /\ Fails(1)
        /\ Ends(t)
        /\ ghost' = [ghost EXCEPT !.leaked = @ + 1]
        /\ UNCHANGED load
  /\ UNCHANGED <<disk, active, volumes, cleaner>>

-----------------------------------------------------------------------------
(* Volumes: a layer is looked up and the volume registered under one lock. *)

CreateVolume(t, v, l) ==
  /\ Pc(t) = "idle" /\ budget.requests > 0
  /\ uses[v] = NoLayer /\ dir["layer"][l] # 0
  /\ uses' = [uses EXCEPT ![v] = l]
  /\ pins' = [pins EXCEPT ![v] = dir["layer"][l]]
  /\ budget' = [budget EXCEPT !.requests = @ - 1]
  /\ UNCHANGED <<disk, memory, th, cleaner, ghost>>

(* Destroy erases the volume, then removes its layer if it is weak. *)
EraseVolume(t, v) ==
  LET l == uses[v] IN
  /\ l # NoLayer
  /\ IF l \in Weak
       THEN Begins(t, "remove", l, FALSE, "find")
       ELSE /\ Pc(t) = "idle" /\ budget.requests > 0
            /\ budget' = [budget EXCEPT !.requests = @ - 1]
            /\ UNCHANGED th
  /\ uses' = [uses EXCEPT ![v] = NoLayer]
  /\ pins' = [pins EXCEPT ![v] = 0]
  /\ UNCHANGED <<disk, memory, cleaner, ghost>>

-----------------------------------------------------------------------------
(* The cleaner, AsyncRemoveWatchDog.                                       *)

(* Mutant: a removed directory is left to whoever removed it. *)
List_ImportsOnly ==
  {x \in {"import"} \X Layer : dir[x[1]][x[2]] # 0} \cup {<<"private", l>> : l \in priv}

List ==
  {x \in {"import", "remove"} \X Layer : dir[x[1]][x[2]] # 0} \cup {<<"private", l>> : l \in priv}

ReadDirectory ==
  /\ cleaner.pc = "scan" /\ List # {}
  /\ cleaner' = [cleaner EXCEPT !.todo = List, !.pc = "next"]
  /\ UNCHANGED <<disk, memory, volumes, th, ghost, budget>>

Rest(x) ==
  LET todo == cleaner.todo \ {x} IN
  [Scan EXCEPT !.todo = todo, !.pc = IF todo = {} THEN "scan" ELSE "next"]

KeepPrivate(l) == dir["layer"][l] # 0 \/ dir["import"][l] # 0

CleanPrivate(l) ==
  /\ cleaner.pc = "next" /\ <<"private", l>> \in cleaner.todo
  /\ cleaner' = Rest(<<"private", l>>)
  /\ priv' = IF KeepPrivate(l) THEN priv ELSE priv \ {l}
  /\ UNCHANGED <<dir, content, memory, volumes, th, ghost, budget>>

Pin(k, l) ==
  /\ cleaner.pc = "next" /\ <<k, l>> \in cleaner.todo
  /\ cleaner' = IF dir[k][l] = 0 THEN Rest(<<k, l>>)
                ELSE [cleaner EXCEPT !.pc = "check", !.kind = k, !.layer = l, !.ino = dir[k][l]]
  /\ UNCHANGED <<disk, memory, volumes, th, ghost, budget>>

(* Mutant: whatever is found is removed. *)
Spared_No == FALSE

(* InodeIsActive, under the lock that is given up after it. *)
Spared == cleaner.ino \in active

CheckActive ==
  /\ cleaner.pc = "check"
  /\ cleaner' = IF Spared THEN Rest(<<cleaner.kind, cleaner.layer>>)
                ELSE [cleaner EXCEPT !.pc = "remove", !.unaware = cleaner.ino \notin active]
  /\ UNCHANGED <<disk, memory, volumes, th, ghost, budget>>

(* RemoveAllAt takes the name, not the inode that was asked about. *)
RemoveJunk ==
  LET k == cleaner.kind  l == cleaner.layer IN
  /\ \/ /\ cleaner.pc = "remove"
        /\ cleaner' = [cleaner EXCEPT !.pc = "root"]
        /\ RemoveWalk(k, l, cleaner.unaware)
     \/ /\ cleaner.pc = "root"
        /\ cleaner' = Rest(<<k, l>>)
        /\ RemoveRoot(k, l, cleaner.unaware)
        /\ UNCHANGED content
  /\ UNCHANGED <<priv, memory, volumes, th, budget>>

Clean ==
  \/ ReadDirectory \/ CheckActive \/ RemoveJunk
  \/ \E l \in Layer : CleanPrivate(l) \/ Pin("import", l) \/ Pin("remove", l)

-----------------------------------------------------------------------------
(* The server crashes and restarts.  Volumes that were not saved are lost; *)
(* RestoreAll then removes the weak layers that nobody uses, before the    *)
(* cleaner and the requests start.                                         *)
Restart ==
  /\ budget.crashes > 0
  /\ budget' = [budget EXCEPT !.crashes = @ - 1]
  /\ active' = {} /\ load' = 0
  /\ th' = [t \in Thread |-> Idle] /\ cleaner' = Scan
  /\ ghost' = [ghost EXCEPT !.leaked = 0]
  /\ \E lost \in SUBSET {v \in Volume : uses[v] # NoLayer} :
       LET left == [v \in Volume |-> IF v \in lost THEN NoLayer ELSE uses[v]]
           stale == {l \in Weak : dir["layer"][l] # 0 /\ \A v \in Volume : left[v] # l}
           gone == {l \in stale : CanRename("layer", "remove", l)} IN
       /\ uses' = left
       /\ pins' = [v \in Volume |-> IF v \in lost THEN 0 ELSE pins[v]]
       /\ priv' = priv \ stale
       /\ dir' = [k \in Kind |-> [l \in Layer |->
                   IF l \in gone /\ k # "import" THEN 0 ELSE dir[k][l]]]
  /\ UNCHANGED content

-----------------------------------------------------------------------------
Work(t) ==
  \/ IncPlaceLoad(t) \/ EnterImport(t) \/ Extract(t) \/ Extracted(t) \/ Publish(t)
  \/ Published(t) \/ Undo(t) \/ Find(t) \/ Clear(t) \/ EnterRemove(t) \/ Removing(t) \/ Exported(t)

Arrive(t) ==
  /\ Pc(t) = "idle" /\ budget.requests > 0
  /\ \/ \E l \in Layer, flag \in BOOLEAN : Import(t, l, flag) \/ Remove(t, l, flag)
     \/ \E v \in Volume : Export(t, v) \/ EraseVolume(t, v) \/ \E l \in Layer : CreateVolume(t, v, l)

Next == (\E t \in Thread : Work(t) \/ Arrive(t)) \/ Clean \/ Restart

(* The threads and the cleaner go on.  No request has to come. *)
Spec ==
  /\ Init /\ [][Next]_vars
  /\ WF_vars(\E t \in Thread : Work(t)) /\ WF_vars(Clean)

-----------------------------------------------------------------------------
(* Properties.                                                             *)

(* A layer that has its name is complete: neither a running nor a failed   *)
(* import, nor a removal, nor a crash in the middle of one leaves part of  *)
(* a layer under its name.  The exception is the window of the cleaner,    *)
(* between its question and the removal by name.                           *)
LayersAreWhole ==
  ~ghost.raced =>
    \A l \in Layer : dir["layer"][l] # 0 => content[dir["layer"][l]] = "whole"

(* A layer that a volume uses stays what it was when the volume was made,  *)
(* whatever is imported, merged, removed or cleaned: CheckUsage and the    *)
(* creation of a volume exclude each other.                                *)
UsedLayerStays ==
  \A v \in Volume : uses[v] # NoLayer => dir["layer"][uses[v]] = pins[v]

(* Every import, removal and export ends: no wait for a load slot or for   *)
(* another import misses its notification (requests are finitely many, so  *)
(* all are idle again and again).  The exception are the returns that keep *)
(* their slot.                                                             *)
RequestsEnd == []<>(ghost.leaked > 0 \/ \A t \in Thread : Pc(t) = "idle")

(* What an asynchronous removal or a crash leaves is removed: the name of  *)
(* a directory in work or left over is free again some time.               *)
LeftoversGo ==
  \A k \in {"import", "remove"}, l \in Layer :
    []<>(ghost.leaked > 0 \/ dir[k][l] = 0)
=============================================================================
