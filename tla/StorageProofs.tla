---------------------------- MODULE StorageProofs ----------------------------
(***************************************************************************)
(* Proofs about Storage, for any number of layers, threads, volumes,       *)
(* requests, failures and crashes: the types, what a thread's step does,   *)
(* and that a layer in use stays.                                          *)
(***************************************************************************)
EXTENDS Storage, TLAPS

-----------------------------------------------------------------------------
(* The inductive invariant, and two places of a thread.                    *)

(* A layer is not there and being imported at the same time, and a volume  *)
(* that uses a layer has mounted something.                                *)
UseInv ==
  /\ \A l \in Layer : dir["layer"][l] = 0 \/ dir["import"][l] = 0
  /\ \A v \in Volume : uses[v] # NoLayer => pins[v] # 0
  /\ UsedLayerStays

(* A thread that has an import directory in work. *)
Holds(r) ==
  \/ r.pc \in {"extract", "publish", "undo", "undo root"}
  \/ r.pc \in {"load", "full", "work"} /\ r.op = "import"

(* A thread that has taken a directory away and has yet to say so. *)
Leaves(r) ==
  \/ r.pc \in {"undo load", "undo active", "rm root", "rm load", "rm active"}
  \/ r.pc \in {"load", "full", "work"} /\ r.op = "remove"

-----------------------------------------------------------------------------
(* Facts about the steps.                                                  *)

(* A new directory has an inode that nothing else has. *)
LEMMA NewInoIsNew ==
  ASSUME Unused # {}
  PROVE  /\ NewIno \in Ino
         /\ \A k \in Kind, l \in Layer : dir[k][l] # NewIno
         /\ \A t \in Thread : th[t].ino # NewIno
  <1>1. NewIno \in Unused  BY DEF NewIno
  <1>2. QED  BY <1>1 DEF Unused

Threads == [Thread -> ThreadRecord]
Dirs == [Kind -> [Layer -> Ino \cup {0}]]

(* TypeOK in parts. *)
ThreadsOK == th \in Threads /\ \A t \in Thread : th[t].pc # "idle" => th[t].layer \in Layer
NamesOK ==
  /\ dir \in Dirs /\ content \in [Ino -> {"empty", "part", "whole"}]
  /\ priv \subseteq Layer /\ active \subseteq Ino
VolumesOK ==
  uses \in [Volume -> Layer \cup {NoLayer}] /\ pins \in [Volume -> Ino \cup {0}]
CleanerOK ==
  /\ cleaner \in CleanerRecord
  /\ cleaner.pc \in {"check", "remove", "root"} =>
       cleaner.kind \in {"import", "remove"} /\ cleaner.layer \in Layer
GhostOK == ghost \in [raced : BOOLEAN, leaked : Nat]

LEMMA TypeParts == TypeOK <=> NamesOK /\ VolumesOK /\ ThreadsOK /\ CleanerOK /\ GhostOK
  BY DEF TypeOK, NamesOK, VolumesOK, ThreadsOK, CleanerOK, GhostOK, Threads, Dirs

(* Another thread may wake up; nothing else about it changes. *)
WokenFrom(r, s) ==
  /\ r.op = s.op /\ r.layer = s.layer /\ r.flag = s.flag /\ r.ino = s.ino
  /\ \/ r.pc = s.pc
     \/ s.pc = "sleep" /\ r.pc = "enter"
     \/ s.pc = "full" /\ r.pc = "load"

(* Thread t goes to pc with ino, or it ends its request. *)
Goes(t, pc, ino) ==
  /\ th' \in Threads
  /\ th'[t].pc = pc /\ th'[t].ino = ino /\ th'[t].op = th[t].op /\ th'[t].layer = th[t].layer
  /\ \A u \in Thread \ {t} : WokenFrom(th'[u], th[u])
Stops(t) ==
  /\ th' \in Threads /\ th'[t] = Idle
  /\ \A u \in Thread \ {t} : WokenFrom(th'[u], th[u])

LEMMA ThreadType ==
  ASSUME NEW pc \in Place, NEW op \in {"none", "import", "remove", "export"},
         NEW l \in Layer \cup {NoLayer},
         NEW flag \in BOOLEAN, NEW ino \in Ino \cup {0}
  PROVE  [pc |-> pc, op |-> op, layer |-> l, flag |-> flag, ino |-> ino] \in ThreadRecord
  BY DEF ThreadRecord

LEMMA IdleType == Idle \in ThreadRecord /\ Idle.pc = "idle" /\ Idle.ino = 0
  <1>1. Idle.pc = "idle" /\ Idle.ino = 0  BY DEF Idle
  <1>2. Idle \in ThreadRecord
    <2>1. "idle" \in Place /\ "none" \in {"none", "import", "remove", "export"}  BY DEF Place
    <2>2. NoLayer \in Layer \cup {NoLayer} /\ 0 \in Ino \cup {0}  OBVIOUS
    <2>3. FALSE \in BOOLEAN  BY Zenon
    <2>4. QED  BY <2>1, <2>2, <2>3, ThreadType, Zenon DEF Idle
  <1>3. QED  BY <1>1, <1>2

LEMMA WokenEffect ==
  ASSUME NEW r \in ThreadRecord
  PROVE  Woken(r) \in ThreadRecord /\ WokenFrom(Woken(r), r)
  <1> DEFINE woken(pc) == [r EXCEPT !.pc = pc]
  <1>1. \A pc \in Place :
          /\ woken(pc) \in ThreadRecord /\ woken(pc).pc = pc
          /\ woken(pc).op = r.op /\ woken(pc).layer = r.layer
          /\ woken(pc).flag = r.flag /\ woken(pc).ino = r.ino
    BY DEF ThreadRecord
  <1>2. Woken(r) = IF r.pc = "sleep" THEN woken("enter")
                   ELSE IF r.pc = "full" THEN woken("load") ELSE r
    BY Zenon DEF Woken
  <1>3. "enter" \in Place /\ "load" \in Place  BY DEF Place
  <1> HIDE DEF woken
  <1>4. CASE r.pc = "sleep"
    <2>1. Woken(r) = woken("enter")  BY <1>2, <1>4, Zenon
    <2>2. QED  BY <1>1, <1>3, <1>4, <2>1, Zenon DEF WokenFrom
  <1>5. CASE r.pc = "full"
    <2>1. Woken(r) = woken("load")  BY <1>2, <1>5
    <2>2. QED  BY <1>1, <1>3, <1>5, <2>1, Zenon DEF WokenFrom
  <1>6. CASE r.pc # "sleep" /\ r.pc # "full"
    <2>1. Woken(r) = r  BY <1>2, <1>6
    <2>2. QED  BY <2>1 DEF WokenFrom
  <1>7. QED  BY <1>4, <1>5, <1>6

LEMMA SameIsWoken == \A r : WokenFrom(r, r)
  BY DEF WokenFrom

LEMMA ToEffect ==
  ASSUME th \in Threads, NEW t \in Thread, NEW pc \in Place, To(t, pc)
  PROVE  Goes(t, pc, th[t].ino)
  <1>1. /\ th' \in Threads
        /\ th'[t].pc = pc /\ th'[t].op = th[t].op /\ th'[t].layer = th[t].layer
        /\ th'[t].ino = th[t].ino
        /\ \A u \in Thread \ {t} : th'[u] = th[u]
    BY DEF To, Threads, ThreadRecord
  <1>2. QED  BY <1>1, SameIsWoken DEF Goes

LEMMA ClaimEffect ==
  ASSUME th \in Threads, NEW t \in Thread, NEW ino \in Ino \cup {0},
         th' = [th EXCEPT ![t].ino = ino, ![t].pc = "load"]
  PROVE  Goes(t, "load", ino)
  <1>1. /\ th' \in Threads
        /\ th'[t].pc = "load" /\ th'[t].op = th[t].op /\ th'[t].layer = th[t].layer
        /\ th'[t].ino = ino
        /\ \A u \in Thread \ {t} : th'[u] = th[u]
    <2>1. "load" \in Place  BY DEF Place
    <2>2. QED  BY <2>1, Zenon DEF Threads, ThreadRecord
  <1>2. QED  BY <1>1, SameIsWoken, Zenon DEF Goes

LEMMA EndsEffect ==
  ASSUME th \in Threads, NEW t \in Thread, Ends(t)
  PROVE  Stops(t)
  <1>1. th' \in Threads /\ th'[t] = Idle /\ \A u \in Thread \ {t} : th'[u] = th[u]
    BY IdleType DEF Ends, Threads
  <1>2. QED  BY <1>1, SameIsWoken DEF Stops

LEMMA NotifyEffect ==
  ASSUME th \in Threads, NEW t \in Thread, EndNotify(t)
  PROVE  Stops(t)
  BY WokenEffect, IdleType DEF EndNotify, Threads, Stops

LEMMA DecEffect ==
  ASSUME th \in Threads, NEW t \in Thread, NEW pc \in Place, DecPlaceLoad(t, pc)
  PROVE  IF pc = "idle" THEN Stops(t) ELSE Goes(t, pc, th[t].ino)
  <1>1. CASE pc = "idle"  BY <1>1, NotifyEffect DEF DecPlaceLoad
  <1>2. CASE pc # "idle"
    <2> USE DEF Threads
    <2>1. [th[t] EXCEPT !.pc = pc] \in ThreadRecord  BY DEF ThreadRecord
    <2>2. th' = [u \in Thread |-> IF u = t THEN [th[t] EXCEPT !.pc = pc] ELSE Woken(th[u])]
      BY <1>2 DEF DecPlaceLoad, ToNotify
    <2>3. th' \in Threads  BY <2>1, <2>2, WokenEffect
    <2>4. \A u \in Thread \ {t} : WokenFrom(th'[u], th[u])  BY <2>2, WokenEffect
    <2>5. th'[t] = [th[t] EXCEPT !.pc = pc]  BY <2>2
    <2>6. /\ th'[t].pc = pc /\ th'[t].ino = th[t].ino
          /\ th'[t].op = th[t].op /\ th'[t].layer = th[t].layer
      BY <2>5 DEF ThreadRecord
    <2>7. QED  BY <1>2, <2>3, <2>4, <2>6 DEF Goes
  <1>3. QED  BY <1>1, <1>2

LEMMA BeginsEffect ==
  ASSUME th \in Threads, NEW t \in Thread, NEW op \in {"import", "remove", "export"},
         NEW l \in Layer, NEW flag \in BOOLEAN, NEW pc \in Place, Begins(t, op, l, flag, pc)
  PROVE  /\ th' \in Threads /\ Pc(t) = "idle"
         /\ th'[t].pc = pc /\ th'[t].op = op /\ th'[t].layer = l
         /\ th'[t].flag = flag /\ th'[t].ino = 0
         /\ \A u \in Thread \ {t} : th'[u] = th[u]
  <1> DEFINE r == [pc |-> pc, op |-> op, layer |-> l, flag |-> flag, ino |-> 0]
  <1>1. r \in ThreadRecord  BY ThreadType
  <1>2. r.pc = pc /\ r.op = op /\ r.layer = l /\ r.flag = flag /\ r.ino = 0  OBVIOUS
  <1>3. th' = [th EXCEPT ![t] = r] /\ Pc(t) = "idle"  BY DEF Begins
  <1> HIDE DEF r
  <1>4. QED  BY <1>1, <1>2, <1>3 DEF Threads

LEMMA ScanType == Scan \in CleanerRecord /\ Scan.pc = "scan"
  BY DEF Scan, CleanerRecord

LEMMA RestType ==
  ASSUME cleaner \in CleanerRecord, NEW x
  PROVE  Rest(x) \in CleanerRecord /\ Rest(x).pc \in {"scan", "next"}
  BY Zenon DEF Rest, Scan, CleanerRecord

(* What rename(2) and rmdir(2) leave of the names. *)
LEMMA RenamedEffect ==
  ASSUME dir \in Dirs, NEW from \in Kind, NEW to \in Kind, from # to, NEW l \in Layer
  PROVE  /\ Renamed(from, to, l) \in Dirs
         /\ \A k \in Kind, m \in Layer : Renamed(from, to, l)[k][m] =
              IF m = l /\ k = to THEN dir[from][l] ELSE IF m = l /\ k = from THEN 0 ELSE dir[k][m]
  <1> DEFINE linked == [dir EXCEPT ![to][l] = dir[from][l]]
  <1>1. linked \in Dirs  BY DEF Dirs
  <1>2. \A k \in Kind, m \in Layer :
          linked[k][m] = IF m = l /\ k = to THEN dir[from][l] ELSE dir[k][m]
    BY DEF Dirs
  <1>3. Renamed(from, to, l) = [linked EXCEPT ![from][l] = 0]  BY DEF Renamed
  <1> HIDE DEF linked
  <1>4. QED  BY <1>1, <1>2, <1>3 DEF Dirs

LEMMA RootEffect ==
  ASSUME dir \in Dirs, NEW k \in Kind, NEW l \in Layer, NEW unaware, RemoveRoot(k, l, unaware)
  PROVE  /\ dir' \in Dirs
         /\ \A j \in Kind, m \in Layer :
              dir'[j][m] = dir[j][m] \/ (dir'[j][m] = 0 /\ j = k /\ m = l /\ dir[k][l] # 0
                                         /\ content[dir[k][l]] = "empty" /\ Touches(k, l, unaware))
         /\ ghost' = ghost \/ Touches(k, l, unaware)
  BY DEF RemoveRoot, Dirs

-----------------------------------------------------------------------------
(* The steps of a thread, by what they do to the directories.              *)

(* A thread goes on, and no directory changes. *)
Quiet(t) ==
  /\ UNCHANGED <<dir, content, active>> /\ ghost'.raced = ghost.raced
  /\ \/ Stops(t)
     \/ \E pc \in Place \ {"extract", "publish", "undo root"} :
          /\ Goes(t, pc, th[t].ino)
          /\ Holds(th'[t]) => Holds(th[t])
          /\ Leaves(th'[t]) => Leaves(th[t])

Merges(t, l) ==
  /\ th[t].op = "import" /\ ~Importing(l) /\ CheckUsage(l) /\ CanRename("layer", "import", l)
  /\ dir' = Renamed("layer", "import", l) /\ active' = active \cup {dir["layer"][l]}
  /\ Goes(t, "load", dir["layer"][l]) /\ UNCHANGED <<content, ghost>>

Makes(t, l) ==
  /\ th[t].op = "import" /\ MayMake(l)
  /\ dir' = [dir EXCEPT !["import"][l] = NewIno] /\ active' = active \cup {NewIno}
  /\ content' = [content EXCEPT ![NewIno] = "empty"]
  /\ Goes(t, "load", NewIno) /\ UNCHANGED ghost

Fills(t) ==
  /\ \/ th[t].pc = "work" /\ th[t].op = "import" /\ Goes(t, "extract", th[t].ino)
        /\ content' = [content EXCEPT ![th[t].ino] = "part"]
     \/ th[t].pc = "extract" /\ Goes(t, "publish", th[t].ino)
        /\ content' = [content EXCEPT ![th[t].ino] = IF @ = "part" THEN "whole" ELSE "part"]
  /\ UNCHANGED <<dir, active, ghost>>

Publishes(t, l) ==
  /\ th[t].pc = "publish" /\ CanRename("import", "layer", l)
  /\ dir' = Renamed("import", "layer", l) /\ active' = active \ {th[t].ino}
  /\ Goes(t, "published", th[t].ino) /\ UNCHANGED <<content, ghost>>

Undoes(t, l) ==
  /\ \/ th[t].pc = "undo" /\ Goes(t, "undo root", th[t].ino)
        /\ RemoveWalk("import", l, dir["import"][l] # th[t].ino)
     \/ th[t].pc = "undo root" /\ Goes(t, "undo load", th[t].ino)
        /\ RemoveRoot("import", l, dir["import"][l] # th[t].ino) /\ UNCHANGED content
  /\ UNCHANGED active

Releases(t) ==
  /\ th[t].pc \in {"undo active", "rm active"} /\ Stops(t)
  /\ active' = active \ {th[t].ino} /\ UNCHANGED <<dir, content, ghost>>

Destroys(t, l) ==
  /\ \/ th[t].pc = "clear" /\ Goes(t, "clear root", th[t].ino) /\ RemoveWalk("remove", l, FALSE)
     \/ /\ th[t].pc = "work" /\ th[t].op = "remove" /\ Goes(t, "rm root", th[t].ino)
        /\ RemoveWalk("remove", l, FALSE)
     \/ /\ th[t].pc = "clear root" /\ Stops(t)
        /\ RemoveRoot("remove", l, FALSE) /\ UNCHANGED content
     \/ /\ th[t].pc = "rm root" /\ Goes(t, "rm load", th[t].ino)
        /\ RemoveRoot("remove", l, FALSE) /\ UNCHANGED content
  /\ UNCHANGED active

TakesAway(t, l) ==
  /\ th[t].op = "remove" /\ CheckUsage(l) /\ CanRename("layer", "remove", l)
  /\ dir' = Renamed("layer", "remove", l)
  /\ \E i \in {0, dir["layer"][l]} : Goes(t, "load", i) /\ active' = active \cup ({i} \ {0})
  /\ UNCHANGED <<content, ghost>>

WorkStep(t, l) ==
  \/ Quiet(t) \/ Merges(t, l) \/ Makes(t, l) \/ Fills(t) \/ Publishes(t, l)
  \/ Undoes(t, l) \/ Releases(t) \/ Destroys(t, l) \/ TakesAway(t, l)

(* Every step of a thread in work is one of these. *)
LEMMA WorkIsStep ==
  ASSUME TypeOK, NEW t \in Thread, Work(t)
  PROVE  /\ th[t].layer \in Layer /\ WorkStep(t, th[t].layer)
         /\ priv' \subseteq Layer /\ GhostOK' /\ UNCHANGED <<uses, pins, cleaner>>
  <1>1. NamesOK /\ ThreadsOK /\ GhostOK  BY TypeParts
  <1>2. th \in Threads  BY <1>1 DEF ThreadsOK
  <1>3. th[t].layer \in Layer /\ priv' \subseteq Layer /\ UNCHANGED <<uses, pins, cleaner>>
    BY <1>1, Zenon DEF Work, IncPlaceLoad, EnterImport, Extract, Extracted, Publish, Published, Undo, Find,
                Clear, EnterRemove, Removing, Exported, ThreadsOK, NamesOK, Pc, disk, volumes
  <1> DEFINE l == th[t].layer
             Step == WorkStep(t, l) /\ GhostOK'
  <1> USE <1>1, <1>2, <1>3 DEF Pc, disk, memory
  <1>4. ASSUME NEW pc \in Place \ {"extract", "publish", "undo root"},
               Goes(t, pc, th[t].ino), UNCHANGED <<dir, content, active, ghost>>,
               \/ pc \in {"sleep", "enter", "clear"}
               \/ pc \in {"work", "full"} /\ th[t].pc = "load"
               \/ pc = "undo" /\ th[t].pc \in {"extract", "publish"}
               \/ pc = "undo active" /\ th[t].pc = "undo load"
               \/ pc = "rm active" /\ th[t].pc = "rm load"
        PROVE  Step
    <2>1. th'[t].pc = pc /\ th'[t].op = th[t].op  BY <1>4, Zenon DEF Goes
    <2>2. (Holds(th'[t]) => Holds(th[t])) /\ (Leaves(th'[t]) => Leaves(th[t]))
      BY <1>4, <2>1, Zenon DEF Holds, Leaves
    <2>3. QED  BY <1>4, <2>2, Zenon DEF WorkStep, Quiet, GhostOK
  <1>5. ASSUME Stops(t), UNCHANGED <<dir, content, active>>, ghost'.raced = ghost.raced, GhostOK'
        PROVE  Step
    BY <1>5 DEF WorkStep, Quiet
  <1>6. ASSUME ghost' = [ghost EXCEPT !.leaked = @ + 1]
        PROVE  ghost'.raced = ghost.raced /\ GhostOK'
    BY <1>6 DEF GhostOK
  <1>7. ASSUME UNCHANGED ghost PROVE ghost'.raced = ghost.raced /\ GhostOK'
    BY <1>7 DEF GhostOK
  <1>8. ASSUME NEW k, NEW m, NEW b \in BOOLEAN, Touches(k, m, b) PROVE GhostOK'
    BY <1>8 DEF GhostOK, Touches
  <1>9. CASE IncPlaceLoad(t)
    <2>1. Goes(t, "work", th[t].ino) \/ Goes(t, "full", th[t].ino)
      BY <1>9, ToEffect, Zenon DEF IncPlaceLoad, Place
    <2>2. QED  BY <1>4, <1>9, <2>1, Zenon DEF IncPlaceLoad, Place
  <1>10. CASE EnterImport(t)
    <2>1. CASE /\ MayMerge(t, l) /\ dir' = Renamed("layer", "import", l)
               /\ Claim(t, dir["layer"][l]) /\ UNCHANGED content
      <3>1. dir["layer"][l] \in Ino \cup {0}  BY DEF NamesOK, Dirs, Kind
      <3>2. Goes(t, "load", dir["layer"][l])  BY <2>1, <3>1, ClaimEffect, Zenon DEF Claim
      <3>3. QED  BY <1>7, <1>10, <2>1, <3>2 DEF EnterImport, MayMerge, Claim, WorkStep, Merges
    <2>2. CASE /\ MayMake(l) /\ dir' = [dir EXCEPT !["import"][l] = NewIno]
               /\ content' = [content EXCEPT ![NewIno] = "empty"] /\ Claim(t, NewIno)
      <3>1. NewIno \in Ino \cup {0}  BY <2>2, NewInoIsNew DEF MayMake
      <3>2. Goes(t, "load", NewIno)  BY <2>2, <3>1, ClaimEffect, Zenon DEF Claim
      <3>3. QED  BY <1>7, <1>10, <2>2, <3>2 DEF EnterImport, Claim, WorkStep, Makes
    <2>3. CASE (To(t, "sleep") \/ Ends(t)) /\ UNCHANGED <<dir, content, active>>
      <3>1. Goes(t, "sleep", th[t].ino) \/ Stops(t)  BY <2>3, ToEffect, EndsEffect, Zenon DEF Place
      <3>2. UNCHANGED ghost  BY <1>10 DEF EnterImport
      <3>3. QED  BY <1>4, <1>5, <1>7, <2>3, <3>1, <3>2, Zenon DEF Place
    <2>4. QED  BY <1>10, <2>1, <2>2, <2>3 DEF EnterImport
  <1>11. CASE Extract(t)
    <2>1. CASE To(t, "extract")
      <3>1. Goes(t, "extract", th[t].ino)  BY <2>1, ToEffect, Zenon DEF Place
      <3>2. QED  BY <1>5, <1>6, <1>7, <1>11, <2>1, <3>1, EndsEffect DEF Extract, WorkStep, Fills
    <2>2. CASE Ends(t) /\ UNCHANGED content /\ ghost' = [ghost EXCEPT !.leaked = @ + 1]
      BY <1>5, <1>6, <1>11, <2>2, EndsEffect DEF Extract
    <2>3. QED  BY <1>11, <2>1, <2>2 DEF Extract
  <1>12. CASE Extracted(t)
    <2>1. CASE To(t, "publish") /\ content' = [content EXCEPT ![th[t].ino] =
                                               IF @ = "part" THEN "whole" ELSE "part"]
      <3>1. Goes(t, "publish", th[t].ino)  BY <2>1, ToEffect, Zenon DEF Place
      <3>2. QED  BY <1>7, <1>12, <2>1, <3>1 DEF Extracted, WorkStep, Fills
    <2>2. CASE To(t, "undo") /\ UNCHANGED content
      <3>1. Goes(t, "undo", th[t].ino)  BY <2>2, ToEffect, Zenon DEF Place
      <3>2. QED  BY <1>4, <1>12, <2>2, <3>1, Zenon DEF Extracted, Place
    <2>3. QED  BY <1>12, <2>1, <2>2 DEF Extracted
  <1>13. CASE Publish(t)
    <2>1. CASE CanRename("import", "layer", l)
      <3>1. To(t, "published")  BY <1>13, <2>1 DEF Publish
      <3>2. Goes(t, "published", th[t].ino)  BY <3>1, ToEffect, Zenon DEF Place
      <3>3. QED  BY <1>7, <1>13, <2>1, <3>2 DEF Publish, WorkStep, Publishes
    <2>2. CASE ~CanRename("import", "layer", l)
      <3>1. To(t, "undo")  BY <1>13, <2>2 DEF Publish
      <3>2. Goes(t, "undo", th[t].ino)  BY <3>1, ToEffect, Zenon DEF Place
      <3>3. QED  BY <1>4, <1>13, <2>2, <3>2, Zenon DEF Publish, Place
    <2>3. QED  BY <2>1, <2>2
  <1>14. CASE Published(t)
    <2>1. Stops(t)  BY <1>14, DecEffect, Zenon DEF Published, Place
    <2>2. QED  BY <1>5, <1>7, <1>14, <2>1 DEF Published
  <1>15. CASE Undo(t)
    <2>1. CASE th[t].pc = "undo"
      <3>1. Goes(t, "undo root", th[t].ino)  BY <1>15, <2>1, ToEffect, Zenon DEF Undo, Place
      <3>2. QED  BY <1>8, <1>15, <2>1, <3>1, Zenon DEF Undo, WorkStep, Undoes, RemoveWalk
    <2>2. CASE th[t].pc = "undo root"
      <3>1. Goes(t, "undo load", th[t].ino)  BY <1>15, <2>2, ToEffect, Zenon DEF Undo, Place
      <3>2. GhostOK'  BY <1>7, <1>8, <1>15, <2>2, Zenon DEF Undo, RemoveRoot
      <3>3. QED  BY <1>15, <2>2, <3>1, <3>2, Zenon DEF Undo, WorkStep, Undoes
    <2>3. CASE th[t].pc = "undo load"
      <3>1. Goes(t, "undo active", th[t].ino)  BY <1>15, <2>3, DecEffect, Zenon DEF Undo, Place
      <3>2. QED  BY <1>4, <1>15, <2>3, <3>1, Zenon DEF Undo, Place
    <2>4. CASE th[t].pc = "undo active"
      <3>1. Stops(t)  BY <1>15, <2>4, NotifyEffect, Zenon DEF Undo
      <3>2. QED  BY <1>7, <1>15, <2>4, <3>1, Zenon DEF Undo, WorkStep, Releases
    <2>5. QED  BY <1>15, <2>1, <2>2, <2>3, <2>4, Zenon DEF Undo
  <1>16. CASE Find(t)
    <2>1. To(t, "enter") \/ To(t, "clear") \/ Ends(t)  BY <1>16 DEF Find
    <2>2. Goes(t, "enter", th[t].ino) \/ Goes(t, "clear", th[t].ino) \/ Stops(t)
      BY <2>1, ToEffect, EndsEffect, Zenon DEF Place
    <2>3. UNCHANGED <<dir, content, active, ghost>>  BY <1>16 DEF Find
    <2>4. QED  BY <1>4, <1>5, <1>7, <2>2, <2>3, Zenon DEF Place
  <1>17. CASE Clear(t)
    <2>1. CASE th[t].pc = "clear"
      <3>1. Goes(t, "clear root", th[t].ino)  BY <1>17, <2>1, ToEffect, Zenon DEF Clear, Place
      <3>2. QED  BY <1>8, <1>17, <2>1, <3>1, Zenon DEF Clear, WorkStep, Destroys, RemoveWalk
    <2>2. CASE th[t].pc = "clear root"
      <3>1. Stops(t)  BY <1>17, <2>2, EndsEffect, Zenon DEF Clear
      <3>2. GhostOK'  BY <1>7, <1>8, <1>17, <2>2, Zenon DEF Clear, RemoveRoot
      <3>3. QED  BY <1>17, <2>2, <3>1, <3>2, Zenon DEF Clear, WorkStep, Destroys
    <2>3. QED  BY <1>17, <2>1, <2>2, Zenon DEF Clear
  <1>18. CASE EnterRemove(t)
    <2>1. CASE CheckUsage(l) /\ CanRename("layer", "remove", l)
      <3> DEFINE i == IF th[t].flag THEN 0 ELSE dir["layer"][l]
      <3>1. dir["layer"][l] \in Ino /\ i \in Ino \cup {0} /\ i \in {0, dir["layer"][l]}
        BY <2>1 DEF NamesOK, Dirs, Kind, CanRename
      <3>2. th' = [th EXCEPT ![t].ino = i, ![t].pc = "load"]  BY <1>18, <2>1 DEF EnterRemove
      <3>3. active' = active \cup ({i} \ {0})
        BY <1>18, <2>1, <3>1, StorageAssumption DEF EnterRemove
      <3> HIDE DEF i
      <3>4. Goes(t, "load", i)  BY <3>1, <3>2, ClaimEffect, Zenon
      <3>5. QED  BY <1>7, <1>18, <2>1, <3>1, <3>3, <3>4 DEF EnterRemove, WorkStep, TakesAway
    <2>2. CASE ~(CheckUsage(l) /\ CanRename("layer", "remove", l))
      BY <1>5, <1>7, <1>18, <2>2, EndsEffect DEF EnterRemove
    <2>3. QED  BY <2>1, <2>2
  <1>19. CASE Removing(t)
    <2>1. CASE th[t].pc = "work" /\ ~th[t].flag
      <3>1. Goes(t, "rm root", th[t].ino)  BY <1>19, <2>1, ToEffect, Zenon DEF Removing, Place
      <3>2. QED  BY <1>8, <1>19, <2>1, <3>1, Zenon DEF Removing, WorkStep, Destroys, RemoveWalk
    <2>2. CASE th[t].pc = "work" /\ th[t].flag
      <3>1. Stops(t)  BY <1>19, <2>2, DecEffect, Zenon DEF Removing, Place
      <3>2. QED  BY <1>5, <1>7, <1>19, <2>2, <3>1 DEF Removing
    <2>3. CASE th[t].pc = "rm root"
      <3>1. Goes(t, "rm load", th[t].ino)  BY <1>19, <2>3, ToEffect, Zenon DEF Removing, Place
      <3>2. GhostOK'  BY <1>7, <1>8, <1>19, <2>3, Zenon DEF Removing, RemoveRoot
      <3>3. QED  BY <1>19, <2>3, <3>1, <3>2, Zenon DEF Removing, WorkStep, Destroys
    <2>4. CASE th[t].pc = "rm load"
      <3>1. Goes(t, "rm active", th[t].ino)  BY <1>19, <2>4, DecEffect, Zenon DEF Removing, Place
      <3>2. QED  BY <1>4, <1>19, <2>4, <3>1, Zenon DEF Removing, Place
    <2>5. CASE th[t].pc = "rm active"
      <3>1. Stops(t)  BY <1>19, <2>5, EndsEffect, Zenon DEF Removing
      <3>2. QED  BY <1>7, <1>19, <2>5, <3>1, Zenon DEF Removing, WorkStep, Releases
    <2>6. QED  BY <1>19, <2>1, <2>2, <2>3, <2>4, <2>5, Zenon DEF Removing
  <1>20. CASE Exported(t)
    <2>1. Stops(t)  BY <1>20, DecEffect, EndsEffect, Zenon DEF Exported, Place
    <2>2. QED  BY <1>5, <1>6, <1>7, <1>20, <2>1 DEF Exported
  <1>21. QED
    BY <1>9, <1>10, <1>11, <1>12, <1>13, <1>14, <1>15, <1>16, <1>17, <1>18, <1>19, <1>20 DEF Work

(* A thread that goes on or stops keeps the types of the threads. *)
LEMMA MovesKeepThreads ==
  ASSUME ThreadsOK, NEW t \in Thread, th[t].layer \in Layer,
         Stops(t) \/ \E pc, ino : Goes(t, pc, ino)
  PROVE  ThreadsOK'
  BY IdleType DEF ThreadsOK, Stops, Goes, WokenFrom

(* Every step of Storage keeps the types. *)
LEMMA TypesKept == TypeOK /\ [Next]_vars => TypeOK'
  <1> SUFFICES ASSUME TypeOK, [Next]_vars PROVE TypeOK'
    OBVIOUS
  <1>0. NamesOK /\ VolumesOK /\ ThreadsOK /\ CleanerOK /\ GhostOK  BY TypeParts
  <1>p. NamesOK' /\ VolumesOK' /\ ThreadsOK' /\ CleanerOK' /\ GhostOK' => TypeOK'
    BY TypeParts, PTL
  <1> USE <1>0, StorageAssumption
  <1>1. ASSUME NEW t \in Thread, Work(t) PROVE TypeOK'
    <2> DEFINE l == th[t].layer
    <2>1. /\ l \in Layer /\ WorkStep(t, l)
          /\ priv' \subseteq Layer /\ GhostOK' /\ UNCHANGED <<uses, pins, cleaner>>
      BY <1>1, WorkIsStep
    <2> HIDE DEF l
    <2>2. ThreadsOK'
      <3>1. Stops(t) \/ \E pc, ino : Goes(t, pc, ino)
        BY <2>1, Zenon DEF WorkStep, Quiet, Merges, Makes, Fills, Publishes, Undoes, Releases, Destroys,
                    TakesAway
      <3>2. QED  BY <2>1, <3>1, MovesKeepThreads DEF l
    <2>3. VolumesOK' /\ CleanerOK'  BY <2>1 DEF VolumesOK, CleanerOK
    <2>k. dir \in Dirs /\ {"layer", "import", "remove"} \subseteq Kind  BY DEF NamesOK, Kind
    <2>4. dir' \in Dirs
      <3>1. CASE Merges(t, l)  BY <2>1, <2>k, <3>1, RenamedEffect DEF Merges
      <3>2. CASE Makes(t, l)
        <4>1. NewIno \in Ino  BY <3>2, NewInoIsNew DEF Makes, MayMake
        <4>2. QED  BY <2>1, <2>k, <3>2, <4>1 DEF Makes, Dirs
      <3>3. CASE Publishes(t, l)  BY <2>1, <2>k, <3>3, RenamedEffect DEF Publishes
      <3>4. CASE Undoes(t, l)  BY <2>1, <2>k, <3>4, RootEffect, Zenon DEF Undoes, RemoveWalk
      <3>5. CASE Destroys(t, l)  BY <2>1, <2>k, <3>5, RootEffect, Zenon DEF Destroys, RemoveWalk
      <3>6. CASE TakesAway(t, l)  BY <2>1, <2>k, <3>6, RenamedEffect DEF TakesAway
      <3>7. CASE Quiet(t) \/ Fills(t) \/ Releases(t)
        BY <2>k, <3>7, Zenon DEF Quiet, Fills, Releases
      <3>8. QED  BY <2>1, <3>1, <3>2, <3>3, <3>4, <3>5, <3>6, <3>7 DEF WorkStep
    <2>5. content' \in [Ino -> {"empty", "part", "whole"}]
      BY <2>1, Zenon
      DEF WorkStep, Quiet, Merges, Makes, Fills, Publishes, Undoes, Releases, Destroys,
          TakesAway, RemoveWalk, NamesOK
    <2>6. active' \subseteq Ino
      <3>1. active \subseteq Ino /\ dir["layer"][l] \in Ino \cup {0}
        BY <2>1 DEF NamesOK, Dirs, Kind
      <3>2. CASE Merges(t, l)  BY <3>1, <3>2, Zenon DEF Merges, CanRename
      <3>3. CASE Makes(t, l)  BY <3>1, <3>3, NewInoIsNew DEF Makes, MayMake
      <3>4. CASE TakesAway(t, l)  BY <3>1, <3>4 DEF TakesAway
      <3>5. CASE \/ Quiet(t) \/ Fills(t) \/ Publishes(t, l) \/ Undoes(t, l) \/ Releases(t)
                 \/ Destroys(t, l)
        BY <3>1, <3>5, Zenon DEF Quiet, Fills, Publishes, Undoes, Releases, Destroys
      <3>6. QED  BY <2>1, <3>2, <3>3, <3>4, <3>5 DEF WorkStep
    <2>7. QED  BY <1>p, <2>1, <2>2, <2>3, <2>4, <2>5, <2>6 DEF NamesOK
  <1>2. ASSUME NEW t \in Thread, Arrive(t) PROVE TypeOK'
    <2>1. NamesOK' /\ CleanerOK' /\ GhostOK'
      BY <1>2, Zenon DEF Arrive, Import, Remove, Export, EraseVolume, CreateVolume, NamesOK, CleanerOK,
                  GhostOK, disk, memory
    <2>2. VolumesOK'
      <3>1. \A l \in Layer : dir["layer"][l] \in Ino \cup {0}  BY DEF NamesOK, Dirs, Kind
      <3>2. CASE \E v \in Volume, l \in Layer : CreateVolume(t, v, l)
        BY <3>1, <3>2 DEF CreateVolume, VolumesOK
      <3>3. CASE \E v \in Volume : EraseVolume(t, v)  BY <3>3 DEF EraseVolume, VolumesOK
      <3>4. CASE UNCHANGED <<uses, pins>>  BY <3>4 DEF VolumesOK
      <3>5. QED  BY <1>2, <3>2, <3>3, <3>4, Zenon DEF Arrive, Import, Remove, Export, volumes
    <2>3. UNCHANGED th \/ \E op \in {"import", "remove", "export"}, l \in Layer, flag \in BOOLEAN,
                              pc \in Place : Begins(t, op, l, flag, pc)
      BY <1>2, Zenon DEF Arrive, Import, Remove, Export, EraseVolume, CreateVolume, VolumesOK, Place
    <2>4. ThreadsOK'  BY <2>3, BeginsEffect DEF ThreadsOK
    <2>5. QED  BY <1>p, <2>1, <2>2, <2>4
  <1>3. CASE Clean
    <2>1. VolumesOK' /\ ThreadsOK'
      BY <1>3, Zenon DEF Clean, ReadDirectory, CheckActive, RemoveJunk, CleanPrivate, Pin, VolumesOK,
                  ThreadsOK, volumes
    <2>2. CASE ReadDirectory
      <3>1. List \subseteq {"import", "remove", "private"} \X Layer  BY DEF List, NamesOK
      <3>2. CleanerOK'  BY <2>2, <3>1, Zenon DEF ReadDirectory, CleanerOK, CleanerRecord
      <3>3. QED  BY <1>p, <2>1, <2>2, <3>2 DEF ReadDirectory, NamesOK, GhostOK, disk, memory
    <2>3. CASE CheckActive
      <3>1. CASE Spared
        BY <1>p, <2>1, <2>3, <3>1, RestType
        DEF CheckActive, CleanerOK, NamesOK, GhostOK, disk, memory
      <3>2. CASE ~Spared
        <4>1. cleaner' = [cleaner EXCEPT !.pc = "remove", !.unaware = TRUE]
          BY <2>3, <3>2, Zenon DEF CheckActive, Spared
        <4>2. CleanerOK'  BY <2>3, <4>1, Zenon DEF CheckActive, CleanerOK, CleanerRecord
        <4>3. QED  BY <1>p, <2>1, <2>3, <4>2 DEF CheckActive, NamesOK, GhostOK, disk, memory
      <3>3. QED  BY <3>1, <3>2
    <2>4. CASE RemoveJunk
      <3> DEFINE k == cleaner.kind
                 l == cleaner.layer
      <3>1. k \in Kind /\ l \in Layer /\ cleaner.unaware \in BOOLEAN
        BY <2>4 DEF RemoveJunk, CleanerOK, CleanerRecord, Kind
      <3>2. GhostOK'
        <4>1. UNCHANGED ghost \/ Touches(k, l, cleaner.unaware)
          BY <2>4 DEF RemoveJunk, RemoveWalk, RemoveRoot
        <4>2. QED  BY <3>1, <4>1 DEF GhostOK, Touches
      <3>3. NamesOK'
        BY <2>4, <3>1, RootEffect DEF RemoveJunk, RemoveWalk, NamesOK, memory
      <3>4. CleanerOK'
        <4>1. CASE cleaner' = [cleaner EXCEPT !.pc = "root"] /\ cleaner.pc = "remove"
          BY <4>1 DEF CleanerOK, CleanerRecord
        <4>2. CASE cleaner' = Rest(<<k, l>>)  BY <4>2, RestType DEF CleanerOK
        <4>3. QED  BY <2>4, <4>1, <4>2 DEF RemoveJunk
      <3>5. QED  BY <1>p, <2>1, <3>2, <3>3, <3>4
    <2>5. ASSUME NEW l \in Layer, CleanPrivate(l) PROVE TypeOK'
      BY <1>p, <2>1, <2>5, RestType DEF CleanPrivate, CleanerOK, NamesOK, GhostOK, memory
    <2>6. ASSUME NEW l \in Layer, NEW k \in {"import", "remove"}, Pin(k, l) PROVE TypeOK'
      <3>1. CASE dir[k][l] = 0
        BY <1>p, <2>1, <2>6, <3>1, RestType DEF Pin, CleanerOK, NamesOK, GhostOK, disk, memory
      <3>2. CASE dir[k][l] # 0
        <4>1. dir[k][l] \in Ino  BY <3>2 DEF NamesOK, Dirs, Kind
        <4>2. CleanerOK'  BY <2>6, <3>2, <4>1, Zenon DEF Pin, CleanerOK, CleanerRecord
        <4>3. QED  BY <1>p, <2>1, <2>6, <4>2 DEF Pin, NamesOK, GhostOK, disk, memory
      <3>3. QED  BY <3>1, <3>2
    <2>7. QED  BY <1>3, <2>2, <2>3, <2>4, <2>5, <2>6 DEF Clean
  <1>4. CASE Restart
    <2>1. ThreadsOK'  BY <1>4, IdleType DEF Restart, ThreadsOK, Threads
    <2>2. CleanerOK'  BY <1>4, ScanType DEF Restart, CleanerOK
    <2>3. GhostOK'  BY <1>4 DEF Restart, GhostOK
    <2>4. VolumesOK'  BY <1>4 DEF Restart, VolumesOK
    <2>5. NamesOK'  BY <1>4 DEF Restart, NamesOK, Dirs
    <2>6. QED  BY <1>p, <2>1, <2>2, <2>3, <2>4, <2>5
  <1>5. CASE UNCHANGED vars
    BY <1>5 DEF vars, disk, memory, volumes, TypeOK
  <1>6. QED  BY <1>1, <1>2, <1>3, <1>4, <1>5 DEF Next

LEMMA TypesStart == Init => TypeOK
  <1> SUFFICES ASSUME Init PROVE NamesOK /\ VolumesOK /\ ThreadsOK /\ CleanerOK /\ GhostOK
    BY TypeParts
  <1>1. NamesOK /\ VolumesOK /\ GhostOK  BY DEF Init, NamesOK, VolumesOK, GhostOK, Dirs
  <1>2. ThreadsOK  BY IdleType DEF Init, ThreadsOK, Threads
  <1>3. CleanerOK  BY ScanType DEF Init, CleanerOK
  <1>4. QED  BY <1>1, <1>2, <1>3

-----------------------------------------------------------------------------
(* A layer in use stays.                                                 *)

LEMMA RemovalEffect ==
  ASSUME dir \in Dirs, NEW k \in {"import", "remove"}, NEW l \in Layer, NEW b,
         RemoveWalk(k, l, b) \/ RemoveRoot(k, l, b)
  PROVE  \A m \in Layer : /\ dir'["layer"][m] = dir["layer"][m]
                          /\ dir'["import"][m] \in {0, dir["import"][m]}
  <1> USE DEF Kind
  <1>1. CASE RemoveWalk(k, l, b)  BY <1>1 DEF RemoveWalk
  <1>2. CASE RemoveRoot(k, l, b)  BY <1>2, RootEffect
  <1>3. QED  BY <1>1, <1>2

LEMMA UseKept == TypeOK /\ UseInv /\ [Next]_vars => UseInv'
  <1> SUFFICES ASSUME TypeOK, UseInv, [Next]_vars PROVE UseInv'
    OBVIOUS
  <1>0. dir \in Dirs /\ VolumesOK /\ CleanerOK /\ {"layer", "import", "remove"} \subseteq Kind
    BY TypeParts DEF NamesOK, Kind
  <1> USE <1>0
  <1>s. ASSUME UNCHANGED <<uses, pins>>,
               \A m \in Layer : /\ dir'["layer"][m] = dir["layer"][m]
                                /\ dir'["import"][m] \in {0, dir["import"][m]}
        PROVE  UseInv'
    BY <1>s DEF UseInv, UsedLayerStays, VolumesOK
  <1>1. ASSUME NEW t \in Thread, Work(t) PROVE UseInv'
    <2> DEFINE l == th[t].layer
    <2>1. l \in Layer /\ WorkStep(t, l) /\ UNCHANGED <<uses, pins>>  BY <1>1, WorkIsStep
    <2> HIDE DEF l
    <2>2. CASE Merges(t, l)
      <3>1. \A m \in Layer :
              /\ dir'["layer"][m] = IF m = l THEN 0 ELSE dir["layer"][m]
              /\ dir'["import"][m] = IF m = l THEN dir["layer"][l] ELSE dir["import"][m]
        BY <2>1, <2>2, RenamedEffect DEF Merges
      <3>2. \A v \in Volume : uses[v] # l  BY <2>2 DEF Merges, CheckUsage
      <3>3. QED  BY <2>1, <3>1, <3>2 DEF UseInv, UsedLayerStays, VolumesOK
    <2>3. CASE Makes(t, l)
      <3>1. \A m \in Layer :
              /\ dir'["layer"][m] = dir["layer"][m]
              /\ m # l => dir'["import"][m] = dir["import"][m]
        BY <2>1, <2>3 DEF Makes, Dirs
      <3>2. dir["layer"][l] = 0  BY <2>3 DEF Makes, MayMake
      <3>3. QED  BY <2>1, <3>1, <3>2 DEF UseInv, UsedLayerStays, VolumesOK
    <2>4. CASE Publishes(t, l)
      <3>1. \A m \in Layer :
              /\ dir'["import"][m] = IF m = l THEN 0 ELSE dir["import"][m]
              /\ dir'["layer"][m] = IF m = l THEN dir["import"][l] ELSE dir["layer"][m]
        BY <2>1, <2>4, RenamedEffect DEF Publishes
      <3>2. dir["layer"][l] = 0  BY <2>1, <2>4 DEF Publishes, CanRename, UseInv
      <3>3. \A v \in Volume : uses[v] # l
        BY <2>1, <3>2, StorageAssumption DEF UseInv, UsedLayerStays
      <3>4. QED  BY <2>1, <3>1, <3>3 DEF UseInv, UsedLayerStays, VolumesOK
    <2>5. CASE TakesAway(t, l)
      <3>1. \A m \in Layer :
              /\ dir'["layer"][m] = IF m = l THEN 0 ELSE dir["layer"][m]
              /\ dir'["import"][m] = dir["import"][m]
        BY <2>1, <2>5, RenamedEffect DEF TakesAway
      <3>2. \A v \in Volume : uses[v] # l  BY <2>5 DEF TakesAway, CheckUsage
      <3>3. QED  BY <2>1, <3>1, <3>2 DEF UseInv, UsedLayerStays, VolumesOK
    <2>6. CASE Undoes(t, l) \/ Destroys(t, l)
      <3>1. PICK k \in {"import", "remove"} : \E b : RemoveWalk(k, l, b) \/ RemoveRoot(k, l, b)
        BY <2>6, Zenon DEF Undoes, Destroys
      <3>2. QED  BY <1>s, <2>1, <3>1, RemovalEffect
    <2>7. CASE Quiet(t) \/ Fills(t) \/ Releases(t)
      BY <1>s, <2>1, <2>7, Zenon DEF Quiet, Fills, Releases
    <2>8. QED  BY <2>1, <2>2, <2>3, <2>4, <2>5, <2>6, <2>7 DEF WorkStep
  <1>2. ASSUME NEW t \in Thread, Arrive(t) PROVE UseInv'
    <2>1. CASE \E v \in Volume, l \in Layer : CreateVolume(t, v, l)
      BY <2>1 DEF CreateVolume, UseInv, UsedLayerStays, VolumesOK, disk
    <2>2. CASE \E v \in Volume : EraseVolume(t, v)
      BY <2>2 DEF EraseVolume, UseInv, UsedLayerStays, VolumesOK, disk
    <2>3. CASE UNCHANGED <<uses, pins, dir>>  BY <1>s, <2>3
    <2>4. QED  BY <1>2, <2>1, <2>2, <2>3, Zenon DEF Arrive, Import, Remove, Export, volumes, disk
  <1>3. CASE Clean
    <2>1. CASE RemoveJunk
      <3>1. cleaner.kind \in {"import", "remove"} /\ cleaner.layer \in Layer
        BY <2>1 DEF RemoveJunk, CleanerOK
      <3>2. QED  BY <1>s, <2>1, <3>1, RootEffect DEF RemoveJunk, RemoveWalk, volumes
    <2>2. CASE UNCHANGED <<uses, pins, dir>>  BY <1>s, <2>2
    <2>3. QED
      BY <1>3, <2>1, <2>2, Zenon
      DEF Clean, ReadDirectory, CheckActive, CleanPrivate, Pin, volumes, disk
  <1>4. CASE Restart
    <2>1. PICK lost \in SUBSET {v \in Volume : uses[v] # NoLayer} :
            LET left == [v \in Volume |-> IF v \in lost THEN NoLayer ELSE uses[v]]
                stale == {l \in Weak : dir["layer"][l] # 0 /\ \A v \in Volume : left[v] # l}
                gone == {l \in stale : CanRename("layer", "remove", l)} IN
            /\ uses' = left
            /\ pins' = [v \in Volume |-> IF v \in lost THEN 0 ELSE pins[v]]
            /\ priv' = priv \ stale
            /\ dir' = [k \in Kind |-> [l \in Layer |->
                        IF l \in gone /\ k # "import" THEN 0 ELSE dir[k][l]]]
      BY <1>4, Zenon DEF Restart
    <2>2. \A v \in Volume : v \notin lost => uses'[v] = uses[v] /\ pins'[v] = pins[v]
      BY <2>1
    <2>3. \A v \in Volume : v \in lost => uses'[v] = NoLayer
      BY <2>1
    <2>4. \A m \in Layer :
            /\ dir'["import"][m] = dir["import"][m]
            /\ \/ dir'["layer"][m] = dir["layer"][m]
               \/ dir'["layer"][m] = 0 /\ \A v \in Volume : uses'[v] # m
      BY <2>1
    <2>5. QED  BY <2>2, <2>3, <2>4 DEF UseInv, UsedLayerStays, VolumesOK
  <1>5. CASE UNCHANGED vars  BY <1>s, <1>5 DEF vars, disk, volumes
  <1>6. QED  BY <1>1, <1>2, <1>3, <1>4, <1>5 DEF Next

(* A layer that a volume uses stays what it was when the volume was made,  *)
(* for any number of threads, volumes and crashes: CheckUsage, under       *)
(* VolumesMutex, keeps merge and removal away, and publication finds the   *)
(* name free.                                                              *)
THEOREM UsedLayersStay == Spec => []UsedLayerStays
  <1>1. Init => TypeOK /\ UseInv
    BY TypesStart DEF Init, UseInv, UsedLayerStays, Kind
  <1>2. TypeOK /\ UseInv /\ [Next]_vars => (TypeOK /\ UseInv)'
    BY TypesKept, UseKept
  <1>3. UseInv => UsedLayerStays  BY DEF UseInv
  <1>4. QED  BY <1>1, <1>2, <1>3, PTL DEF Spec
=============================================================================
