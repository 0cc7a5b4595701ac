------------------------- MODULE StorageWholeProofs -------------------------
(***************************************************************************)
(* Proofs about Storage, continued: no directory has two names, and a      *)
(* layer that has its name is whole.                                       *)
(***************************************************************************)
EXTENDS StorageProofs

-----------------------------------------------------------------------------
(* The inductive invariant.                                                *)

(* No directory has two names. *)
Injective ==
  \A k1, k2 \in Kind, l1, l2 \in Layer :
    dir[k1][l1] # 0 /\ dir[k1][l1] = dir[k2][l2] => k1 = k2 /\ l1 = l2

Whole == \A l \in Layer : dir["layer"][l] # 0 => content[dir["layer"][l]] = "whole"

Held ==
  \A t \in Thread : Holds(th[t]) =>
    /\ th[t].ino \in active /\ dir["import"][th[t].layer] = th[t].ino
    /\ \A u \in Thread : Holds(th[u]) /\ th[u].layer = th[t].layer => u = t

(* What the directory holds while it is in work. *)
Filled ==
  \A t \in Thread :
    /\ th[t].pc = "extract" => content[th[t].ino] = "part"
    /\ th[t].pc = "publish" => content[th[t].ino] = "whole"
    /\ th[t].pc = "undo root" => content[th[t].ino] = "empty"

Left ==
  \A t \in Thread : Leaves(th[t]) /\ th[t].ino # 0 =>
    \A l \in Layer : dir["import"][l] # th[t].ino /\ dir["layer"][l] # th[t].ino

(* The cleaner removes only what was not in work when it asked. *)
CleanerAsked == cleaner.pc \in {"remove", "root"} => cleaner.unaware

WholeInv ==
  /\ Injective /\ CleanerAsked
  /\ ~ghost.raced => Whole /\ Held /\ Filled /\ Left

-----------------------------------------------------------------------------
(* A layer with its name is whole.                                       *)

LEMMA WokenSame ==
  ASSUME NEW r, NEW s, WokenFrom(r, s)
  PROVE  /\ Holds(r) <=> Holds(s)
         /\ Leaves(r) <=> Leaves(s)
         /\ r.ino = s.ino /\ r.layer = s.layer
         /\ \A pc \in {"extract", "publish", "undo root"} : r.pc = pc <=> s.pc = pc
  BY Zenon DEF WokenFrom, Holds, Leaves

(* What Held, Filled and Left say of a thread, its record being r, after   *)
(* the step.                                                               *)
HeldAfter(r) == r.ino \in active' /\ dir'["import"][r.layer] = r.ino
FilledAfter(r) ==
  /\ r.pc = "extract" => content'[r.ino] = "part"
  /\ r.pc = "publish" => content'[r.ino] = "whole"
  /\ r.pc = "undo root" => content'[r.ino] = "empty"
LeftAfter(r) == \A l \in Layer : dir'["import"][l] # r.ino /\ dir'["layer"][l] # r.ino

KeepAfter(r) ==
  /\ Holds(r) => HeldAfter(r)
  /\ FilledAfter(r)
  /\ Leaves(r) /\ r.ino # 0 => LeftAfter(r)

LEMMA KeepWoken ==
  ASSUME NEW r, NEW s, WokenFrom(r, s), KeepAfter(s)
  PROVE  KeepAfter(r)
  BY WokenSame, Zenon DEF KeepAfter, HeldAfter, FilledAfter, LeftAfter

(* The step of one thread. *)
LEMMA Combine ==
  ASSUME NEW t \in Thread, Held,
         \A u \in Thread \ {t} : WokenFrom(th'[u], th[u]) /\ KeepAfter(th[u]),
         KeepAfter(th'[t]),
         Holds(th'[t]) => \A u \in Thread \ {t} : Holds(th[u]) => th[u].layer # th'[t].layer
  PROVE  Held' /\ Filled' /\ Left'
  <1>1. \A u \in Thread : KeepAfter(th'[u])  BY KeepWoken
  <1>2. \A u \in Thread \ {t} : (Holds(th'[u]) <=> Holds(th[u])) /\ th'[u].layer = th[u].layer
    BY WokenSame, Zenon
  <1>3. \A u, w \in Thread :
          Holds(th'[u]) /\ Holds(th'[w]) /\ th'[w].layer = th'[u].layer => w = u
    <2> SUFFICES ASSUME NEW u \in Thread, NEW w \in Thread, w # u,
                        Holds(th'[u]), Holds(th'[w]), th'[w].layer = th'[u].layer
                 PROVE  FALSE
      OBVIOUS
    <2>1. CASE u = t  BY <1>2, <2>1
    <2>2. CASE w = t  BY <1>2, <2>2
    <2>3. CASE u # t /\ w # t  BY <1>2, <2>3 DEF Held
    <2>4. QED  BY <2>1, <2>2, <2>3
  <1>4. Held'  BY <1>1, <1>3, Zenon DEF Held, KeepAfter, HeldAfter, Holds
  <1>5. Filled'  BY <1>1, Zenon DEF Filled, KeepAfter, FilledAfter
  <1>6. Left'  BY <1>1, Zenon DEF Left, KeepAfter, LeftAfter, Leaves
  <1>7. QED  BY <1>4, <1>5, <1>6

(* A step of nobody's. *)
LEMMA CombineAll ==
  ASSUME Held, UNCHANGED th, \A u \in Thread : KeepAfter(th[u])
  PROVE  Held' /\ Filled' /\ Left'
  <1>1. \A u \in Thread : KeepAfter(th'[u])  OBVIOUS
  <1>2. Held'  BY <1>1, Zenon DEF Held, KeepAfter, HeldAfter, Holds
  <1>3. Filled'  BY <1>1, Zenon DEF Filled, KeepAfter, FilledAfter
  <1>4. Left'  BY <1>1, Zenon DEF Left, KeepAfter, LeftAfter, Leaves
  <1>5. QED  BY <1>2, <1>3, <1>4

(* A directory in work has no other name, and nobody else has it. *)
LEMMA Apart ==
  ASSUME TypeOK, Injective, Held, NEW t \in Thread, Holds(th[t])
  PROVE  /\ th[t].layer \in Layer /\ th[t].ino \in Ino /\ th[t].ino # 0
         /\ th[t].ino \in active /\ dir["import"][th[t].layer] = th[t].ino
         /\ \A m \in Layer : /\ dir["layer"][m] # th[t].ino /\ dir["remove"][m] # th[t].ino
                             /\ dir["import"][m] = th[t].ino => m = th[t].layer
         /\ \A u \in Thread \ {t} :
              Holds(th[u]) => th[u].layer # th[t].layer /\ th[u].ino # th[t].ino
  <1>1. NamesOK /\ ThreadsOK  BY TypeParts
  <1>2. \A u \in Thread : Holds(th[u]) => th[u].layer \in Layer  BY <1>1, Zenon DEF ThreadsOK, Holds
  <1>3. \A u \in Thread : Holds(th[u]) =>
          th[u].ino \in Ino /\ th[u].ino # 0 /\ dir["import"][th[u].layer] = th[u].ino
    BY <1>1, StorageAssumption, Zenon DEF Held, NamesOK
  <1>4. th[t].ino \in active /\ \A u \in Thread \ {t} : Holds(th[u]) => th[u].layer # th[t].layer
    BY DEF Held
  <1>5. \A m \in Layer : /\ dir["layer"][m] # th[t].ino /\ dir["remove"][m] # th[t].ino
                         /\ dir["import"][m] = th[t].ino => m = th[t].layer
    BY <1>2, <1>3 DEF Injective, Kind
  <1>6. \A u \in Thread \ {t} : Holds(th[u]) => th[u].ino # th[t].ino
    BY <1>2, <1>3, <1>4, <1>5
  <1>7. QED  BY <1>2, <1>3, <1>4, <1>5, <1>6

(* What is not touched stays as it is for a thread. *)
LEMMA Untouched ==
  ASSUME Held, Filled, Left, NEW u \in Thread,
         Holds(th[u]) => /\ th[u].ino \in active'
                         /\ dir'["import"][th[u].layer] = dir["import"][th[u].layer]
                         /\ content'[th[u].ino] = content[th[u].ino],
         Leaves(th[u]) /\ th[u].ino # 0 => LeftAfter(th[u])
  PROVE  KeepAfter(th[u])
  <1>1. Holds(th[u]) => HeldAfter(th[u])  BY DEF Held, HeldAfter
  <1>2. FilledAfter(th[u])
    <2>1. th[u].pc \in {"extract", "publish", "undo root"} => Holds(th[u])  BY Zenon DEF Holds
    <2>2. th[u].pc \in {"extract", "publish", "undo root"} =>
            content'[th[u].ino] = content[th[u].ino]
      BY <2>1, Zenon
    <2>3. QED  BY <2>2, Zenon DEF Filled, FilledAfter
  <1>3. QED  BY <1>1, <1>2 DEF KeepAfter

(* Names are only given to directories that have none, or given up. *)
LEMMA InjectiveKept == TypeOK /\ Injective /\ [Next]_vars => Injective'
  <1> SUFFICES ASSUME TypeOK, Injective, [Next]_vars PROVE Injective'
    OBVIOUS
  <1>0. dir \in Dirs /\ CleanerOK /\ {"layer", "import", "remove"} \subseteq Kind
    BY TypeParts DEF NamesOK, Kind
  <1> USE <1>0
  <1>1. ASSUME \A k \in Kind, m \in Layer : dir'[k][m] \in {0, dir[k][m]}
        PROVE  Injective'
    <2>1. \A k1, k2 \in Kind, l1, l2 \in Layer :
            dir'[k1][l1] # 0 /\ dir'[k1][l1] = dir'[k2][l2] =>
              dir[k1][l1] # 0 /\ dir[k1][l1] = dir[k2][l2]
      BY <1>1
    <2>2. QED  BY <2>1 DEF Injective
  <1>2. ASSUME NEW from \in Kind, NEW to \in Kind, from # to, NEW l \in Layer,
               dir' = Renamed(from, to, l)
        PROVE  Injective'
    <2>1. \A k \in Kind, m \in Layer : dir'[k][m] =
            IF m = l /\ k = to THEN dir[from][l] ELSE IF m = l /\ k = from THEN 0 ELSE dir[k][m]
      BY <1>2, RenamedEffect
    <2>2. QED  BY <2>1 DEF Injective
  <1>3. ASSUME NEW k \in Kind, NEW l \in Layer, NEW b, RemoveWalk(k, l, b) \/ RemoveRoot(k, l, b)
        PROVE  Injective'
    <2>1. CASE RemoveWalk(k, l, b)  BY <1>1, <2>1 DEF RemoveWalk
    <2>2. CASE RemoveRoot(k, l, b)  BY <1>1, <2>2, RootEffect
    <2>3. QED  BY <1>3, <2>1, <2>2
  <1>4. ASSUME NEW t \in Thread, Work(t) PROVE Injective'
    <2> DEFINE l == th[t].layer
    <2>1. l \in Layer /\ WorkStep(t, l)  BY <1>4, WorkIsStep
    <2> HIDE DEF l
    <2>2. CASE Merges(t, l) \/ Publishes(t, l) \/ TakesAway(t, l)
      BY <1>2, <2>1, <2>2 DEF Merges, Publishes, TakesAway
    <2>3. CASE Makes(t, l)
      <3>1. \A k \in Kind, m \in Layer : dir[k][m] # NewIno
        BY <2>3, NewInoIsNew DEF Makes, MayMake
      <3>2. \A k \in Kind, m \in Layer :
              dir'[k][m] = IF k = "import" /\ m = l THEN NewIno ELSE dir[k][m]
        BY <2>1, <2>3 DEF Makes, Dirs
      <3>3. QED  BY <3>1, <3>2 DEF Injective
    <2>4. CASE Undoes(t, l) \/ Destroys(t, l)
      <3>1. PICK k \in {"import", "remove"} : \E b : RemoveWalk(k, l, b) \/ RemoveRoot(k, l, b)
        BY <2>4, Zenon DEF Undoes, Destroys
      <3>2. QED  BY <1>3, <2>1, <3>1
    <2>5. CASE Quiet(t) \/ Fills(t) \/ Releases(t)
      BY <1>1, <2>5, Zenon DEF Quiet, Fills, Releases
    <2>6. QED  BY <2>1, <2>2, <2>3, <2>4, <2>5 DEF WorkStep
  <1>5. CASE Clean
    <2>1. CASE RemoveJunk
      <3>1. cleaner.kind \in {"import", "remove"} /\ cleaner.layer \in Layer
        BY <2>1 DEF RemoveJunk, CleanerOK
      <3>2. QED  BY <1>3, <2>1, <3>1 DEF RemoveJunk
    <2>2. CASE UNCHANGED dir  BY <1>1, <2>2
    <2>3. QED  BY <1>5, <2>1, <2>2, Zenon
          DEF Clean, ReadDirectory, CheckActive, CleanPrivate, Pin, disk
  <1>6. CASE Restart
    <2>1. \A k \in Kind, m \in Layer : dir'[k][m] \in {0, dir[k][m]}  BY <1>6 DEF Restart
    <2>2. QED  BY <1>1, <2>1
  <1>7. CASE UNCHANGED dir  BY <1>1, <1>7
  <1>8. QED
    BY <1>4, <1>5, <1>6, <1>7, Zenon DEF Next, Arrive, Import, Remove, Export, EraseVolume, CreateVolume,
                                  vars, disk

(* The part of WholeInv that holds until the cleaner has raced. *)
WorkInv == Whole /\ Held /\ Filled /\ Left

(* What the steps below rest on. *)
Base ==
  /\ dir \in Dirs /\ content \in [Ino -> {"empty", "part", "whole"}] /\ active \subseteq Ino
  /\ {"layer", "import", "remove"} \subseteq Kind
  /\ \A n \in Layer, k \in Kind : dir[k][n] # 0 => dir[k][n] \in Ino

Holders ==
  \A u \in Thread : Holds(th[u]) =>
    /\ th[u].layer \in Layer /\ th[u].ino \in Ino /\ th[u].ino # 0
    /\ th[u].ino \in active /\ dir["import"][th[u].layer] = th[u].ino
    /\ \A n \in Layer : /\ dir["layer"][n] # th[u].ino /\ dir["remove"][n] # th[u].ino
                        /\ dir["import"][n] = th[u].ino => n = th[u].layer
    /\ \A w \in Thread \ {u} :
         Holds(th[w]) => th[w].layer # th[u].layer /\ th[w].ino # th[u].ino

LEMMA CombineStops ==
  ASSUME NEW t \in Thread, Held, Stops(t), Whole', \A u \in Thread \ {t} : KeepAfter(th[u])
  PROVE  WorkInv'
  <1>1. th'[t] = Idle /\ \A u \in Thread \ {t} : WokenFrom(th'[u], th[u])  BY DEF Stops
  <1>2. ~Holds(th'[t]) /\ KeepAfter(th'[t])
    BY <1>1, IdleType, Zenon DEF Holds, Leaves, KeepAfter, FilledAfter
  <1>3. QED  BY <1>1, <1>2, Combine DEF WorkInv

LEMMA CombineGoes ==
  ASSUME NEW t \in Thread, Held, NEW pc, NEW ino, Goes(t, pc, ino), Whole',
         \A u \in Thread \ {t} : KeepAfter(th[u]), KeepAfter(th'[t]),
         Holds(th'[t]) => \A u \in Thread \ {t} : Holds(th[u]) => th[u].layer # th[t].layer
  PROVE  WorkInv'
  <1>1. th'[t].layer = th[t].layer /\ \A u \in Thread \ {t} : WokenFrom(th'[u], th[u])
    BY DEF Goes
  <1>2. QED  BY <1>1, Combine DEF WorkInv

LEMMA OtherHolder ==
  ASSUME Holders, NEW t \in Thread, Holds(th[t])
  PROVE  \A u \in Thread \ {t} : Holds(th[u]) =>
           /\ th[u].ino # th[t].ino /\ th[u].layer # th[t].layer
           /\ th[u].ino \in active /\ th[u].ino \in Ino /\ th[u].layer \in Layer
  BY Zenon DEF Holders

LEMMA QuietKeeps ==
  ASSUME Base, Holders, Injective, Whole, Held, Filled, Left,
         NEW t \in Thread, NEW l \in Layer, l = th[t].layer, Quiet(t)
  PROVE  WorkInv'
  <1> DEFINE i == th[t].ino
  <1>1. UNCHANGED <<dir, content, active>>  BY Zenon DEF Quiet
  <1>2. \A u \in Thread : KeepAfter(th[u])
    BY <1>1, Untouched, Zenon DEF LeftAfter, Holders, Left
  <1>3. Whole'  BY <1>1 DEF Whole
  <1>4. CASE Stops(t)  BY CombineStops, <1>2, <1>3, <1>4
  <1>5. ASSUME NEW pc \in Place \ {"extract", "publish", "undo root"}, Goes(t, pc, i),
               Holds(th'[t]) => Holds(th[t]), Leaves(th'[t]) => Leaves(th[t])
        PROVE  WorkInv'
    <2>1. th'[t].pc = pc /\ th'[t].ino = i /\ th'[t].layer = l  BY <1>5, Zenon DEF Goes
    <2>2. KeepAfter(th'[t])
      <3>1. Holds(th'[t]) => HeldAfter(th'[t])  BY <1>2, <1>5, <2>1, Zenon DEF KeepAfter, HeldAfter
      <3>2. FilledAfter(th'[t])  BY <1>5, <2>1, Zenon DEF FilledAfter
      <3>3. Leaves(th'[t]) /\ th'[t].ino # 0 => LeftAfter(th'[t])
        BY <1>2, <1>5, <2>1, Zenon DEF KeepAfter, LeftAfter
      <3>4. QED  BY <3>1, <3>2, <3>3, Zenon DEF KeepAfter
    <2>3. QED  BY CombineGoes, <1>2, <1>3, <1>5, <2>2, Zenon DEF Holders
  <1>6. QED  BY <1>4, <1>5, Zenon DEF Quiet

LEMMA MergesKeeps ==
  ASSUME Base, Holders, Injective, Whole, Held, Filled, Left,
         NEW t \in Thread, NEW l \in Layer, l = th[t].layer, Merges(t, l)
  PROVE  WorkInv'
  <1> DEFINE d == dir["layer"][l]
  <1>1. \A n \in Layer :
          /\ dir'["layer"][n] = IF n = l THEN 0 ELSE dir["layer"][n]
          /\ dir'["import"][n] = IF n = l THEN d ELSE dir["import"][n]
    <2>1. dir' = Renamed("layer", "import", l)  BY Zenon DEF Merges
    <2>2. QED  BY <2>1, RenamedEffect DEF Base
  <1>2. /\ d # 0 /\ active' = active \cup {d} /\ content' = content
        /\ Goes(t, "load", d) /\ dir["import"][l] \notin active
    BY DEF Merges, CanRename, Importing
  <1>3. \A u \in Thread : Holds(th[u]) => th[u].layer # l  BY <1>2 DEF Holders
  <1>4. Whole'  BY <1>1, <1>2 DEF Whole
  <1>5. \A u \in Thread \ {t} : KeepAfter(th[u])
    <2> SUFFICES ASSUME NEW u \in Thread \ {t} PROVE KeepAfter(th[u])  OBVIOUS
    <2>1. Leaves(th[u]) /\ th[u].ino # 0 => LeftAfter(th[u])
      BY <1>1 DEF LeftAfter, Left
    <2>2. Holds(th[u]) => /\ th[u].ino \in active'
                          /\ dir'["import"][th[u].layer] = dir["import"][th[u].layer]
                          /\ content'[th[u].ino] = content[th[u].ino]
      BY <1>1, <1>2, <1>3 DEF Holders
    <2>3. QED  BY <2>1, <2>2, Untouched, Zenon
  <1>6. /\ th'[t].pc = "load" /\ th'[t].ino = d /\ th'[t].layer = l /\ th'[t].op = "import"
    BY <1>2, Zenon DEF Goes, Merges
  <1>7. KeepAfter(th'[t])
    BY <1>1, <1>2, <1>6, Zenon DEF KeepAfter, HeldAfter, FilledAfter, Leaves
  <1>8. QED  BY CombineGoes, <1>2, <1>3, <1>4, <1>5, <1>7

LEMMA MakesKeeps ==
  ASSUME Base, Holders, Injective, Whole, Held, Filled, Left,
         NEW t \in Thread, NEW l \in Layer, l = th[t].layer, Makes(t, l)
  PROVE  WorkInv'
  <1> DEFINE d == NewIno
  <1>1. /\ d \in Ino /\ (\A k \in Kind, n \in Layer : dir[k][n] # d)
        /\ \A u \in Thread : th[u].ino # d
    BY NewInoIsNew DEF Makes, MayMake
  <1>2. \A n \in Layer :
          /\ dir'["layer"][n] = dir["layer"][n]
          /\ dir'["import"][n] = IF n = l THEN d ELSE dir["import"][n]
    BY DEF Makes, Dirs, Base
  <1>3. /\ active' = active \cup {d} /\ Goes(t, "load", d)
        /\ dir["import"][l] \notin active
        /\ \A j \in Ino : j # d => content'[j] = content[j]
    BY DEF Makes, MayMake, Importing
  <1> HIDE DEF d
  <1>4. \A u \in Thread : Holds(th[u]) => th[u].layer # l  BY <1>3 DEF Holders
  <1>5. Whole'  BY <1>1, <1>2, <1>3 DEF Whole, Base
  <1>6. \A u \in Thread \ {t} : KeepAfter(th[u])
    <2> SUFFICES ASSUME NEW u \in Thread \ {t} PROVE KeepAfter(th[u])  OBVIOUS
    <2>1. Leaves(th[u]) /\ th[u].ino # 0 => LeftAfter(th[u])
      BY <1>1, <1>2 DEF LeftAfter, Left
    <2>2. Holds(th[u]) => /\ th[u].ino \in active'
                          /\ dir'["import"][th[u].layer] = dir["import"][th[u].layer]
                          /\ content'[th[u].ino] = content[th[u].ino]
      BY <1>1, <1>2, <1>3, <1>4, Zenon DEF Holders
    <2>3. QED  BY <2>1, <2>2, Untouched, Zenon
  <1>7. /\ th'[t].pc = "load" /\ th'[t].ino = d /\ th'[t].layer = l /\ th'[t].op = "import"
    BY <1>3 DEF Goes, Makes
  <1>8. KeepAfter(th'[t])
    BY <1>2, <1>3, <1>7 DEF KeepAfter, HeldAfter, FilledAfter, Leaves
  <1>9. QED  BY CombineGoes, <1>3, <1>4, <1>5, <1>6, <1>8, Zenon

LEMMA FillsKeeps ==
  ASSUME Base, Holders, Injective, Whole, Held, Filled, Left,
         NEW t \in Thread, NEW l \in Layer, l = th[t].layer, Fills(t)
  PROVE  WorkInv'
  <1> DEFINE i == th[t].ino
  <1>1. Holds(th[t])  BY Zenon DEF Fills, Holds
  <1>2. PICK pc \in {"extract", "publish"} :
          /\ Goes(t, pc, i)
          /\ content'[i] = IF pc = "extract" THEN "part" ELSE "whole"
          /\ \A j \in Ino : j # i => content'[j] = content[j]
    <2>1. i \in Ino  BY <1>1 DEF Holders
    <2>2. CASE /\ th[t].pc = "work" /\ Goes(t, "extract", i)
               /\ content' = [content EXCEPT ![i] = "part"]
      BY <2>1, <2>2, Zenon DEF Base
    <2>3. CASE /\ th[t].pc = "extract" /\ Goes(t, "publish", i)
               /\ content' = [content EXCEPT ![i] = IF @ = "part" THEN "whole" ELSE "part"]
      BY <2>1, <2>3, Zenon DEF Filled, Base
    <2>4. QED  BY <2>2, <2>3 DEF Fills
  <1>3. UNCHANGED <<dir, active>>  BY DEF Fills
  <1>4. Whole'  BY <1>1, <1>2, <1>3 DEF Whole, Holders, Base
  <1>5. \A u \in Thread \ {t} : KeepAfter(th[u])
    <2> SUFFICES ASSUME NEW u \in Thread \ {t} PROVE KeepAfter(th[u])  OBVIOUS
    <2>1. Leaves(th[u]) /\ th[u].ino # 0 => LeftAfter(th[u])  BY <1>3 DEF LeftAfter, Left
    <2>2. Holds(th[u]) => /\ th[u].ino \in active'
                          /\ dir'["import"][th[u].layer] = dir["import"][th[u].layer]
                          /\ content'[th[u].ino] = content[th[u].ino]
      BY <1>1, <1>2, <1>3, OtherHolder, Zenon
    <2>3. QED  BY <2>1, <2>2, Untouched, Zenon
  <1>6. th'[t].pc = pc /\ th'[t].ino = i /\ th'[t].layer = l  BY <1>2 DEF Goes
  <1>7. KeepAfter(th'[t])
    <2>1. HeldAfter(th'[t])  BY <1>1, <1>3, <1>6 DEF HeldAfter, Holders
    <2>2. FilledAfter(th'[t])  BY <1>2, <1>6, Zenon DEF FilledAfter
    <2>3. ~Leaves(th'[t])  BY <1>2, <1>6, Zenon DEF Leaves
    <2>4. QED  BY <2>1, <2>2, <2>3 DEF KeepAfter
  <1>8. QED  BY CombineGoes, OtherHolder, <1>1, <1>2, <1>4, <1>5, <1>7

LEMMA PublishesKeeps ==
  ASSUME Base, Holders, Injective, Whole, Held, Filled, Left,
         NEW t \in Thread, NEW l \in Layer, l = th[t].layer, Publishes(t, l)
  PROVE  WorkInv'
  <1> DEFINE i == th[t].ino
  <1>1. Holds(th[t]) /\ content[i] = "whole"  BY Zenon DEF Publishes, Holds, Filled
  <1>2. \A n \in Layer :
          /\ dir'["import"][n] = IF n = l THEN 0 ELSE dir["import"][n]
          /\ dir'["layer"][n] = IF n = l THEN i ELSE dir["layer"][n]
    <2>1. dir' = Renamed("import", "layer", l)  BY Zenon DEF Publishes
    <2>2. dir["import"][l] = i  BY <1>1, Zenon DEF Holders
    <2>3. QED  BY <2>1, <2>2, RenamedEffect DEF Base
  <1>3. active' = active \ {i} /\ content' = content /\ Goes(t, "published", i)
    BY Zenon DEF Publishes
  <1>4. Whole'  BY <1>1, <1>2, <1>3 DEF Whole
  <1>5. \A u \in Thread \ {t} : KeepAfter(th[u])
    <2> SUFFICES ASSUME NEW u \in Thread \ {t} PROVE KeepAfter(th[u])  OBVIOUS
    <2>1. Leaves(th[u]) /\ th[u].ino # 0 => LeftAfter(th[u])
      <3>1. dir["import"][l] = i  BY <1>1, Zenon DEF Holders
      <3>2. QED  BY <1>2, <3>1 DEF LeftAfter, Left
    <2>2. Holds(th[u]) => /\ th[u].ino \in active'
                          /\ dir'["import"][th[u].layer] = dir["import"][th[u].layer]
                          /\ content'[th[u].ino] = content[th[u].ino]
      BY <1>1, <1>2, <1>3, OtherHolder
    <2>3. QED  BY <2>1, <2>2, Untouched, Zenon
  <1>6. th'[t].pc = "published"  BY <1>3, Zenon DEF Goes
  <1>7. ~Holds(th'[t]) /\ KeepAfter(th'[t])
    BY <1>6 DEF KeepAfter, FilledAfter, Holds, Leaves
  <1>8. QED  BY CombineGoes, <1>3, <1>4, <1>5, <1>7

LEMMA UndoesKeeps ==
  ASSUME Base, Holders, Injective, Whole, Held, Filled, Left,
         NEW t \in Thread, NEW l \in Layer, l = th[t].layer, Undoes(t, l)
  PROVE  WorkInv'
  <1> DEFINE i == th[t].ino
  <1>1. Holds(th[t]) /\ UNCHANGED active  BY Zenon DEF Undoes, Holds
  <1>2. dir["import"][l] = i /\ i # 0 /\ i \in Ino /\ i \in active  BY <1>1, Zenon DEF Holders
  <1>3. CASE th[t].pc = "undo"
    <2>0. RemoveWalk("import", l, dir["import"][l] # i) /\ Goes(t, "undo root", i)
      BY <1>3, Zenon DEF Undoes
    <2>1. /\ \A j \in Ino : content'[j] = IF j = i THEN "empty" ELSE content[j]
          /\ dir' = dir /\ Goes(t, "undo root", i)
      BY <1>2, <2>0, Zenon DEF RemoveWalk
    <2>2. Whole'  BY <1>1, <2>1, Zenon DEF Whole, Holders, Base
    <2>3. \A u \in Thread \ {t} : KeepAfter(th[u])
      <3> SUFFICES ASSUME NEW u \in Thread \ {t} PROVE KeepAfter(th[u])  OBVIOUS
      <3>1. Leaves(th[u]) /\ th[u].ino # 0 => LeftAfter(th[u])  BY <2>1, Zenon DEF LeftAfter, Left
      <3>2. Holds(th[u]) => /\ th[u].ino \in active'
                            /\ dir'["import"][th[u].layer] = dir["import"][th[u].layer]
                            /\ content'[th[u].ino] = content[th[u].ino]
        BY <1>1, <2>1, OtherHolder, Zenon
      <3>3. QED  BY <3>1, <3>2, Untouched, Zenon
    <2>4. th'[t].pc = "undo root" /\ th'[t].ino = i /\ th'[t].layer = l  BY <2>1, Zenon DEF Goes
    <2>5. KeepAfter(th'[t])
      <3>1. HeldAfter(th'[t])  BY <1>1, <1>2, <2>1, <2>4, Zenon DEF HeldAfter
      <3>2. FilledAfter(th'[t])  BY <1>2, <2>1, <2>4, Zenon DEF FilledAfter
      <3>3. ~Leaves(th'[t])  BY <2>4, Zenon DEF Leaves
      <3>4. QED  BY <3>1, <3>2, <3>3 DEF KeepAfter
    <2>6. \A u \in Thread \ {t} : Holds(th[u]) => th[u].layer # th[t].layer
      BY <1>1, OtherHolder, Zenon
    <2>7. QED  BY CombineGoes, <2>1, <2>2, <2>3, <2>5, <2>6, Zenon
  <1>4. CASE th[t].pc = "undo root"
    <2>1. content[i] = "empty"  BY <1>4, Zenon DEF Filled
    <2>2. dir' = [dir EXCEPT !["import"][l] = 0] /\ content' = content /\ Goes(t, "undo load", i)
      BY <1>2, <1>4, <2>1, Zenon DEF Undoes, RemoveRoot
    <2>3. \A n \in Layer :
            /\ dir'["layer"][n] = dir["layer"][n]
            /\ dir'["import"][n] = IF n = l THEN 0 ELSE dir["import"][n]
      BY <2>2, Zenon DEF Dirs, Base
    <2>4. Whole'  BY <2>2, <2>3, Zenon DEF Whole
    <2>5. \A u \in Thread \ {t} : KeepAfter(th[u])
      <3> SUFFICES ASSUME NEW u \in Thread \ {t} PROVE KeepAfter(th[u])  OBVIOUS
      <3>1. Leaves(th[u]) /\ th[u].ino # 0 => LeftAfter(th[u])  BY <2>3 DEF LeftAfter, Left
      <3>2. Holds(th[u]) => /\ th[u].ino \in active'
                            /\ dir'["import"][th[u].layer] = dir["import"][th[u].layer]
                            /\ content'[th[u].ino] = content[th[u].ino]
        BY <1>1, <2>2, <2>3, OtherHolder, Zenon
      <3>3. QED  BY <3>1, <3>2, Untouched, Zenon
    <2>6. th'[t].pc = "undo load" /\ th'[t].ino = i  BY <2>2, Zenon DEF Goes
    <2>7. ~Holds(th'[t])  BY <2>6, Zenon DEF Holds
    <2>8. LeftAfter(th'[t])
      <3>1. \A n \in Layer : dir["layer"][n] # i /\ (dir["import"][n] = i => n = l)
        BY <1>1 DEF Holders
      <3>2. \A n \in Layer : dir'["import"][n] # i /\ dir'["layer"][n] # i
        BY <1>2, <2>3, <3>1
      <3>3. QED  BY <2>6, <3>2, Zenon DEF LeftAfter
    <2>9. KeepAfter(th'[t])  BY <2>6, <2>7, <2>8, Zenon DEF KeepAfter, FilledAfter
    <2>10. QED  BY CombineGoes, <2>2, <2>4, <2>5, <2>7, <2>9, Zenon
  <1>5. QED  BY <1>3, <1>4, Zenon DEF Undoes

LEMMA ReleasesKeeps ==
  ASSUME Base, Holders, Injective, Whole, Held, Filled, Left,
         NEW t \in Thread, NEW l \in Layer, l = th[t].layer, Releases(t)
  PROVE  WorkInv'
  <1> DEFINE i == th[t].ino
  <1>1. Leaves(th[t]) /\ Stops(t) /\ active' = active \ {i} /\ UNCHANGED <<dir, content>>
    BY Zenon DEF Releases, Leaves
  <1>2. Whole'  BY <1>1 DEF Whole
  <1>3. \A u \in Thread \ {t} : KeepAfter(th[u])
    <2> SUFFICES ASSUME NEW u \in Thread \ {t} PROVE KeepAfter(th[u])  OBVIOUS
    <2>1. Leaves(th[u]) /\ th[u].ino # 0 => LeftAfter(th[u])  BY <1>1 DEF LeftAfter, Left
    <2>2. Holds(th[u]) => th[u].ino # i  BY <1>1 DEF Holders, Left
    <2>3. Holds(th[u]) => /\ th[u].ino \in active'
                          /\ dir'["import"][th[u].layer] = dir["import"][th[u].layer]
                          /\ content'[th[u].ino] = content[th[u].ino]
      BY <1>1, <2>2 DEF Holders
    <2>4. QED  BY <2>1, <2>3, Untouched, Zenon
  <1>4. QED  BY CombineStops, <1>1, <1>2, <1>3

LEMMA DestroysKeeps ==
  ASSUME Base, Holders, Injective, Whole, Held, Filled, Left,
         NEW t \in Thread, NEW l \in Layer, l = th[t].layer, Destroys(t, l)
  PROVE  WorkInv'
  <1> DEFINE i == th[t].ino
  <1>1. UNCHANGED active  BY Zenon DEF Destroys
  <1>2. /\ \A n \in Layer : /\ dir'["layer"][n] = dir["layer"][n]
                           /\ dir'["import"][n] = dir["import"][n]
        /\ \A j \in Ino : j # dir["remove"][l] => content'[j] = content[j]
    <2>1. PICK b : \/ RemoveWalk("remove", l, b)
                   \/ RemoveRoot("remove", l, b) /\ UNCHANGED content
      BY Zenon DEF Destroys
    <2>2. CASE RemoveWalk("remove", l, b)  BY <2>2 DEF RemoveWalk
    <2>3. CASE RemoveRoot("remove", l, b) /\ UNCHANGED content
      <3>1. \A k \in Kind, n \in Layer :
              dir'[k][n] = dir[k][n] \/ (dir'[k][n] = 0 /\ k = "remove" /\ n = l)
        BY <2>3, RootEffect DEF Base
      <3>2. QED  BY <2>3, <3>1 DEF Base
    <2>4. QED  BY <2>1, <2>2, <2>3
  <1>3. \A n \in Layer : dir["layer"][n] # 0 => dir["layer"][n] # dir["remove"][l]
    BY DEF Injective, Base
  <1>4. Whole'  BY <1>2, <1>3 DEF Whole, Base
  <1>5. \A u \in Thread : KeepAfter(th[u])
    <2> SUFFICES ASSUME NEW u \in Thread PROVE KeepAfter(th[u])  OBVIOUS
    <2>1. Leaves(th[u]) /\ th[u].ino # 0 => LeftAfter(th[u])  BY <1>2 DEF LeftAfter, Left
    <2>2. Holds(th[u]) => /\ th[u].ino \in active'
                          /\ dir'["import"][th[u].layer] = dir["import"][th[u].layer]
                          /\ content'[th[u].ino] = content[th[u].ino]
      BY <1>1, <1>2, Zenon DEF Holders
    <2>3. QED  BY <2>1, <2>2, Untouched, Zenon
  <1>6. CASE Stops(t)  BY CombineStops, <1>4, <1>5, <1>6
  <1>7. ASSUME NEW pc \in {"clear root", "rm root", "rm load"}, Goes(t, pc, i),
               pc # "clear root" => Leaves(th[t])
        PROVE  WorkInv'
    <2>1. th'[t].pc = pc /\ th'[t].ino = i  BY <1>7, Zenon DEF Goes
    <2>2. ~Holds(th'[t]) /\ (Leaves(th'[t]) => Leaves(th[t]))
      BY <1>7, <2>1, Zenon DEF Holds, Leaves
    <2>3. FilledAfter(th'[t])  BY <1>7, <2>1, Zenon DEF FilledAfter
    <2>4. KeepAfter(th'[t])  BY <1>5, <2>1, <2>2, <2>3, Zenon DEF KeepAfter, LeftAfter
    <2>5. QED  BY CombineGoes, <1>4, <1>5, <1>7, <2>2, <2>4, Zenon
  <1>8. QED  BY <1>6, <1>7, Zenon DEF Destroys, Leaves

LEMMA TakesAwayKeeps ==
  ASSUME Base, Holders, Injective, Whole, Held, Filled, Left,
         NEW t \in Thread, NEW l \in Layer, l = th[t].layer, TakesAway(t, l)
  PROVE  WorkInv'
  <1> DEFINE d == dir["layer"][l]
  <1>1. \A n \in Layer :
          /\ dir'["layer"][n] = IF n = l THEN 0 ELSE dir["layer"][n]
          /\ dir'["import"][n] = dir["import"][n]
    <2>1. dir' = Renamed("layer", "remove", l)  BY Zenon DEF TakesAway
    <2>2. QED  BY <2>1, RenamedEffect DEF Base
  <1>2. PICK j \in {0, d} : Goes(t, "load", j) /\ active' = active \cup ({j} \ {0})
    BY DEF TakesAway
  <1>3. content' = content /\ th[t].op = "remove"  BY DEF TakesAway
  <1>4. Whole'  BY <1>1, <1>3 DEF Whole
  <1>5. \A u \in Thread \ {t} : KeepAfter(th[u])
    <2> SUFFICES ASSUME NEW u \in Thread \ {t} PROVE KeepAfter(th[u])  OBVIOUS
    <2>1. Leaves(th[u]) /\ th[u].ino # 0 => LeftAfter(th[u])  BY <1>1 DEF LeftAfter, Left
    <2>2. Holds(th[u]) => /\ th[u].ino \in active'
                          /\ dir'["import"][th[u].layer] = dir["import"][th[u].layer]
                          /\ content'[th[u].ino] = content[th[u].ino]
      BY <1>1, <1>2, <1>3, Zenon DEF Holders
    <2>3. QED  BY <2>1, <2>2, Untouched, Zenon
  <1>6. th'[t].pc = "load" /\ th'[t].ino = j /\ th'[t].op = "remove"  BY <1>2, <1>3, Zenon DEF Goes
  <1>7. ~Holds(th'[t]) /\ FilledAfter(th'[t])  BY <1>6 DEF Holds, FilledAfter
  <1>8. th'[t].ino # 0 => LeftAfter(th'[t])
    <2>1. "layer" \in Kind /\ "import" \in Kind  BY DEF Base
    <2>2. d # 0 => \A n \in Layer : d # dir["import"][n]  BY <2>1 DEF Injective
    <2>3. d # 0 => \A n \in Layer : d = dir["layer"][n] => l = n  BY <2>1 DEF Injective
    <2>4. QED  BY <1>1, <1>2, <1>6, <2>2, <2>3 DEF LeftAfter
  <1>9. KeepAfter(th'[t])  BY <1>7, <1>8, Zenon DEF KeepAfter
  <1>10. QED  BY CombineGoes, <1>2, <1>4, <1>5, <1>7, <1>9, Zenon

(* Every step of a thread in work keeps it. *)
LEMMA WorkKeepsWhole ==
  ASSUME TypeOK, Injective, WorkInv, NEW t \in Thread, Work(t)
  PROVE  WorkInv'
  <1> DEFINE l == th[t].layer
  <1>1. Base  BY TypeParts DEF NamesOK, Kind, Base, Dirs
  <1>2. l \in Layer /\ WorkStep(t, l)  BY WorkIsStep
  <1>3. Whole /\ Held /\ Filled /\ Left  BY DEF WorkInv
  <1>4. Holders  BY <1>3, Apart DEF Holders
  <1> HIDE DEF l
  <1>5. QED
    BY <1>1, <1>2, <1>3, <1>4, QuietKeeps, MergesKeeps, MakesKeeps, FillsKeeps,
       PublishesKeeps, UndoesKeeps, ReleasesKeeps, DestroysKeeps, TakesAwayKeeps, Zenon
       DEF WorkStep, l

(* Raced is for ever, and a thread in work never sets it. *)
LEMMA RacedStays == TypeOK /\ [Next]_vars => (~ghost'.raced => ~ghost.raced)
  <1> SUFFICES ASSUME TypeOK, [Next]_vars, ghost.raced PROVE ghost'.raced
    OBVIOUS
  <1>1. GhostOK  BY TypeParts
  <1>2. ASSUME NEW k, NEW l, NEW b, Touches(k, l, b) PROVE ghost'.raced
    BY <1>1, <1>2 DEF Touches, GhostOK
  <1>3. ASSUME ghost' = [ghost EXCEPT !.leaked = 0] \/ ghost' = [ghost EXCEPT !.leaked = @ + 1]
        PROVE  ghost'.raced
    BY <1>1, <1>3 DEF GhostOK
  <1>4. ASSUME NEW t \in Thread, Work(t) PROVE ghost'.raced
    <2>1. \/ UNCHANGED ghost
          \/ \E k, l, b : Touches(k, l, b)
          \/ ghost' = [ghost EXCEPT !.leaked = @ + 1]
      BY <1>4, Zenon
      DEF Work, IncPlaceLoad, EnterImport, Extract, Extracted, Publish, Published, Undo, Find, Clear,
          EnterRemove, Removing, Exported, RemoveWalk, RemoveRoot
    <2>2. QED  BY <1>2, <1>3, <2>1
  <1>5. CASE Clean
    <2>1. UNCHANGED ghost \/ \E k, l, b : Touches(k, l, b)
      BY <1>5, Zenon DEF Clean, ReadDirectory, CheckActive, RemoveJunk, CleanPrivate, Pin,
                         RemoveWalk, RemoveRoot
    <2>2. QED  BY <1>2, <2>1
  <1>6. CASE Restart  BY <1>3, <1>6 DEF Restart
  <1>7. CASE UNCHANGED ghost  BY <1>7
  <1>8. QED
    BY <1>4, <1>5, <1>6, <1>7, Zenon DEF Next, Arrive, Import, Remove, Export, EraseVolume, CreateVolume,
                                  vars

(* The cleaner, as long as it does not race. *)
LEMMA CleanerKeepsWhole ==
  ASSUME TypeOK, Injective, CleanerAsked, WorkInv, RemoveJunk, ~ghost'.raced
  PROVE  WorkInv'
  <1> DEFINE k == cleaner.kind
             l == cleaner.layer
             d == dir[k][l]
  <1>0. /\ dir \in Dirs /\ content \in [Ino -> {"empty", "part", "whole"}]
        /\ {"layer", "import", "remove"} \subseteq Kind /\ GhostOK
    BY TypeParts DEF NamesOK, Kind
  <1>1. k \in {"import", "remove"} /\ l \in Layer /\ cleaner.unaware
    BY TypeParts DEF RemoveJunk, CleanerOK, CleanerAsked
  <1>2. UNCHANGED <<th, active>>  BY DEF RemoveJunk, memory
  <1>3. \/ RemoveWalk(k, l, cleaner.unaware)
        \/ RemoveRoot(k, l, cleaner.unaware) /\ UNCHANGED content
    BY DEF RemoveJunk
  <1>4. \/ d \notin active \/ k # "import"
        \/ UNCHANGED <<dir, content>>
    <2>1. ASSUME Touches(k, l, cleaner.unaware) PROVE d \notin active \/ k # "import"
      BY <1>0, <1>1, <2>1, Zenon DEF Touches, GhostOK
    <2>2. QED  BY <1>3, <2>1 DEF RemoveWalk, RemoveRoot
  <1>5. /\ \A n \in Layer : /\ dir'["layer"][n] = dir["layer"][n]
                            /\ dir'["import"][n] \in {0, dir["import"][n]}
                            /\ dir'["import"][n] # dir["import"][n] => k = "import" /\ n = l
        /\ \A j \in Ino : j # d => content'[j] = content[j]
    <2>1. CASE RemoveWalk(k, l, cleaner.unaware)  BY <2>1 DEF RemoveWalk
    <2>2. CASE RemoveRoot(k, l, cleaner.unaware) /\ UNCHANGED content
      <3>0. PICK b : RemoveRoot(k, l, b)  BY <2>2, Zenon
      <3>1. k \in Kind  BY <1>0, <1>1
      <3> HIDE DEF k, l, d
      <3>2. \A j \in Kind, n \in Layer :
              dir'[j][n] = dir[j][n] \/ (dir'[j][n] = 0 /\ j = k /\ n = l)
        BY <1>0, <1>1, <3>0, <3>1, RootEffect
      <3>3. QED  BY <1>0, <1>1, <2>2, <3>2
    <2>3. QED  BY <1>3, <2>1, <2>2
  <1>6. Whole /\ Held /\ Filled /\ Left  BY DEF WorkInv
  <1>7. Whole'
    <2>1. \A n \in Layer : dir["layer"][n] # 0 => dir["layer"][n] \in Ino /\ dir["layer"][n] # d
      BY <1>0, <1>1 DEF Injective, Dirs
    <2>2. QED  BY <1>5, <1>6, <2>1 DEF Whole
  <1>8. ASSUME NEW u \in Thread PROVE KeepAfter(th[u])
    <2>1. Leaves(th[u]) /\ th[u].ino # 0 => LeftAfter(th[u])
      BY <1>5, <1>6 DEF Left, LeftAfter
    <2>2. ASSUME Holds(th[u])
          PROVE  /\ th[u].ino \in active'
                 /\ dir'["import"][th[u].layer] = dir["import"][th[u].layer]
                 /\ content'[th[u].ino] = content[th[u].ino]
      <3>1. /\ th[u].layer \in Layer /\ th[u].ino \in Ino /\ th[u].ino \in active
            /\ dir["import"][th[u].layer] = th[u].ino
            /\ \A n \in Layer : dir["remove"][n] # th[u].ino
        BY <1>6, <2>2, Apart
      <3>2. CASE UNCHANGED <<dir, content>>  BY <1>2, <3>1, <3>2
      <3>3. CASE d \notin active \/ k # "import"
        <4>1. th[u].ino # d  BY <1>1, <3>1, <3>3
        <4>2. k = "import" => th[u].layer # l  BY <3>1, <4>1
        <4>3. QED  BY <1>2, <1>5, <3>1, <4>1, <4>2
      <3>4. QED  BY <1>4, <3>2, <3>3
    <2>3. QED  BY <1>6, <2>1, <2>2, Untouched
  <1>9. QED  BY <1>2, <1>6, <1>7, <1>8, CombineAll DEF WorkInv

LEMMA WholeKept == TypeOK /\ WholeInv /\ [Next]_vars => WholeInv'
  <1> SUFFICES ASSUME TypeOK, WholeInv, [Next]_vars PROVE WholeInv'
    OBVIOUS
  <1>1. Injective'  BY InjectiveKept DEF WholeInv
  <1>2. CleanerAsked'
    <2>1. CASE UNCHANGED cleaner  BY <2>1 DEF WholeInv, CleanerAsked
    <2>2. CASE cleaner'.pc \in {"scan", "next", "check"}  BY <2>2 DEF CleanerAsked
    <2>3. CASE CheckActive
      <3>1. CASE Spared  BY <2>2, <2>3, <3>1, RestType, TypeParts DEF CheckActive, CleanerOK
      <3>2. CASE ~Spared
        <4>1. cleaner' = [cleaner EXCEPT !.pc = "remove", !.unaware = TRUE]
          BY <2>3, <3>2, Zenon DEF CheckActive, Spared
        <4>2. QED  BY <4>1, TypeParts DEF CleanerAsked, CleanerOK, CleanerRecord
      <3>3. QED  BY <3>1, <3>2
    <2>4. CASE RemoveJunk
      <3>1. CASE cleaner' = [cleaner EXCEPT !.pc = "root"] /\ cleaner.pc = "remove"
        BY <3>1, TypeParts DEF WholeInv, CleanerAsked, CleanerOK, CleanerRecord
      <3>2. CASE cleaner' = Rest(<<cleaner.kind, cleaner.layer>>)
        BY <2>2, <3>2, RestType, TypeParts DEF CleanerOK
      <3>3. QED  BY <2>4, <3>1, <3>2 DEF RemoveJunk
    <2>5. CASE ReadDirectory
      BY <2>2, <2>5, TypeParts DEF ReadDirectory, CleanerOK, CleanerRecord
    <2>6. ASSUME NEW l \in Layer, CleanPrivate(l) PROVE CleanerAsked'
      BY <2>2, <2>6, RestType, TypeParts DEF CleanPrivate, CleanerOK
    <2>7. ASSUME NEW l \in Layer, NEW k \in {"import", "remove"}, Pin(k, l) PROVE CleanerAsked'
      <3>1. CASE dir[k][l] = 0  BY <2>2, <2>7, <3>1, RestType, TypeParts DEF Pin, CleanerOK
      <3>2. CASE dir[k][l] # 0
        <4>1. cleaner'.pc = "check"  BY <2>7, <3>2, TypeParts DEF Pin, CleanerOK, CleanerRecord
        <4>2. QED  BY <2>2, <4>1
      <3>3. QED  BY <3>1, <3>2
    <2>8. CASE Clean  BY <2>3, <2>4, <2>5, <2>6, <2>7, <2>8 DEF Clean
    <2>9. CASE Restart  BY <2>2, <2>9, ScanType DEF Restart
    <2>10. ASSUME NEW t \in Thread, Work(t) \/ Arrive(t) PROVE UNCHANGED cleaner
      BY <2>10, WorkIsStep, Zenon
      DEF Arrive, Import, Remove, Export, EraseVolume, CreateVolume
    <2>11. QED  BY <2>1, <2>8, <2>9, <2>10 DEF Next, vars
  <1>3. ASSUME ~ghost'.raced PROVE WorkInv'
    <2>1. Injective /\ CleanerAsked /\ WorkInv
      BY <1>3, RacedStays DEF WholeInv, WorkInv
    <2>2. ASSUME UNCHANGED <<th, dir, content, active>> PROVE WorkInv'
      BY <2>1, <2>2, Zenon DEF WorkInv, Whole, Held, Filled, Left, Holds, Leaves
    <2>3. ASSUME NEW t \in Thread, Work(t) PROVE WorkInv'  BY <2>1, <2>3, WorkKeepsWhole
    <2>4. ASSUME NEW t \in Thread, Arrive(t) PROVE WorkInv'
      <3>1. UNCHANGED <<dir, content, active>>
        BY <2>4, Zenon DEF Arrive, Import, Remove, Export, EraseVolume, CreateVolume, disk, memory
      <3>2. CASE UNCHANGED th  BY <2>2, <3>1, <3>2
      <3>3. ASSUME NEW op \in {"import", "remove", "export"}, NEW l \in Layer,
                   NEW flag \in BOOLEAN, NEW pc \in {"enter", "find", "load"},
                   Begins(t, op, l, flag, pc), pc = "load" => op = "export"
            PROVE  WorkInv'
        <4>1. /\ th'[t].pc = pc /\ th'[t].op = op
              /\ \A u \in Thread \ {t} : th'[u] = th[u]
          <5>1. th \in Threads /\ pc \in Place  BY <3>3, TypeParts, Zenon DEF ThreadsOK, Place
          <5>2. QED  BY <3>3, <5>1, BeginsEffect
        <4>2. ~Holds(th'[t]) /\ KeepAfter(th'[t])
          BY <3>3, <4>1, Zenon DEF Holds, Leaves, KeepAfter, FilledAfter
        <4>3. \A u \in Thread \ {t} : WokenFrom(th'[u], th[u])  BY <4>1, SameIsWoken
        <4>4. \A u \in Thread \ {t} : KeepAfter(th[u])
          BY <2>1, <3>1, Untouched, Zenon DEF WorkInv, Held, Left, LeftAfter
        <4>5. Whole'  BY <2>1, <3>1 DEF WorkInv, Whole
        <4>6. QED  BY <2>1, <4>2, <4>3, <4>4, <4>5, Combine DEF WorkInv
      <3>4. \/ UNCHANGED th
            \/ \E op \in {"import", "remove", "export"}, l \in Layer, flag \in BOOLEAN,
                  pc \in {"enter", "find", "load"} :
                 Begins(t, op, l, flag, pc) /\ (pc = "load" => op = "export")
        BY <2>4, TypeParts, Zenon
        DEF Arrive, Import, Remove, Export, EraseVolume, CreateVolume, VolumesOK
      <3>5. QED  BY <3>2, <3>3, <3>4
    <2>5. CASE RemoveJunk  BY <1>3, <2>1, <2>5, CleanerKeepsWhole
    <2>6. CASE Clean /\ ~RemoveJunk
      BY <2>2, <2>6, Zenon DEF Clean, ReadDirectory, CheckActive, CleanPrivate, Pin, disk, memory
    <2>7. CASE Restart
      <3>1. \A m \in Layer : dir'["layer"][m] \in {0, dir["layer"][m]}
        BY <2>7 DEF Restart, Kind
      <3>2. Whole'  BY <2>1, <2>7, <3>1 DEF WorkInv, Whole, Restart
      <3>3. \A t \in Thread : th'[t] = Idle  BY <2>7 DEF Restart
      <3>4. Held' /\ Filled' /\ Left'
        BY <3>3, IdleType, Zenon DEF Held, Filled, Left, Holds, Leaves
      <3>5. QED  BY <3>2, <3>4 DEF WorkInv
    <2>8. CASE UNCHANGED vars  BY <2>2, <2>8 DEF vars, disk, memory
    <2>9. QED  BY <2>3, <2>4, <2>5, <2>6, <2>7, <2>8 DEF Next
  <1>4. QED  BY <1>1, <1>2, <1>3 DEF WholeInv, WorkInv

(* A layer that has its name is whole, for any number of threads, layers,  *)
(* failures and crashes, until the cleaner removes by name what was not in *)
(* work when it asked: imports publish only what they have filled under    *)
(* their own inode, and removals take the name away first.                 *)
THEOREM LayersStayWhole == Spec => []LayersAreWhole
  <1>1. Init => TypeOK /\ WholeInv
    <2> SUFFICES ASSUME Init PROVE WholeInv
      BY TypesStart
    <2>1. \A t \in Thread : th[t].pc = "idle"  BY IdleType DEF Init
    <2>2. Injective /\ Whole  BY DEF Init, Injective, Whole, Kind
    <2>3. Held /\ Filled /\ Left  BY <2>1, Zenon DEF Held, Filled, Left, Holds, Leaves
    <2>4. CleanerAsked  BY ScanType DEF Init, CleanerAsked
    <2>5. QED  BY <2>2, <2>3, <2>4 DEF WholeInv
  <1>2. TypeOK /\ WholeInv /\ [Next]_vars => (TypeOK /\ WholeInv)'
    BY TypesKept, WholeKept
  <1>3. WholeInv => LayersAreWhole  BY DEF WholeInv, LayersAreWhole, Whole
  <1>4. QED  BY <1>1, <1>2, <1>3, PTL DEF Spec
=============================================================================
