-------------------------- MODULE WaitersWalkProofs --------------------------
(***************************************************************************)
(* Proofs about Waiters, continued: those who walk over the list of the    *)
(* waiters, and the theorems.                                              *)
(***************************************************************************)
EXTENDS WaitersProofs

-----------------------------------------------------------------------------
(* Steps of those who walk over the list.                                  *)

(* Only one walks, and the others do nothing meanwhile. *)
LEMMA WalkersStep ==
  ASSUME Walkers, NEW t \in Walker, lock \in {Free, t},
         \A u \in Walker \ {t} : rep'[u] = rep[u],
         rep'[t].at = "idle" => rep'[t].todo = <<>>,
         rep'[t].at = "drop" => rep'[t].to \in Client,
         Walks(t)' => lock' = t,
         Walks(t)' /\ t # Worker =>
           IsInjective(rep'[t].todo) /\ Range(rep'[t].todo) \subseteq active'
  PROVE  Walkers'
  <1> SUFFICES ASSUME NEW u \in Walker, u # t
               PROVE  /\ rep'[u].at = "idle" => rep'[u].todo = <<>>
                      /\ rep'[u].at = "drop" => rep'[u].to \in Client
                      /\ ~Walks(u)'
    BY Zenon DEF Walkers
  <1>1. u # Free /\ u # lock  BY Sorts
  <1>2. QED  BY <1>1 DEF Walkers, Walks

LEMMA RepChange ==
  ASSUME Shape, NEW t \in Walker, NEW r \in ReportRecord, rep' = [rep EXCEPT ![t] = r]
  PROVE  /\ rep' \in [Walker -> ReportRecord] /\ rep'[t] = r
         /\ \A u \in Walker \ {t} : rep'[u] = rep[u]
  BY DEF Shape

LEMMA NoReportFacts ==
  NoReport \in ReportRecord /\ NoReport.at = "idle" /\ NoReport.todo = <<>>
  BY DEF NoReport, ReportRecord

LEMMA SetStateKeeps == ASSUME Inv, NEW t \in Reporter, SetState(t) PROVE Inv'
  <1> DEFINE Changed(ct) ==
        /\ final' = IF ct \in final THEN final \ {ct} ELSE final \cup {ct}
        /\ rep' = [rep EXCEPT ![t] = [NoReport EXCEPT !.at = "lock", !.ct = ct]]
  <1>1. PICK ct \in Container : Changed(ct)  BY Zenon DEF SetState
  <1>2. rep[t].at = "idle" /\ UNCHANGED <<objects, waiters, lock, clients>>
    BY Zenon DEF SetState
  <1> DEFINE r == [NoReport EXCEPT !.at = "lock", !.ct = ct]
  <1>3. /\ rep' \in [Walker -> ReportRecord] /\ rep'[t].at = "lock" /\ rep'[t].ct = ct
        /\ \A u \in Walker \ {t} : rep'[u] = rep[u]
    <2>1. NoReport \in ReportRecord  BY NoReportFacts
    <2>2. r \in ReportRecord /\ r.at = "lock" /\ r.ct = ct  BY <2>1, Zenon DEF ReportRecord
    <2>3. rep' = [rep EXCEPT ![t] = r]  BY <1>1, Zenon
    <2>4. t \in Walker  BY Sorts
    <2> HIDE DEF r
    <2>5. QED  BY <2>2, <2>3, <2>4, RepChange, Zenon DEF Inv
  <1>4. References  BY <1>2, SameReferences DEF Inv
  <1>5. Shape'  BY <1>2, <1>3, <1>4 DEF Inv, Shape, References, waiters, clients
  <1>6. ListIsAlive'  BY <1>2, <1>4, SameList, StaysAlive, Zenon DEF Inv, waiters
  <1>7. Walkers'
    <2> SUFFICES ASSUME NEW u \in Walker
                 PROVE  /\ rep'[u].at = "idle" => rep'[u].todo = <<>>
                        /\ rep'[u].at = "drop" => rep'[u].to \in Client
                        /\ Walks(u)' => lock' = u
                        /\ Walks(u)' /\ u # Worker =>
                             IsInjective(rep'[u].todo) /\ Range(rep'[u].todo) \subseteq active'
      BY Zenon DEF Walkers
    <2>1. CASE u = t  BY <1>3, <2>1 DEF Walks
    <2>2. CASE u # t
      <3>1. rep'[u] = rep[u] /\ active' = active /\ lock' = lock  BY <1>2, <1>3, <2>2 DEF waiters
      <3>2. QED  BY <3>1 DEF Inv, Walkers, Walks
    <2>3. QED  BY <2>1, <2>2
  <1>8. Handlers'
    <2>1. \A h \in Handler : rep'[h] = rep[h]  BY <1>3, Sorts
    <2>2. QED  BY <1>2, <2>1, HandlersSame DEF Inv, objects, clients
  <1>9. Answers'  BY <1>2, AnswersSame DEF Inv, waiters, clients
  <1>10. Told'
    <2> SUFFICES ASSUME NEW d \in Client, <<d, "sync">> \in active', refs'[d] # {},
                        NEW x \in names'[<<d, "sync">>] \cap final'
                 PROVE  \/ x \in late'[<<d, "sync">>]
                        \/ \E u \in Reporter :
                             /\ rep'[u].ct = x
                             /\ rep'[u].at = "lock" \/ <<d, "sync">> \in Range(rep'[u].todo)
      BY Zenon DEF Told
    <2>1. CASE x = ct  BY <1>3, <2>1
    <2>2. CASE x # ct
      <3>1. x \in final  BY <1>1, <2>2
      <3>2. /\ <<d, "sync">> \in active /\ refs[d] # {} /\ x \in names[<<d, "sync">>]
            /\ late' = late
        BY <1>2 DEF objects, waiters
      <3>3. \/ x \in late[<<d, "sync">>]
            \/ \E u \in Reporter : /\ rep[u].ct = x
                                   /\ rep[u].at = "lock" \/ <<d, "sync">> \in Range(rep[u].todo)
        BY <3>1, <3>2 DEF Inv, Told
      <3>4. CASE x \in late[<<d, "sync">>]  BY <3>2, <3>4
      <3>5. ASSUME NEW u \in Reporter, rep[u].ct = x,
                   rep[u].at = "lock" \/ <<d, "sync">> \in Range(rep[u].todo)
            PROVE  \E v \in Reporter :
                     /\ rep'[v].ct = x
                     /\ rep'[v].at = "lock" \/ <<d, "sync">> \in Range(rep'[v].todo)
        <4>1. t \in Walker /\ u \in Walker  BY Sorts
        <4>2. rep[t].todo = <<>>  BY <1>2, <4>1 DEF Inv, Walkers
        <4>3. rep[t].at # "lock" /\ Range(rep[t].todo) = {}  BY <1>2, <4>2 DEF Range
        <4>4. u # t  BY <3>5, <4>3
        <4>5. QED  BY <1>3, <3>5, <4>1, <4>4
      <3>6. QED  BY <3>3, <3>4, <3>5
    <2>3. QED  BY <2>1, <2>2
  <1>11. QED  BY <1>5, <1>6, <1>7, <1>8, <1>9, <1>10 DEF Inv

LEMMA LockWaitersKeeps == ASSUME Inv, NEW t \in Walker, LockWaiters(t) PROVE Inv'
  <1>1. /\ lock = Free /\ lock' = t
        /\ rep[t].at = "lock" \/ (t \in Handler /\ req[t].at = "remove")
        /\ rep' = [rep EXCEPT ![t].at = "walk", ![t].todo = ContainerWaiters]
        /\ UNCHANGED <<final, changes, objects, waiters, clients>>
    BY Zenon DEF LockWaiters
  <1>2. /\ ContainerWaiters \in Seq(Slot) /\ IsInjective(ContainerWaiters)
        /\ Range(ContainerWaiters) = active /\ active' = active
    BY <1>1 DEF Inv, Shape, ListIsAlive, waiters
  <1> DEFINE r == [rep[t] EXCEPT !.at = "walk", !.todo = ContainerWaiters]
  <1>3. /\ rep' \in [Walker -> ReportRecord] /\ rep'[t].at = "walk" /\ rep'[t].ct = rep[t].ct
        /\ rep'[t].todo = ContainerWaiters
        /\ \A u \in Walker \ {t} : rep'[u] = rep[u]
    <2>1. rep[t] \in ReportRecord /\ rep \in [Walker -> ReportRecord]  BY DEF Inv, Shape
    <2>2. r \in ReportRecord /\ r.at = "walk" /\ r.ct = rep[t].ct /\ r.todo = ContainerWaiters
      BY <1>2, <2>1, Zenon DEF ReportRecord
    <2>3. rep' = [rep EXCEPT ![t] = r]  BY <1>1, <2>1, Zenon
    <2> HIDE DEF r
    <2>4. QED  BY <2>2, <2>3, RepChange, Zenon DEF Inv
  <1>4. References  BY <1>1, SameReferences DEF Inv
  <1>5. Shape'  BY <1>1, <1>3, <1>4 DEF Inv, Shape, References, waiters, clients
  <1>6. ListIsAlive'  BY <1>1, <1>4, SameList, StaysAlive DEF Inv, waiters
  <1>7. Walkers'  BY <1>1, <1>2, <1>3, WalkersStep DEF Inv, Walks
  <1>8. Handlers'
    <2> SUFFICES ASSUME NEW h \in Handler
                 PROVE  /\ req'[h].at # "idle" => req'[h].cl \in Client /\ h \in refs'[req'[h].cl]
                        /\ req'[h].at = "check" => req'[h].kind \in Kind
                        /\ rep'[h].at # "idle" => Walks(h)' /\ req'[h].at = "remove"
                        /\ rep'[h].at = "drop" => rep'[h].to # req'[h].cl
      BY Zenon DEF Handlers
    <2>1. /\ req[h].at # "idle" => req[h].cl \in Client /\ h \in refs[req[h].cl]
          /\ req[h].at = "check" => req[h].kind \in Kind
          /\ rep[h].at # "idle" => Walks(h) /\ req[h].at = "remove"
          /\ rep[h].at = "drop" => rep[h].to # req[h].cl
      BY Zenon DEF Inv, Handlers
    <2>2. req' = req /\ refs' = refs  BY <1>1 DEF clients, objects
    <2>3. CASE h = t  BY <1>1, <1>3, <2>1, <2>2, <2>3 DEF Walks
    <2>4. CASE h # t  BY <1>3, <2>1, <2>2, <2>4, Sorts DEF Walks
    <2>5. QED  BY <2>3, <2>4
  <1>9. Answers'  BY <1>1, AnswersSame, Zenon DEF Inv, waiters, clients
  <1>10. Told'
    <2> SUFFICES ASSUME NEW d \in Client, <<d, "sync">> \in active', refs'[d] # {},
                        NEW x \in names'[<<d, "sync">>] \cap final'
                 PROVE  \/ x \in late'[<<d, "sync">>]
                        \/ \E u \in Reporter :
                             /\ rep'[u].ct = x
                             /\ rep'[u].at = "lock" \/ <<d, "sync">> \in Range(rep'[u].todo)
      BY Zenon DEF Told
    <2>1. /\ <<d, "sync">> \in active /\ refs[d] # {} /\ x \in names[<<d, "sync">>] \cap final
          /\ late' = late
      BY <1>1 DEF objects, waiters
    <2>2. \/ x \in late[<<d, "sync">>]
          \/ \E u \in Reporter : /\ rep[u].ct = x
                                 /\ rep[u].at = "lock" \/ <<d, "sync">> \in Range(rep[u].todo)
      BY <2>1, Zenon DEF Inv, Told
    <2>3. QED  BY <1>2, <1>3, <2>1, <2>2, Sorts
  <1>11. QED  BY <1>5, <1>6, <1>7, <1>8, <1>9, <1>10 DEF Inv

(* The report, and its end of a synchronous wait. *)
LEMMA ReportEffect ==
  ASSUME Inv, NEW s \in active, MakeReport(s[1], s[2]), UNCHANGED req,
         s[2] = "sync" => s \notin active', active' \subseteq active
  PROVE  Answers' /\ processing' \subseteq Client /\ owed' \in [Client -> Int]
  <1>1. s \in Slot /\ s[1] \in Client /\ s = <<s[1], s[2]>>  BY SlotFacts DEF Inv, Shape
  <1>2. CASE s[2] = "sync"
    <2>1. <<s[1], "sync">> \in active /\ <<s[1], "sync">> \notin active'  BY <1>1, <1>2
    <2>2. s[1] \in processing  BY <1>1, <2>1 DEF Inv, Answers, AnsweredOnce
    <2>3. \A h \in Handler : Asks(h)' => Asks(h) /\ req'[h].cl = req[h].cl /\ req[h].cl # s[1]
      BY <2>1 DEF Inv, Answers, Asks
    <2>4. Answer(s[1])  BY <1>2 DEF MakeReport
    <2>5. QED  BY <2>1, <2>2, <2>3, <2>4, AnswerEffect, Zenon DEF Inv
  <1>3. CASE s[2] # "sync"
    <2>1. UNCHANGED <<processing, owed>>  BY <1>3, Zenon DEF MakeReport
    <2>2. QED  BY <2>1, AnswersSame DEF Inv, Shape
  <1>4. QED  BY <1>2, <1>3

(* The next waiter of a walk is in the list. *)
LEMMA WalkFacts ==
  ASSUME Inv, NEW t \in Reporter \cup Handler, Walks(t), rep[t].todo # <<>>
  PROVE  LET s == Head(rep[t].todo)
             rest == Tail(rep[t].todo) IN
         /\ lock = t /\ s \in active /\ s \in Slot
         /\ rest \in Seq(Slot) /\ IsInjective(rest) /\ Range(rest) \subseteq active \ {s}
         /\ Range(rest) = Range(rep[t].todo) \ {s}
  <1>1. t \in Walker /\ t # Worker  BY Sorts
  <1>2. /\ lock = t /\ IsInjective(rep[t].todo) /\ Range(rep[t].todo) \subseteq active
        /\ active \subseteq Slot /\ rep[t] \in ReportRecord
    BY <1>1 DEF Inv, Walkers, Shape
  <1>3. rep[t].todo \in Seq(Slot)  BY <1>2 DEF ReportRecord
  <1> DEFINE list == rep[t].todo
  <1>4. /\ list \in Seq(Slot) /\ IsInjective(list) /\ list # <<>> /\ Range(list) \subseteq active
    BY <1>2, <1>3
  <1> HIDE DEF list
  <1>5. /\ Head(list) \in Slot /\ Head(list) \in Range(list)
        /\ Tail(list) \in Seq(Slot) /\ IsInjective(Tail(list))
        /\ Range(Tail(list)) = Range(list) \ {Head(list)}
    BY <1>4, TailFacts
  <1>6. QED  BY <1>2, <1>4, <1>5 DEF list

LEMMA ReportNextKeeps == ASSUME Inv, NEW t \in Reporter, ReportNext(t) PROVE Inv'
  <1> DEFINE s == Head(rep[t].todo)
             rest == Tail(rep[t].todo)
             hits == Hits(s, rep[t].ct)
             once == s[2] = "sync" \/ target[s]
  <1>1. /\ rep[t].at = "walk" /\ rep[t].todo # <<>>
        /\ UNCHANGED <<final, changes, doomed, names, target, late, lock, req, requests>>
    BY Zenon DEF ReportNext
  <1>2. hits => /\ refs' = [refs EXCEPT ![s[1]] = @ \cup {t}]
                /\ rep' = [rep EXCEPT ![t].at = "drop", ![t].to = s[1], ![t].todo = Tail(@)]
                /\ MakeReport(s[1], s[2])
                /\ IF once THEN Reset(s) ELSE UNCHANGED <<active, timer, ContainerWaiters>>
    BY Zenon DEF ReportNext
  <1>3. ~hits => /\ rep' = [rep EXCEPT ![t].todo = Tail(@)]
                 /\ UNCHANGED <<refs, processing, owed, active, timer, ContainerWaiters>>
    BY Zenon DEF ReportNext
  <1>4. t \in Walker /\ t \in Thread /\ t \notin Handler /\ t # Worker  BY Sorts
  <1>5. /\ lock = t /\ s \in active /\ s \in Slot
        /\ rest \in Seq(Slot) /\ IsInjective(rest) /\ Range(rest) \subseteq active \ {s}
        /\ Range(rest) = Range(rep[t].todo) \ {s}
    BY <1>1, WalkFacts DEF Walks
  <1>6. s[1] \in Client /\ s = <<s[1], s[2]>>  BY <1>5, SlotFacts
  <1>7. hits => refs[s[1]] # {}  BY DEF Hits
  <1>8. /\ rep' \in [Walker -> ReportRecord] /\ rep'[t].ct = rep[t].ct /\ rep'[t].todo = rest
        /\ rep'[t].at \in {"walk", "drop"}
        /\ rep'[t].at = "drop" => rep'[t].to \in Client
        /\ \A u \in Walker \ {t} : rep'[u] = rep[u]
    <2>1. rep[t] \in ReportRecord /\ rep \in [Walker -> ReportRecord]  BY <1>4 DEF Inv, Shape
    <2>2. CASE hits
      <3> DEFINE r == [rep[t] EXCEPT !.at = "drop", !.to = s[1], !.todo = rest]
      <3>1. /\ r \in ReportRecord /\ r.at = "drop" /\ r.ct = rep[t].ct /\ r.todo = rest
            /\ r.to = s[1]
        BY <1>5, <1>6, <2>1, Zenon DEF ReportRecord
      <3>2. rep' = [rep EXCEPT ![t] = r]  BY <1>2, <1>4, <2>1, <2>2, Zenon
      <3> HIDE DEF r, s, rest
      <3>3. QED  BY <1>4, <1>6, <3>1, <3>2, RepChange, Zenon DEF Inv
    <2>3. CASE ~hits
      <3> DEFINE r == [rep[t] EXCEPT !.todo = rest]
      <3>1. r \in ReportRecord /\ r.at = "walk" /\ r.ct = rep[t].ct /\ r.todo = rest
        BY <1>1, <1>5, <2>1, Zenon DEF ReportRecord
      <3>2. rep' = [rep EXCEPT ![t] = r]  BY <1>3, <1>4, <2>1, <2>3
      <3> HIDE DEF r, s, rest
      <3>3. QED  BY <1>4, <3>1, <3>2, RepChange, Zenon DEF Inv
    <2>4. QED  BY <2>2, <2>3
  <1>9. References /\ \A d \in Client : refs[d] \subseteq refs'[d]
    <2>1. CASE hits  BY <1>1, <1>2, <1>4, <1>6, <1>7, <2>1, GainEffect DEF Inv
    <2>2. CASE ~hits  BY <1>1, <1>3, <2>2, SameReferences DEF Inv, objects
    <2>3. QED  BY <2>1, <2>2, Zenon
  <1>10. /\ Listed /\ active' \subseteq active /\ active \ {s} \subseteq active'
         /\ hits /\ s[2] = "sync" => s \notin active'
    <2>1. CASE hits /\ once  BY <1>2, <2>1, ResetEffect DEF Inv
    <2>2. CASE ~(hits /\ once)
      <3>1. UNCHANGED <<active, timer, ContainerWaiters>>  BY <1>2, <1>3, <2>2, Zenon
      <3>2. QED  BY <2>2, <3>1, SameList DEF Inv
    <2>3. QED  BY <2>1, <2>2
  <1>11. Answers' /\ processing' \subseteq Client /\ owed' \in [Client -> Int]
    <2>1. CASE hits
      <3>1. MakeReport(s[1], s[2])  BY <1>2, <2>1, Zenon
      <3>2. s[2] = "sync" => s \notin active'  BY <1>10, <2>1, Zenon
      <3> HIDE DEF s
      <3>3. QED  BY <1>1, <1>5, <1>10, <3>1, <3>2, ReportEffect
    <2>2. CASE ~hits  BY <1>1, <1>3, <2>2, AnswersSame DEF Inv, Shape
    <2>3. QED  BY <2>1, <2>2
  <1>12. hits \/ s[2] # "sync" \/ refs[s[1]] = {} \/ rep[t].ct \notin names[s] \cap final
    BY DEF Hits, ShouldReport
  <1> HIDE DEF hits, once, s, rest
  <1>13. Shape'  BY <1>1, <1>8, <1>9, <1>10, <1>11 DEF Inv, Shape, References, Listed
  <1>14. ListIsAlive'  BY <1>9, <1>10, StaysAlive DEF Inv
  <1>15. Walkers'
    <2>1. IsInjective(rep'[t].todo) /\ Range(rep'[t].todo) \subseteq active' /\ lock' = t
      BY <1>1, <1>5, <1>8, <1>10
    <2>2. rep'[t].at # "idle" /\ lock \in {Free, t}  BY <1>5, <1>8
    <2>3. QED  BY <1>4, <1>8, <2>1, <2>2, WalkersStep, Zenon DEF Inv
  <1>16. Handlers'
    <2>1. \A h \in Handler : rep'[h] = rep[h]  BY <1>4, <1>8, Sorts
    <2>2. QED  BY <1>1, <1>9, <2>1, HandlersSame DEF Inv
  <1>17. Told'
    <2> SUFFICES ASSUME NEW d \in Client, <<d, "sync">> \in active', refs'[d] # {},
                        NEW x \in names'[<<d, "sync">>] \cap final'
                 PROVE  \/ x \in late'[<<d, "sync">>]
                        \/ \E u \in Reporter :
                             /\ rep'[u].ct = x
                             /\ rep'[u].at = "lock" \/ <<d, "sync">> \in Range(rep'[u].todo)
      BY Zenon DEF Told
    <2>1. /\ <<d, "sync">> \in active /\ refs[d] # {} /\ x \in names[<<d, "sync">>] \cap final
          /\ late' = late
      BY <1>1, <1>9, <1>10 DEF References
    <2>2. \/ x \in late[<<d, "sync">>]
          \/ \E u \in Reporter : /\ rep[u].ct = x
                                 /\ rep[u].at = "lock" \/ <<d, "sync">> \in Range(rep[u].todo)
      BY <2>1, Zenon DEF Inv, Told
    <2>3. ASSUME NEW u \in Reporter, rep[u].ct = x,
                 rep[u].at = "lock" \/ <<d, "sync">> \in Range(rep[u].todo)
          PROVE  rep'[u].ct = x /\ (rep'[u].at = "lock" \/ <<d, "sync">> \in Range(rep'[u].todo))
      <3>1. CASE u # t
        <4>1. u \in Walker \ {t}  BY <3>1, Sorts
        <4>2. rep'[u] = rep[u]  BY <1>8, <4>1
        <4>3. QED  BY <2>3, <4>2
      <3>2. CASE u = t
        <4>1. <<d, "sync">> # s
          <5> SUFFICES ASSUME s = <<d, "sync">> PROVE FALSE  OBVIOUS
          <5>1. s[1] = d /\ s[2] = "sync"  OBVIOUS
          <5>2. hits  BY <1>12, <2>1, <2>3, <3>2, <5>1
          <5>3. QED  BY <1>10, <5>1, <5>2
        <4>2. <<d, "sync">> \in Range(rep[t].todo)  BY <1>1, <2>3, <3>2
        <4>3. QED  BY <1>5, <1>8, <2>3, <3>2, <4>1, <4>2
      <3>3. QED  BY <3>1, <3>2
    <2>4. QED  BY <2>1, <2>2, <2>3, Zenon
  <1>18. QED  BY <1>11, <1>13, <1>14, <1>15, <1>16, <1>17 DEF Inv

LEMMA ReportDropKeeps == ASSUME Inv, NEW t \in Walker, ReportDrop(t) PROVE Inv'
  <1> DEFINE c == rep[t].to
  <1>1. /\ rep[t].at = "drop" /\ Drop(t, c)
        /\ rep' = [rep EXCEPT ![t].at = "walk", ![t].to = Free]
        /\ UNCHANGED <<final, changes, waiters, lock, clients>>
    BY Zenon DEF ReportDrop
  <1>2. /\ c \in Client /\ lock = t /\ Walks(t)
        /\ t # Worker => IsInjective(rep[t].todo) /\ Range(rep[t].todo) \subseteq active
    BY <1>1 DEF Inv, Walkers, Walks
  <1>3. /\ References
        /\ \A d \in Client, u \in Thread : u # t \/ d # c => (u \in refs[d] <=> u \in refs'[d])
    <2>1. t \in Thread  BY Sorts
    <2> HIDE DEF c
    <2>2. QED  BY <1>1, <1>2, <2>1, DropEffect DEF Inv
  <1>4. /\ rep' \in [Walker -> ReportRecord] /\ rep'[t].at = "walk" /\ rep'[t].ct = rep[t].ct
        /\ rep'[t].todo = rep[t].todo /\ \A u \in Walker \ {t} : rep'[u] = rep[u]
    <2> DEFINE r == [rep[t] EXCEPT !.at = "walk", !.to = Free]
    <2>1. rep[t] \in ReportRecord /\ rep \in [Walker -> ReportRecord]  BY DEF Inv, Shape
    <2>2. r \in ReportRecord /\ r.at = "walk" /\ r.ct = rep[t].ct /\ r.todo = rep[t].todo
      BY <2>1, Zenon DEF ReportRecord
    <2>3. rep' = [rep EXCEPT ![t] = r]  BY <1>1, <2>1, Zenon
    <2> HIDE DEF r
    <2>4. QED  BY <2>2, <2>3, RepChange, Zenon DEF Inv
  <1>5. Shape'  BY <1>1, <1>3, <1>4 DEF Inv, Shape, References, waiters, clients
  <1>6. ListIsAlive'  BY <1>1, <1>3, SameList, StaysAlive DEF Inv, waiters
  <1>7. Walkers'
    <2>1. /\ lock \in {Free, t} /\ lock' = t /\ rep'[t].at # "idle" /\ rep'[t].at # "drop"
          /\ t # Worker => IsInjective(rep'[t].todo) /\ Range(rep'[t].todo) \subseteq active'
      BY <1>1, <1>2, <1>4 DEF waiters
    <2>2. QED  BY <1>4, <2>1, WalkersStep, Zenon DEF Inv
  <1>8. Handlers'
    <2> SUFFICES ASSUME NEW h \in Handler
                 PROVE  /\ req'[h].at # "idle" => req'[h].cl \in Client /\ h \in refs'[req'[h].cl]
                        /\ req'[h].at = "check" => req'[h].kind \in Kind
                        /\ rep'[h].at # "idle" => Walks(h)' /\ req'[h].at = "remove"
                        /\ rep'[h].at = "drop" => rep'[h].to # req'[h].cl
      BY Zenon DEF Handlers
    <2>1. /\ req[h].at # "idle" => req[h].cl \in Client /\ h \in refs[req[h].cl]
          /\ req[h].at = "check" => req[h].kind \in Kind
          /\ rep[h].at # "idle" => Walks(h) /\ req[h].at = "remove"
          /\ rep[h].at = "drop" => rep[h].to # req[h].cl
      BY Zenon DEF Inv, Handlers
    <2>2. req' = req /\ h \in Walker /\ h \in Thread  BY <1>1, Sorts DEF clients
    <2>3. CASE h = t  BY <1>1, <1>3, <1>4, <2>1, <2>2, <2>3 DEF Walks
    <2>4. CASE h # t  BY <1>3, <1>4, <2>1, <2>2, <2>4 DEF Walks
    <2>5. QED  BY <2>3, <2>4
  <1>9. Answers'  BY <1>1, AnswersSame DEF Inv, waiters, clients
  <1>10. Told'
    <2>1. \A u \in Reporter : /\ rep'[u].ct = rep[u].ct /\ rep'[u].todo = rep[u].todo
                              /\ rep[u].at = "lock" => rep'[u].at = "lock"
      BY <1>1, <1>4, Sorts
    <2>2. QED  BY <1>1, <1>3, <2>1, ToldSame, Zenon DEF Inv, waiters
  <1>11. QED  BY <1>5, <1>6, <1>7, <1>8, <1>9, <1>10 DEF Inv

(* Who unlocks was through with the list. *)
LEMMA UnlockEffect ==
  ASSUME Inv, NEW t \in Walker, Unlock(t),
         UNCHANGED <<final, names, late, active, refs, doomed>>
  PROVE  /\ Walkers' /\ Told'
         /\ rep' \in [Walker -> ReportRecord] /\ rep'[t].at = "idle"
         /\ \A u \in Walker \ {t} : rep'[u] = rep[u]
  <1>1. /\ rep[t].at = "walk" /\ rep[t].todo = <<>> /\ lock' = Free
        /\ rep' = [rep EXCEPT ![t] = NoReport]
    BY Zenon DEF Unlock
  <1>2. /\ rep' \in [Walker -> ReportRecord] /\ rep'[t] = NoReport
        /\ \A u \in Walker \ {t} : rep'[u] = rep[u]
    BY <1>1, RepChange, NoReportFacts, Zenon DEF Inv
  <1>3. rep'[t].at = "idle" /\ rep'[t].todo = <<>>  BY <1>2, NoReportFacts
  <1>4. lock = t  BY <1>1 DEF Inv, Walkers, Walks
  <1>5. Walkers'
    <2>1. lock \in {Free, t} /\ ~Walks(t)' /\ rep'[t].at # "drop"  BY <1>3, <1>4 DEF Walks
    <2>2. QED  BY <1>2, <1>3, <2>1, WalkersStep, Zenon DEF Inv
  <1>6. Told'
    <2> SUFFICES ASSUME NEW d \in Client, <<d, "sync">> \in active', refs'[d] # {},
                        NEW x \in names'[<<d, "sync">>] \cap final'
                 PROVE  \/ x \in late'[<<d, "sync">>]
                        \/ \E u \in Reporter :
                             /\ rep'[u].ct = x
                             /\ rep'[u].at = "lock" \/ <<d, "sync">> \in Range(rep'[u].todo)
      BY Zenon DEF Told
    <2>1. <<d, "sync">> \in active /\ refs[d] # {} /\ x \in names[<<d, "sync">>] \cap final
      OBVIOUS
    <2>2. \/ x \in late[<<d, "sync">>]
          \/ \E u \in Reporter : /\ rep[u].ct = x
                                 /\ rep[u].at = "lock" \/ <<d, "sync">> \in Range(rep[u].todo)
      BY <2>1, Zenon DEF Inv, Told
    <2>3. rep[t].at # "lock" /\ Range(rep[t].todo) = {}  BY <1>1 DEF Range
    <2>4. ASSUME NEW u \in Reporter, rep[u].ct = x,
                 rep[u].at = "lock" \/ <<d, "sync">> \in Range(rep[u].todo)
          PROVE  rep'[u] = rep[u]
      <3>1. u # t /\ u \in Walker  BY <2>3, <2>4, Sorts
      <3>2. QED  BY <1>2, <3>1
    <2>5. QED  BY <2>2, <2>4
  <1>7. QED  BY <1>2, <1>3, <1>5, <1>6

LEMMA ReportEndKeeps == ASSUME Inv, NEW t \in Walker, ReportEnd(t) PROVE Inv'
  <1>1. t \notin Handler /\ Unlock(t) /\ UNCHANGED <<final, changes, objects, waiters, clients>>
    BY Zenon DEF ReportEnd
  <1>2. /\ Walkers' /\ Told' /\ rep' \in [Walker -> ReportRecord]
        /\ \A u \in Walker \ {t} : rep'[u] = rep[u]
    <2>1. UNCHANGED <<final, names, late, active, refs, doomed>>  BY <1>1 DEF objects, waiters
    <2>2. QED  BY <1>1, <2>1, UnlockEffect
  <1>3. References  BY <1>1, SameReferences DEF Inv
  <1>4. Shape'  BY <1>1, <1>2, <1>3 DEF Inv, Shape, References, waiters, clients
  <1>5. ListIsAlive'  BY <1>1, <1>3, SameList, StaysAlive DEF Inv, waiters
  <1>6. Handlers'
    <2>1. \A h \in Handler : rep'[h] = rep[h]  BY <1>1, <1>2, Sorts
    <2>2. QED  BY <1>1, <2>1, HandlersSame DEF Inv, objects, clients
  <1>7. Answers'  BY <1>1, AnswersSame DEF Inv, waiters, clients
  <1>8. QED  BY <1>2, <1>4, <1>5, <1>6, <1>7 DEF Inv

LEMMA RemoveEndKeeps == ASSUME Inv, NEW h \in Handler, RemoveEnd(h) PROVE Inv'
  <1>1. /\ Unlock(h) /\ req' = [req EXCEPT ![h].at = "end"] /\ Answer(req[h].cl)
        /\ UNCHANGED <<final, changes, objects, waiters, requests>>
    BY Zenon DEF RemoveEnd
  <1>2. UNCHANGED <<final, names, late, active, refs, doomed>>  BY <1>1 DEF objects, waiters
  <1>3. /\ Walkers' /\ Told' /\ rep' \in [Walker -> ReportRecord] /\ rep'[h].at = "idle"
        /\ \A u \in Walker \ {h} : rep'[u] = rep[u]
    BY <1>1, <1>2, UnlockEffect, Sorts
  <1>4. rep[h].at = "walk"  BY <1>1 DEF Unlock
  <1>5. Asks(h) /\ req[h].at # "idle"  BY <1>4 DEF Inv, Handlers, Asks
  <1>6. /\ req' \in [Handler -> RequestRecord]
        /\ req'[h].at = "end" /\ req'[h].cl = req[h].cl /\ req'[h].kind = req[h].kind
        /\ \A g \in Handler \ {h} : req'[g] = req[g]
    BY <1>1, ReqChange, Zenon DEF Inv
  <1>7. Answers' /\ processing' \subseteq Client /\ owed' \in [Client -> Int]
    BY <1>1, <1>2, <1>5, EndsEffect, Zenon
  <1>8. References  BY <1>1, SameReferences DEF Inv
  <1>9. Shape'  BY <1>1, <1>3, <1>6, <1>7, <1>8 DEF Inv, Shape, References, waiters
  <1>10. ListIsAlive'  BY <1>1, <1>8, SameList, StaysAlive, Zenon DEF Inv, waiters
  <1>11. Handlers'
    <2>1. \A g \in Handler \ {h} : req'[g] = req[g] /\ rep'[g] = rep[g]  BY <1>3, <1>6, Sorts
    <2>2. QED  BY <1>2, <1>3, <1>5, <1>6, <2>1, MovesOn
  <1>12. QED  BY <1>3, <1>7, <1>9, <1>10, <1>11 DEF Inv

LEMMA RemoveNextKeeps == ASSUME Inv, NEW h \in Handler, RemoveNext(h) PROVE Inv'
  <1> DEFINE s == Head(rep[h].todo)
             rest == Tail(rep[h].todo)
             q == req[h]
             same == s = <<q.cl, "async">> /\ names[s] = q.names /\ target[s] = q.target
             known == refs[s[1]] = {} \/ h \in refs[s[1]]
  <1>1. /\ rep[h].at = "walk" /\ rep[h].todo # <<>>
        /\ UNCHANGED <<final, changes, doomed, names, target, late, lock, clients>>
    BY Zenon DEF RemoveNext
  <1>2. known => UNCHANGED refs /\ rep' = [rep EXCEPT ![h].todo = IF same THEN <<>> ELSE Tail(@)]
    BY Zenon DEF RemoveNext
  <1>3. ~known => /\ refs' = [refs EXCEPT ![s[1]] = @ \cup {h}]
                  /\ rep' = [rep EXCEPT ![h].at = "drop", ![h].to = s[1], ![h].todo = Tail(@)]
    BY Zenon DEF RemoveNext
  <1>4. IF same THEN Reset(s) ELSE UNCHANGED <<active, timer, ContainerWaiters>>
    BY Zenon DEF RemoveNext
  <1>5. h \in Walker /\ h \in Thread /\ h \notin Reporter /\ h # Worker  BY Sorts
  <1>6. /\ lock = h /\ s \in active /\ s \in Slot
        /\ rest \in Seq(Slot) /\ IsInjective(rest) /\ Range(rest) \subseteq active \ {s}
    BY <1>1, WalkFacts, Zenon DEF Walks
  <1>7. s[1] \in Client  BY <1>6, SlotFacts
  <1>8. /\ req[h].at = "remove" /\ req[h].cl \in Client /\ h \in refs[req[h].cl]
    <2>1. req[h].at = "remove"  BY <1>1 DEF Inv, Handlers
    <2>2. QED  BY <2>1 DEF Inv, Handlers
  <1>9. ~known => s[1] # req[h].cl  BY <1>8
  <1>10. /\ rep' \in [Walker -> ReportRecord]
         /\ rep'[h].todo \in {rest, <<>>}
         /\ rep'[h].at \in {"walk", "drop"}
         /\ rep'[h].at = "drop" => rep'[h].to \in Client /\ rep'[h].to # req[h].cl
         /\ \A u \in Walker \ {h} : rep'[u] = rep[u]
    <2>1. rep[h] \in ReportRecord /\ rep \in [Walker -> ReportRecord]  BY <1>5 DEF Inv, Shape
    <2>2. CASE known
      <3> DEFINE left == IF same THEN <<>> ELSE rest
                 r == [rep[h] EXCEPT !.todo = left]
      <3>0. <<>> \in Seq(Slot) /\ rest \in Seq(Slot)  BY <1>6
      <3>1. left \in Seq(Slot) /\ left \in {rest, <<>>}  BY <3>0, Zenon
      <3>2. rep' = [rep EXCEPT ![h] = r]  BY <1>2, <1>5, <2>1, <2>2
      <3> HIDE DEF left, same
      <3>3. r \in ReportRecord /\ r.at = "walk" /\ r.todo = left
        BY <1>1, <2>1, <3>1, Zenon DEF ReportRecord
      <3> HIDE DEF r, s, rest
      <3>4. QED  BY <1>5, <3>1, <3>2, <3>3, RepChange, Zenon DEF Inv
    <2>3. CASE ~known
      <3> DEFINE r == [rep[h] EXCEPT !.at = "drop", !.to = s[1], !.todo = rest]
      <3>1. r \in ReportRecord /\ r.at = "drop" /\ r.todo = rest /\ r.to = s[1]
        BY <1>6, <1>7, <2>1, Zenon DEF ReportRecord
      <3>2. rep' = [rep EXCEPT ![h] = r]  BY <1>3, <1>5, <2>1, <2>3, Zenon
      <3>3. s[1] # req[h].cl  BY <1>9, <2>3, Zenon
      <3> HIDE DEF r, s, rest
      <3>4. QED  BY <1>5, <1>7, <3>1, <3>2, <3>3, RepChange, Zenon DEF Inv
    <2>4. QED  BY <2>2, <2>3, Zenon
  <1>11. References /\ \A d \in Client : refs[d] \subseteq refs'[d]
    <2>1. CASE known  BY <1>1, <1>2, <2>1, SameReferences DEF Inv, objects
    <2>2. CASE ~known  BY <1>1, <1>3, <1>5, <1>7, <2>2, GainEffect DEF Inv
    <2>3. QED  BY <2>1, <2>2
  <1>12. Listed /\ active' \subseteq active /\ active \ {s} \subseteq active'
    <2>1. CASE same  BY <1>4, <2>1, ResetEffect DEF Inv
    <2>2. CASE ~same
      <3>1. UNCHANGED <<active, timer, ContainerWaiters>>  BY <1>4, <2>2, Zenon
      <3>2. QED  BY <3>1, SameList DEF Inv
    <2>3. QED  BY <2>1, <2>2
  <1> HIDE DEF known, same, s, rest
  <1>13. Shape'  BY <1>1, <1>10, <1>11, <1>12, Zenon DEF Inv, Shape, References, Listed, clients
  <1>14. ListIsAlive'  BY <1>11, <1>12, StaysAlive, Zenon DEF Inv
  <1>15. Walkers'
    <2>1. IsInjective(rep'[h].todo) /\ Range(rep'[h].todo) \subseteq active'
      <3>1. CASE rep'[h].todo = rest  BY <1>6, <1>12, <3>1
      <3>2. CASE rep'[h].todo = <<>>  BY <3>2 DEF IsInjective, Range
      <3>3. QED  BY <1>10, <3>1, <3>2
    <2>2. /\ lock \in {Free, h} /\ lock' = h /\ rep'[h].at # "idle"
          /\ rep'[h].at = "drop" => rep'[h].to \in Client
      BY <1>1, <1>6, <1>10, Zenon
    <2>3. QED  BY <1>5, <1>10, <2>1, <2>2, WalkersStep, Zenon DEF Inv
  <1>16. Handlers'
    <2> SUFFICES ASSUME NEW g \in Handler
                 PROVE  /\ req'[g].at # "idle" => req'[g].cl \in Client /\ g \in refs'[req'[g].cl]
                        /\ req'[g].at = "check" => req'[g].kind \in Kind
                        /\ rep'[g].at # "idle" => Walks(g)' /\ req'[g].at = "remove"
                        /\ rep'[g].at = "drop" => rep'[g].to # req'[g].cl
      BY Zenon DEF Handlers
    <2>1. /\ req[g].at # "idle" => req[g].cl \in Client /\ g \in refs[req[g].cl]
          /\ req[g].at = "check" => req[g].kind \in Kind
          /\ rep[g].at # "idle" => Walks(g) /\ req[g].at = "remove"
          /\ rep[g].at = "drop" => rep[g].to # req[g].cl
      BY Zenon DEF Inv, Handlers
    <2>2. req' = req /\ g \in Walker  BY <1>1, Sorts DEF clients
    <2>3. CASE g = h  BY <1>8, <1>10, <1>11, <2>1, <2>2, <2>3, Zenon DEF Walks
    <2>4. CASE g # h  BY <1>10, <1>11, <2>1, <2>2, <2>4 DEF Walks
    <2>5. QED  BY <2>3, <2>4, Zenon
  <1>17. Answers'  BY <1>1, <1>12, AnswersSame DEF Inv, clients
  <1>18. Told'
    <2>1. \A u \in Reporter : rep'[u] = rep[u]  BY <1>5, <1>10, Sorts
    <2>2. QED  BY <1>1, <1>11, <1>12, <2>1, ToldSame, Zenon DEF Inv
  <1>19. QED  BY <1>13, <1>14, <1>15, <1>16, <1>17, <1>18 DEF Inv

LEMMA TimeoutKeeps == ASSUME Inv, NEW s \in Slot, Timeout(s) PROVE Inv'
  <1>1. /\ s \in timer /\ lock = Free /\ rep[Worker].at = "idle" /\ refs[s[1]] # {}
        /\ lock' = Worker /\ refs' = [refs EXCEPT ![s[1]] = @ \cup {Worker}]
        /\ rep' = [rep EXCEPT ![Worker].at = "drop", ![Worker].to = s[1]]
        /\ MakeReport(s[1], s[2]) /\ Reset(s)
        /\ UNCHANGED <<final, changes, doomed, names, target, late, req, requests>>
    BY Zenon DEF Timeout
  <1>2. s \in active /\ s[1] \in Client  BY <1>1, SlotFacts DEF Inv, Shape
  <1>3. Worker \in Walker /\ Worker \in Thread /\ Worker \notin Handler \cup Reporter  BY Sorts
  <1>4. /\ rep' \in [Walker -> ReportRecord] /\ rep'[Worker].at = "drop"
        /\ rep'[Worker].to = s[1] /\ \A u \in Walker \ {Worker} : rep'[u] = rep[u]
    <2> DEFINE r == [rep[Worker] EXCEPT !.at = "drop", !.to = s[1]]
    <2>1. rep[Worker] \in ReportRecord /\ rep \in [Walker -> ReportRecord]
      BY <1>3 DEF Inv, Shape
    <2>2. r \in ReportRecord /\ r.at = "drop" /\ r.to = s[1]  BY <1>2, <2>1, Zenon DEF ReportRecord
    <2>3. rep' = [rep EXCEPT ![Worker] = r]  BY <1>1, <1>3, <2>1, Zenon
    <2> HIDE DEF r
    <2>4. QED  BY <1>3, <2>2, <2>3, RepChange, Zenon DEF Inv
  <1>5. References /\ \A d \in Client : refs[d] \subseteq refs'[d]
    BY <1>1, <1>2, <1>3, GainEffect, Zenon DEF Inv
  <1>6. Listed /\ active' = active \ {s}  BY <1>1, ResetEffect DEF Inv
  <1>7. Answers' /\ processing' \subseteq Client /\ owed' \in [Client -> Int]
    <2>1. s \notin active' /\ active' \subseteq active  BY <1>6
    <2>2. QED  BY <1>1, <1>2, <2>1, ReportEffect
  <1>8. Shape'  BY <1>1, <1>4, <1>5, <1>6, <1>7 DEF Inv, Shape, References, Listed
  <1>9. ListIsAlive'  BY <1>5, <1>6, StaysAlive DEF Inv
  <1>10. Walkers'
    <2>1. /\ lock \in {Free, Worker} /\ rep'[Worker].at # "idle"
          /\ rep'[Worker].at = "drop" => rep'[Worker].to \in Client
      BY <1>1, <1>2, <1>4
    <2>2. QED  BY <1>1, <1>3, <1>4, <2>1, WalkersStep, Zenon DEF Inv
  <1>11. \A u \in Handler \cup Reporter : rep'[u] = rep[u]  BY <1>3, <1>4, Sorts
  <1>12. Handlers'  BY <1>1, <1>5, <1>11, HandlersSame, Zenon DEF Inv
  <1>13. Told'  BY <1>1, <1>5, <1>6, <1>11, ToldSame, Zenon DEF Inv
  <1>14. QED  BY <1>7, <1>8, <1>9, <1>10, <1>12, <1>13 DEF Inv

-----------------------------------------------------------------------------
(* The theorems.                                                           *)

LEMMA InitInv == Init => Inv
  <1> SUFFICES ASSUME Init PROVE Inv  OBVIOUS
  <1>1. /\ refs = [c \in Client |-> {Main}] /\ doomed = [c \in Client |-> Free]
        /\ active = {} /\ timer = {} /\ ContainerWaiters = <<>> /\ lock = Free
        /\ names = [s \in Slot |-> {}] /\ late = [s \in Slot |-> {}]
        /\ req = [h \in Handler |-> NoRequest] /\ rep = [t \in Walker |-> NoReport]
        /\ processing = {} /\ owed = [c \in Client |-> 0]
    BY Zenon DEF Init
  <1>2. rep \in [Walker -> ReportRecord]
        /\ \A t \in Walker : rep[t].at = "idle" /\ rep[t].todo = <<>>
    BY <1>1, NoReportFacts
  <1>3. req \in [Handler -> RequestRecord] /\ \A h \in Handler : req[h].at = "idle"
    BY <1>1, NoRequestFacts
  <1>4. Shape  BY <1>1, <1>2, <1>3, Sorts DEF Shape
  <1>5. ListIsAlive  BY <1>1 DEF ListIsAlive, IsInjective, Range
  <1>6. Walkers  BY <1>2 DEF Walkers, Walks
  <1>7. Handlers  BY <1>2, <1>3, Sorts DEF Handlers
  <1>8. Answers  BY <1>1, <1>3 DEF Answers, AnsweredOnce, Asks
  <1>9. Told  BY <1>1 DEF Told
  <1>10. QED  BY <1>4, <1>5, <1>6, <1>7, <1>8, <1>9 DEF Inv

LEMMA StutterKeeps == ASSUME Inv, UNCHANGED vars PROVE Inv'
  <1>1. UNCHANGED <<final, changes, objects, waiters, lock, clients, rep>>
    BY DEF vars, objects, waiters, clients
  <1>2. References  BY <1>1, SameReferences DEF Inv
  <1>3. Shape'  BY <1>1, <1>2 DEF Inv, Shape, References, waiters, clients
  <1>4. ListIsAlive'  BY <1>1, <1>2, SameList, StaysAlive DEF Inv, waiters
  <1>5. Walkers'  BY <1>1, WalkersSame DEF Inv, waiters
  <1>6. Handlers'  BY <1>1, HandlersSame DEF Inv, objects, clients
  <1>7. Answers'  BY <1>1, AnswersSame DEF Inv, waiters, clients
  <1>8. Told'  BY <1>1, <1>2, ToldSame DEF Inv, waiters
  <1>9. QED  BY <1>3, <1>4, <1>5, <1>6, <1>7, <1>8 DEF Inv

LEMMA HandleKeeps == ASSUME Inv, NEW h \in Handler, Handle(h) PROVE Inv'
  <1>1. CASE CheckState(h)
    <2>1. /\ req[h].at = "check"
          /\ UNCHANGED <<final, changes, objects, waiters, lock, requests, rep>>
      BY <1>1, Zenon DEF CheckState
    <2>2. \/ req' = [req EXCEPT ![h].at = "end"] /\ Answer(req[h].cl)
          \/ /\ \E ct : req' = [req EXCEPT ![h].todo = @ \ {ct}]
             /\ UNCHANGED <<processing, owed>>
      BY <1>1, Zenon DEF CheckState
    <2>3. QED  BY <2>1, <2>2, ChecksKeep, Zenon
  <1>2. CASE DontWait(h)
    <2>1. /\ req[h].at = "check" /\ req' = [req EXCEPT ![h].at = "end"] /\ Answer(req[h].cl)
          /\ UNCHANGED <<final, changes, objects, waiters, lock, requests, rep>>
      BY <1>2, Zenon DEF DontWait
    <2>2. QED  BY <2>1, ChecksKeep, Zenon
  <1>3. CASE Activate(h)  BY <1>3, ActivateKeeps, Zenon
  <1>4. CASE FinishRequest(h)  BY <1>4, FinishRequestKeeps, Zenon
  <1>5. QED  BY <1>1, <1>2, <1>3, <1>4, Zenon DEF Handle

LEMMA WalkKeeps == ASSUME Inv, NEW t \in Walker, Walk(t) PROVE Inv'
  <1>1. CASE ReportNext(t)
    <2>1. t \in Reporter  BY <1>1, Zenon DEF ReportNext
    <2>2. QED  BY <1>1, <2>1, ReportNextKeeps, Zenon
  <1>2. CASE ReportDrop(t)  BY <1>2, ReportDropKeeps, Zenon
  <1>3. CASE ReportEnd(t)  BY <1>3, ReportEndKeeps, Zenon
  <1>4. CASE RemoveNext(t)
    <2>1. t \in Handler  BY <1>4, Zenon DEF RemoveNext
    <2>2. QED  BY <1>4, <2>1, RemoveNextKeeps, Zenon
  <1>5. CASE RemoveEnd(t)
    <2>1. t \in Handler  BY <1>5, Zenon DEF RemoveEnd
    <2>2. QED  BY <1>5, <2>1, RemoveEndKeeps, Zenon
  <1>6. QED  BY <1>1, <1>2, <1>3, <1>4, <1>5, Zenon DEF Walk

LEMMA InvKept == Inv /\ [Next]_vars => Inv'
  <1> SUFFICES ASSUME Inv, [Next]_vars PROVE Inv'  OBVIOUS
  <1>1. CASE UNCHANGED vars  BY <1>1, StutterKeeps, Zenon
  <1>2. ASSUME NEW c \in Client, Disconnect(c) PROVE Inv'  BY <1>2, DisconnectKeeps, Zenon
  <1>3. ASSUME NEW c \in Client, DestroyClient(c) PROVE Inv'
    BY <1>3, DestroyClientKeeps, Zenon
  <1>4. ASSUME NEW h \in Handler, Request(h) PROVE Inv'  BY <1>4, RequestKeeps, Zenon
  <1>5. ASSUME NEW h \in Handler, Handle(h) PROVE Inv'  BY <1>5, HandleKeeps, Zenon
  <1>6. ASSUME NEW t \in Reporter, SetState(t) PROVE Inv'  BY <1>6, SetStateKeeps, Zenon
  <1>7. ASSUME NEW t \in Walker, LockWaiters(t) PROVE Inv'  BY <1>7, LockWaitersKeeps, Zenon
  <1>8. ASSUME NEW t \in Walker, Walk(t) PROVE Inv'  BY <1>8, WalkKeeps, Zenon
  <1>9. ASSUME NEW s \in Slot, Timeout(s) PROVE Inv'  BY <1>9, TimeoutKeeps, Zenon
  <1>10. QED
    BY <1>1, <1>2, <1>3, <1>4, <1>5, <1>6, <1>7, <1>8, <1>9, Zenon DEF Next

(* The invariant holds: lists, references, requests and walks of           *)
(* waiter.cpp fit together after every step.                               *)
THEOREM InvHolds == Spec => []Inv
  BY InitInv, InvKept, PTL DEF Spec

(* ContainerWaiters holds raw pointers that ~TContainerWaiter takes out:   *)
(* every one is an active waiter of a client that is alive or just being   *)
(* destroyed, for any number of clients, threads and changes.              *)
THEOREM ListStaysAlive == Spec => []ListIsAlive
  <1>1. Inv => ListIsAlive  BY DEF Inv
  <1>2. QED  BY <1>1, InvHolds, PTL

(* A request is answered at most once, whether by CheckState, by a report  *)
(* of a state, by a timeout or by the removal of a waiter.                 *)
THEOREM EachIsAnsweredOnce == Spec => []AnsweredOnce
  <1>1. Inv => AnsweredOnce  BY DEF Inv, Answers
  <1>2. QED  BY <1>1, InvHolds, PTL

(* SetState and ReportAll on one side, Activate on the other lose nobody   *)
(* who waited when the container died.                                     *)
THEOREM WaitersAreTold == Spec => []ActiveIsTold
  <1>1. Inv => ActiveIsTold  BY Zenon DEF Inv, Told, ActiveIsTold
  <1>2. QED  BY <1>1, InvHolds, PTL
==============================================================================
