---------------------------- MODULE WaitersProofs ----------------------------
(***************************************************************************)
(* Proofs about Waiters: the inductive invariant, and that requests and    *)
(* the ends of clients keep it.                                            *)
(***************************************************************************)
EXTENDS Waiters, TLAPS

-----------------------------------------------------------------------------
(* Facts about lists.                                                      *)

LEMMA RemoveAtFacts ==
  ASSUME NEW S, NEW list \in Seq(S), IsInjective(list), NEW k \in DOMAIN list
  PROVE  LET rest == RemoveAt(list, k) IN
         /\ rest \in Seq(S) /\ IsInjective(rest)
         /\ Range(rest) = Range(list) \ {list[k]}
  <1> DEFINE rest == RemoveAt(list, k)
             n == Len(list)
  <1>1. n \in Nat /\ k \in 1..n /\ DOMAIN list = 1..n  OBVIOUS
  <1>2. /\ rest \in Seq(S) /\ Len(rest) = n - 1
        /\ \A i \in 1..(n-1) : rest[i] = IF i < k THEN list[i] ELSE list[i+1]
    <2> DEFINE front == SubSeq(list, 1, k-1)
               back == SubSeq(list, k+1, n)
    <2>1. front \in Seq(S) /\ Len(front) = k - 1 /\ \A i \in 1..(k-1) : front[i] = list[i]
      BY <1>1
    <2>2. back \in Seq(S) /\ Len(back) = n - k /\ \A i \in 1..(n-k) : back[i] = list[k+i]
      BY <1>1
    <2>3. rest = front \o back  BY DEF RemoveAt
    <2> HIDE DEF front, back, rest, n
    <2>4. /\ rest \in Seq(S) /\ Len(rest) = (k - 1) + (n - k)
          /\ \A i \in 1..((k-1) + (n-k)) :
               rest[i] = IF i <= k - 1 THEN front[i] ELSE back[i - (k-1)]
      BY <1>1, <2>1, <2>2, <2>3
    <2>5. ASSUME NEW i \in 1..(n-1), ~(i < k) PROVE rest[i] = list[i+1]
      <3>1. i - (k-1) \in 1..(n-k) /\ k + (i - (k-1)) = i + 1  BY <1>1, <2>5
      <3>2. QED  BY <1>1, <2>2, <2>4, <2>5, <3>1
    <2>6. QED  BY <1>1, <2>1, <2>4, <2>5
  <1>3. DOMAIN rest = 1..(n-1)  BY <1>1, <1>2
  <1> HIDE DEF rest, n
  <1>4. IsInjective(rest)
    <2> SUFFICES ASSUME NEW i \in 1..(n-1), NEW j \in 1..(n-1), rest[i] = rest[j] PROVE i = j
      BY <1>3 DEF IsInjective
    <2>1. \A a, b \in 1..n : list[a] = list[b] => a = b  BY <1>1 DEF IsInjective
    <2>2. QED  BY <1>1, <1>2, <2>1
  <1>5. Range(rest) \subseteq Range(list) \ {list[k]}
    <2> SUFFICES ASSUME NEW i \in 1..(n-1) PROVE rest[i] \in Range(list) \ {list[k]}
      BY <1>3 DEF Range
    <2>1. PICK j \in 1..n : j # k /\ rest[i] = list[j]
      <3>1. CASE i < k  BY <1>1, <1>2, <3>1
      <3>2. CASE ~(i < k)  BY <1>1, <1>2, <3>2
      <3>3. QED  BY <3>1, <3>2
    <2>2. QED  BY <1>1, <2>1 DEF IsInjective, Range
  <1>6. Range(list) \ {list[k]} \subseteq Range(rest)
    <2> SUFFICES ASSUME NEW j \in 1..n, list[j] # list[k] PROVE list[j] \in Range(rest)
      BY <1>1 DEF Range
    <2>1. \E i \in 1..(n-1) : rest[i] = list[j]
      <3>1. CASE j < k  BY <1>1, <1>2, <3>1
      <3>2. CASE j > k
        <4>1. j - 1 \in 1..(n-1) /\ ~(j - 1 < k) /\ (j - 1) + 1 = j  BY <1>1, <3>2
        <4>2. rest[j - 1] = list[j]  BY <1>2, <4>1
        <4>3. QED  BY <4>1, <4>2
      <3>3. QED  BY <1>1, <3>1, <3>2
    <2>2. QED  BY <1>3, <2>1 DEF Range
  <1>7. QED  BY <1>2, <1>4, <1>5, <1>6 DEF rest

LEMMA WithoutFacts ==
  ASSUME NEW S, NEW list \in Seq(S), IsInjective(list), NEW s
  PROVE  /\ Without(list, s) \in Seq(S) /\ IsInjective(Without(list, s))
         /\ Range(Without(list, s)) = Range(list) \ {s}
  <1>1. CASE s \notin Range(list)  BY <1>1 DEF Without
  <1>2. CASE s \in Range(list)
    <2> DEFINE k == CHOOSE i \in DOMAIN list : list[i] = s
    <2>1. k \in DOMAIN list /\ list[k] = s  BY <1>2 DEF Range
    <2>2. Without(list, s) = RemoveAt(list, k)  BY <1>2 DEF Without
    <2> HIDE DEF k
    <2>3. QED  BY <2>1, <2>2, RemoveAtFacts
  <1>3. QED  BY <1>1, <1>2

LEMMA AppendFacts ==
  ASSUME NEW S, NEW list \in Seq(S), IsInjective(list), NEW s \in S, s \notin Range(list)
  PROVE  /\ Append(list, s) \in Seq(S) /\ IsInjective(Append(list, s))
         /\ Range(Append(list, s)) = Range(list) \cup {s}
  <1> DEFINE longer == Append(list, s)
             n == Len(list)
  <1>1. /\ n \in Nat /\ DOMAIN list = 1..n /\ longer \in Seq(S) /\ DOMAIN longer = 1..(n+1)
        /\ longer[n+1] = s /\ \A i \in 1..n : longer[i] = list[i]
    OBVIOUS
  <1> HIDE DEF longer, n
  <1>2. \A i \in 1..n : list[i] # s  BY <1>1 DEF Range
  <1>3. IsInjective(longer)
    <2> SUFFICES ASSUME NEW i \in 1..(n+1), NEW j \in 1..(n+1), longer[i] = longer[j] PROVE i = j
      BY <1>1 DEF IsInjective
    <2>1. \A a, b \in 1..n : list[a] = list[b] => a = b  BY <1>1 DEF IsInjective
    <2>2. QED  BY <1>1, <1>2, <2>1
  <1>4. Range(longer) \subseteq Range(list) \cup {s}  BY <1>1 DEF Range
  <1>5. Range(list) \cup {s} \subseteq Range(longer)  BY <1>1 DEF Range
  <1>6. QED  BY <1>1, <1>3, <1>4, <1>5 DEF longer

LEMMA TailFacts ==
  ASSUME NEW S, NEW list \in Seq(S), IsInjective(list), list # <<>>
  PROVE  /\ Head(list) \in S /\ Head(list) \in Range(list)
         /\ Tail(list) \in Seq(S) /\ IsInjective(Tail(list))
         /\ Range(Tail(list)) = Range(list) \ {Head(list)}
  <1> DEFINE rest == Tail(list)
             n == Len(list)
  <1>1. /\ n \in Nat \ {0} /\ DOMAIN list = 1..n /\ Head(list) = list[1]
        /\ rest \in Seq(S) /\ DOMAIN rest = 1..(n-1)
        /\ \A i \in 1..(n-1) : rest[i] = list[i+1]
    OBVIOUS
  <1> HIDE DEF rest, n
  <1>2. \A a, b \in 1..n : list[a] = list[b] => a = b  BY <1>1, Zenon DEF IsInjective
  <1>3. IsInjective(rest)
    <2> SUFFICES ASSUME NEW i \in 1..(n-1), NEW j \in 1..(n-1), rest[i] = rest[j] PROVE i = j
      BY <1>1 DEF IsInjective
    <2>1. QED  BY <1>1, <1>2
  <1>4. Range(rest) \subseteq Range(list) \ {Head(list)}
    <2> SUFFICES ASSUME NEW i \in 1..(n-1) PROVE rest[i] \in Range(list) \ {list[1]}
      BY <1>1 DEF Range
    <2>1. i + 1 \in 1..n /\ i + 1 # 1 /\ rest[i] = list[i+1]  BY <1>1
    <2>2. QED  BY <1>1, <1>2, <2>1 DEF Range
  <1>5. Range(list) \ {Head(list)} \subseteq Range(rest)
    <2> SUFFICES ASSUME NEW j \in 1..n, j # 1 PROVE list[j] \in Range(rest)
      BY <1>1 DEF Range
    <2>1. j - 1 \in 1..(n-1) /\ (j - 1) + 1 = j  BY <1>1
    <2>2. rest[j - 1] = list[j]  BY <1>1, <2>1
    <2>3. QED  BY <1>1, <2>1, <2>2 DEF Range
  <1>6. list[1] \in Range(list) /\ list[1] \in S  BY <1>1 DEF Range
  <1>7. QED  BY <1>1, <1>3, <1>4, <1>5, <1>6 DEF rest

-----------------------------------------------------------------------------
(* The inductive invariant.                                                *)

RequestRecord ==
  [at : {"idle", "check", "remove", "end"}, cl : Client \cup {Free}, kind : Kind \cup {"stop"},
   todo : SUBSET Container, names : SUBSET Container, target : BOOLEAN]
ReportRecord ==
  [at : {"idle", "lock", "walk", "drop"}, ct : Container \cup {Free}, todo : Seq(Slot),
   to : Client \cup {Free}]

Shape ==
  /\ refs \in [Client -> SUBSET Thread] /\ doomed \in [Client -> Thread \cup {Free}]
  /\ active \subseteq Slot /\ timer \subseteq active
  /\ names \in [Slot -> SUBSET Container] /\ late \in [Slot -> SUBSET Container]
  /\ ContainerWaiters \in Seq(Slot)
  /\ req \in [Handler -> RequestRecord] /\ rep \in [Walker -> ReportRecord]
  /\ processing \subseteq Client /\ owed \in [Client -> Int]

(* Who walks over the list has the lock, and what is left of the walk is   *)
(* in the list.                                                            *)
Walks(t) == rep[t].at \in {"walk", "drop"}

Walkers ==
  \A t \in Walker :
    /\ rep[t].at = "idle" => rep[t].todo = <<>>
    /\ rep[t].at = "drop" => rep[t].to \in Client
    /\ Walks(t) => lock = t
    /\ Walks(t) /\ t # Worker =>
         IsInjective(rep[t].todo) /\ Range(rep[t].todo) \subseteq active

(* A request holds its client, also while it looks at others. *)
Handlers ==
  \A h \in Handler :
    /\ req[h].at # "idle" => req[h].cl \in Client /\ h \in refs[req[h].cl]
    /\ req[h].at = "check" => req[h].kind \in Kind
    /\ rep[h].at # "idle" => Walks(h) /\ req[h].at = "remove"
    /\ rep[h].at = "drop" => rep[h].to # req[h].cl

(* Nobody but a request before its answer, or else a synchronous waiter,   *)
(* owes the client an answer.                                              *)
Asks(h) == req[h].at \in {"check", "remove"}

Answers ==
  /\ AnsweredOnce
  /\ \A h \in Handler : Asks(h) =>
       /\ req[h].cl \in processing /\ <<req[h].cl, "sync">> \notin active
       /\ \A g \in Handler \ {h} : Asks(g) => req[g].cl # req[h].cl

(* Whom ReportAll has still to tell is in the rest of its walk. *)
Told ==
  \A c \in Client : <<c, "sync">> \in active /\ refs[c] # {} =>
    \A ct \in names[<<c, "sync">>] \cap final :
      \/ ct \in late[<<c, "sync">>]
      \/ \E t \in Reporter : /\ rep[t].ct = ct
                             /\ rep[t].at = "lock" \/ <<c, "sync">> \in Range(rep[t].todo)

Inv == Shape /\ ListIsAlive /\ Walkers /\ Handlers /\ Answers /\ Told

-----------------------------------------------------------------------------
(* Facts about the parts of a step.                                        *)

LEMMA Sorts ==
  /\ Handler \subseteq Walker /\ Reporter \subseteq Walker /\ Worker \in Walker
  /\ Walker \subseteq Thread /\ Main \in Thread /\ Main \notin Walker
  /\ Handler \cap Reporter = {} /\ Worker \notin Handler \cup Reporter
  /\ Free \notin Thread \cup Client \cup Container
  BY WaitersAssumption DEF Walker, Thread

LEMMA SlotFacts ==
  /\ \A s \in Slot : s[1] \in Client /\ s[2] \in Kind /\ s = <<s[1], s[2]>>
  /\ \A c \in Client, k \in Kind : <<c, k>> \in Slot /\ <<c, k>>[1] = c /\ <<c, k>>[2] = k
  BY DEF Slot

(* What a step may do to the references: nobody comes back to a client     *)
(* that has none, and the last one leaves the client to a destructor.      *)
References ==
  /\ refs' \in [Client -> SUBSET Thread] /\ doomed' \in [Client -> Thread \cup {Free}]
  /\ \A c \in Client :
       /\ refs'[c] # {} => refs[c] # {}
       /\ refs[c] # {} \/ doomed[c] # Free => refs'[c] # {} \/ doomed'[c] # Free

LEMMA SameReferences == ASSUME Shape, UNCHANGED objects PROVE References
  BY DEF Shape, References, objects

LEMMA DropEffect ==
  ASSUME Shape, NEW t \in Thread, NEW c \in Client, Drop(t, c)
  PROVE  /\ References
         /\ \A d \in Client, u \in Thread :
              u # t \/ d # c => (u \in refs[d] <=> u \in refs'[d])
  <1>1. /\ refs \in [Client -> SUBSET Thread] /\ doomed \in [Client -> Thread \cup {Free}]
        /\ refs' = [refs EXCEPT ![c] = @ \ {t}] /\ t # Free
    BY Sorts DEF Shape, Drop
  <1>2. refs' \in [Client -> SUBSET Thread] /\ refs'[c] = refs[c] \ {t}
    BY <1>1
  <1>3. \A d \in Client \ {c} : refs'[d] = refs[d]  BY <1>1
  <1>4. /\ doomed' \in [Client -> Thread \cup {Free}]
        /\ \A d \in Client \ {c} : doomed'[d] = doomed[d]
        /\ doomed'[c] = IF refs[c] = {t} THEN t ELSE doomed[c]
    <2>1. CASE refs[c] = {t}  BY <1>1, <2>1 DEF Drop
    <2>2. CASE refs[c] # {t}  BY <1>1, <2>2 DEF Drop
    <2>3. QED  BY <2>1, <2>2
  <1>5. ASSUME NEW d \in Client
        PROVE  /\ refs'[d] # {} => refs[d] # {}
               /\ refs[d] # {} \/ doomed[d] # Free => refs'[d] # {} \/ doomed'[d] # Free
    <2>1. CASE d # c  BY <1>3, <1>4, <2>1
    <2>2. CASE d = c  BY <1>1, <1>2, <1>4, <2>2
    <2>3. QED  BY <2>1, <2>2
  <1>6. QED  BY <1>2, <1>3, <1>4, <1>5 DEF References

LEMMA GainEffect ==
  ASSUME Shape, NEW t \in Thread, NEW c \in Client, refs[c] # {}, UNCHANGED doomed,
         refs' = [refs EXCEPT ![c] = @ \cup {t}]
  PROVE  References /\ t \in refs'[c] /\ \A d \in Client : refs[d] \subseteq refs'[d]
  <1>1. refs \in [Client -> SUBSET Thread] /\ doomed \in [Client -> Thread \cup {Free}]
    BY DEF Shape
  <1>2. /\ refs' \in [Client -> SUBSET Thread] /\ refs'[c] = refs[c] \cup {t}
        /\ \A d \in Client \ {c} : refs'[d] = refs[d]
    BY <1>1
  <1>3. QED  BY <1>1, <1>2 DEF References

(* The list. *)
Listed ==
  /\ active' \subseteq Slot /\ timer' \subseteq active' /\ ContainerWaiters' \in Seq(Slot)
  /\ IsInjective(ContainerWaiters') /\ Range(ContainerWaiters') = active'

LEMMA SameList ==
  ASSUME Shape, ListIsAlive, UNCHANGED <<active, timer, ContainerWaiters>> PROVE Listed
  BY DEF Shape, ListIsAlive, Listed

LEMMA ResetEffect ==
  ASSUME Shape, ListIsAlive, NEW s, Reset(s)
  PROVE  Listed /\ active' = active \ {s}
  <1>1. /\ ContainerWaiters \in Seq(Slot) /\ active \subseteq Slot /\ timer \subseteq active
        /\ IsInjective(ContainerWaiters) /\ Range(ContainerWaiters) = active
    BY DEF Shape, ListIsAlive
  <1>2. /\ ContainerWaiters' = Without(ContainerWaiters, s)
        /\ active' = active \ {s} /\ timer' = timer \ {s}
    BY DEF Reset
  <1>3. QED  BY <1>1, <1>2, WithoutFacts DEF Listed

LEMMA StaysAlive ==
  ASSUME Shape, ListIsAlive, Listed, References,
         \A s \in active' : s \in active \/ refs'[s[1]] # {} \/ doomed'[s[1]] # Free
  PROVE  ListIsAlive'
  <1>1. \A s \in active : refs[s[1]] # {} \/ doomed[s[1]] # Free  BY DEF ListIsAlive
  <1>2. \A s \in active' : s[1] \in Client  BY SlotFacts DEF Listed
  <1>3. \A s \in active' : refs'[s[1]] # {} \/ doomed'[s[1]] # Free
    BY <1>1, <1>2 DEF References
  <1>4. QED  BY <1>3 DEF ListIsAlive, Listed

-----------------------------------------------------------------------------
(* What leaves a part of the invariant alone.                              *)

LEMMA WalkersSame ==
  ASSUME Walkers, UNCHANGED <<rep, lock>>, lock = Free \/ active \subseteq active'
  PROVE  Walkers'
  <1> SUFFICES ASSUME NEW t \in Walker
               PROVE  /\ rep'[t].at = "idle" => rep'[t].todo = <<>>
                      /\ rep'[t].at = "drop" => rep'[t].to \in Client
                      /\ Walks(t)' => lock' = t
                      /\ Walks(t)' /\ t # Worker =>
                           IsInjective(rep'[t].todo) /\ Range(rep'[t].todo) \subseteq active'
    BY DEF Walkers
  <1>1. t # Free  BY Sorts
  <1>2. QED  BY <1>1 DEF Walkers, Walks

LEMMA HandlersSame ==
  ASSUME Handlers, UNCHANGED req, \A h \in Handler : rep'[h] = rep[h],
         \A h \in Handler, c \in Client : h \in refs[c] => h \in refs'[c]
  PROVE  Handlers'
  BY DEF Handlers, Walks

LEMMA AnswersSame ==
  ASSUME Answers, UNCHANGED <<req, processing, owed>>, active' \subseteq active
  PROVE  Answers'
  BY DEF Answers, AnsweredOnce, Asks

LEMMA ToldSame ==
  ASSUME Told, References, UNCHANGED <<final, names, late>>, active' \subseteq active,
         \A t \in Reporter : /\ rep'[t].ct = rep[t].ct /\ rep'[t].todo = rep[t].todo
                             /\ rep[t].at = "lock" => rep'[t].at = "lock"
  PROVE  Told'
  BY DEF Told, References

-----------------------------------------------------------------------------
(* Every step keeps the invariant.                                         *)

LEMMA DisconnectKeeps == ASSUME Inv, NEW c \in Client, Disconnect(c) PROVE Inv'
  <1>1. Drop(Main, c) /\ UNCHANGED <<final, changes, waiters, lock, clients, rep>>
    BY Zenon DEF Disconnect
  <1>2. /\ References
        /\ \A h \in Handler, d \in Client : h \in refs[d] => h \in refs'[d]
    BY <1>1, DropEffect, Sorts DEF Inv
  <1>3. Shape'  BY <1>1, <1>2 DEF Inv, Shape, References, waiters, clients
  <1>4. ListIsAlive'  BY <1>1, <1>2, SameList, StaysAlive DEF Inv, waiters
  <1>5. Walkers'  BY <1>1, WalkersSame DEF Inv, waiters
  <1>6. Handlers'  BY <1>1, <1>2, HandlersSame DEF Inv, clients
  <1>7. Answers'  BY <1>1, AnswersSame DEF Inv, waiters, clients
  <1>8. Told'  BY <1>1, <1>2, ToldSame DEF Inv, waiters
  <1>9. QED  BY <1>3, <1>4, <1>5, <1>6, <1>7, <1>8 DEF Inv

LEMMA DestroyClientKeeps == ASSUME Inv, NEW c \in Client, DestroyClient(c) PROVE Inv'
  <1> DEFINE gone == {<<c, "sync">>, <<c, "async">>}
             shorter == Without(ContainerWaiters, <<c, "sync">>)
  <1>1. /\ gone \cap active # {} => lock = Free
        /\ active' = active \ gone /\ timer' = timer \ gone
        /\ doomed' = [doomed EXCEPT ![c] = Free]
        /\ ContainerWaiters' = Without(shorter, <<c, "async">>)
        /\ UNCHANGED <<final, changes, refs, names, target, late, lock, clients, rep>>
    BY DEF DestroyClient, Kind
  <1>2. /\ ContainerWaiters \in Seq(Slot) /\ active \subseteq Slot /\ timer \subseteq active
        /\ IsInjective(ContainerWaiters) /\ Range(ContainerWaiters) = active
    BY DEF Inv, Shape, ListIsAlive
  <1>3. Listed
    <2>1. /\ shorter \in Seq(Slot) /\ IsInjective(shorter)
          /\ Range(shorter) = active \ {<<c, "sync">>}
      BY <1>2, WithoutFacts
    <2> HIDE DEF shorter
    <2>2. /\ ContainerWaiters' \in Seq(Slot) /\ IsInjective(ContainerWaiters')
          /\ Range(ContainerWaiters') = (active \ {<<c, "sync">>}) \ {<<c, "async">>}
      <3>1. ContainerWaiters' = Without(shorter, <<c, "async">>)  BY <1>1
      <3>2. QED  BY <2>1, <3>1, WithoutFacts
    <2>3. QED  BY <1>1, <1>2, <2>2 DEF Listed
  <1>4. /\ refs \in [Client -> SUBSET Thread] /\ doomed \in [Client -> Thread \cup {Free}]
        /\ UNCHANGED refs /\ doomed' \in [Client -> Thread \cup {Free}]
        /\ \A d \in Client \ {c} : doomed'[d] = doomed[d]
    BY <1>1 DEF Inv, Shape
  <1>5. Shape'  BY <1>1, <1>3, <1>4 DEF Inv, Shape, Listed, clients
  <1>6. ListIsAlive'
    <2>1. \A s \in active' : s \in active /\ s[1] \in Client /\ s[1] # c
      BY <1>1, <1>2 DEF Slot, Kind
    <2>2. \A s \in active : refs[s[1]] # {} \/ doomed[s[1]] # Free  BY DEF Inv, ListIsAlive
    <2>3. \A s \in active' : refs'[s[1]] # {} \/ doomed'[s[1]] # Free  BY <1>4, <2>1, <2>2
    <2>4. QED  BY <1>3, <2>3 DEF ListIsAlive, Listed
  <1>7. Walkers'
    <2>1. lock = Free \/ active \subseteq active'  BY <1>1
    <2>2. QED  BY <1>1, <2>1, WalkersSame DEF Inv
  <1>8. Handlers'  BY <1>1, HandlersSame DEF Inv, clients
  <1>9. Answers'  BY <1>1, AnswersSame DEF Inv, clients
  <1>10. Told'  BY <1>1 DEF Inv, Told
  <1>11. QED  BY <1>5, <1>6, <1>7, <1>8, <1>9, <1>10 DEF Inv

(* The answer to a request or to a synchronous wait, which is then over. *)
LEMMA AnswerEffect ==
  ASSUME Shape, Answers, NEW c \in processing, Answer(c),
         <<c, "sync">> \notin active',
         \A d \in Client : <<d, "sync">> \in active' => <<d, "sync">> \in active,
         \A h \in Handler : Asks(h)' => Asks(h) /\ req'[h].cl = req[h].cl /\ req[h].cl # c
  PROVE  Answers' /\ processing' \subseteq Client /\ owed' \in [Client -> Int]
  <1>1. /\ processing \subseteq Client /\ owed \in [Client -> Int] /\ c \in Client
        /\ processing' = processing \ {c} /\ owed' = [owed EXCEPT ![c] = @ - 1]
    BY DEF Shape, Answer
  <1>2. /\ owed' \in [Client -> Int] /\ owed'[c] = owed[c] - 1
        /\ \A d \in Client \ {c} : owed'[d] = owed[d]
    BY <1>1
  <1>3. AnsweredOnce'
    <2> SUFFICES ASSUME NEW d \in Client
                 PROVE  /\ owed'[d] = IF d \in processing' THEN 1 ELSE 0
                        /\ <<d, "sync">> \in active' => d \in processing'
      BY Zenon DEF AnsweredOnce
    <2>1. /\ owed[d] = IF d \in processing THEN 1 ELSE 0
          /\ <<d, "sync">> \in active => d \in processing
      BY DEF Answers, AnsweredOnce
    <2>2. CASE d = c  BY <1>1, <1>2, <2>1, <2>2
    <2>3. CASE d # c  BY <1>1, <1>2, <2>1, <2>3
    <2>4. QED  BY <2>2, <2>3
  <1>4. ASSUME NEW h \in Handler, Asks(h)'
        PROVE  /\ req'[h].cl \in processing' /\ <<req'[h].cl, "sync">> \notin active'
               /\ \A g \in Handler \ {h} : Asks(g)' => req'[g].cl # req'[h].cl
    <2>1. /\ req[h].cl \in processing /\ <<req[h].cl, "sync">> \notin active
          /\ \A g \in Handler \ {h} : Asks(g) => req[g].cl # req[h].cl
          /\ req'[h].cl = req[h].cl /\ req[h].cl # c
      BY <1>4 DEF Answers
    <2>2. QED  BY <1>1, <2>1
  <1>5. QED  BY <1>1, <1>2, <1>3, <1>4 DEF Answers

LEMMA ReqChange ==
  ASSUME Shape, NEW h \in Handler, NEW at \in {"idle", "check", "remove", "end"},
         req' = [req EXCEPT ![h].at = at]
  PROVE  /\ req' \in [Handler -> RequestRecord]
         /\ req'[h].at = at /\ req'[h].cl = req[h].cl /\ req'[h].kind = req[h].kind
         /\ \A g \in Handler \ {h} : req'[g] = req[g]
  <1> DEFINE r == [req[h] EXCEPT !.at = at]
  <1>1. req \in [Handler -> RequestRecord] /\ req' = [req EXCEPT ![h] = r]  BY Zenon DEF Shape
  <1>2. req[h] \in RequestRecord  BY <1>1
  <1>3. r \in RequestRecord  BY <1>2 DEF RequestRecord
  <1>4. r.at = at /\ r.cl = req[h].cl /\ r.kind = req[h].kind  BY <1>2 DEF RequestRecord
  <1> HIDE DEF r
  <1>5. QED  BY <1>1, <1>3, <1>4

(* A request that has got its answer. *)
LEMMA EndsEffect ==
  ASSUME Inv, NEW h \in Handler, Asks(h), Answer(req[h].cl),
         \A d \in Client : <<d, "sync">> \in active' => <<d, "sync">> \in active,
         req' = [req EXCEPT ![h].at = "end"]
  PROVE  Answers' /\ processing' \subseteq Client /\ owed' \in [Client -> Int]
  <1>1. /\ req'[h].at = "end" /\ \A g \in Handler \ {h} : req'[g] = req[g]
    BY ReqChange, Zenon DEF Inv
  <1>2. /\ req[h].cl \in processing /\ <<req[h].cl, "sync">> \notin active
        /\ \A g \in Handler \ {h} : Asks(g) => req[g].cl # req[h].cl
    BY DEF Inv, Answers
  <1>3. \A g \in Handler : Asks(g)' => Asks(g) /\ req'[g].cl = req[g].cl /\ req[g].cl # req[h].cl
    BY <1>1, <1>2 DEF Asks
  <1>4. req[h].cl \in Client  BY <1>2 DEF Inv, Shape
  <1>5. QED  BY <1>2, <1>3, <1>4, AnswerEffect, Zenon DEF Inv

LEMMA RequestKeeps == ASSUME Inv, NEW h \in Handler, Request(h) PROVE Inv'
  <1>0. PICK c \in Client, k \in Kinds, ns \in (SUBSET Container) \ {{}}, tg \in Targets :
          Receive(h, c, k, ns, tg)
    BY Zenon DEF Request
  <1>1. /\ Main \in refs[c] /\ c \notin processing
        /\ req' = [req EXCEPT ![h] = [at |-> IF k = "stop" THEN "remove" ELSE "check", cl |-> c,
                                      kind |-> k, todo |-> ns, names |-> ns, target |-> tg]]
        /\ processing' = processing \cup {c}
        /\ owed' = [owed EXCEPT ![c] = @ + 1]
        /\ refs' = [refs EXCEPT ![c] = @ \cup {h}]
    BY <1>0, Zenon DEF Receive
  <1>2. /\ req[h].at = "idle" /\ UNCHANGED <<final, changes, doomed, waiters, lock, rep>>
    BY Zenon DEF Request
  <1>3. /\ req' \in [Handler -> RequestRecord]
        /\ req'[h].at = (IF k = "stop" THEN "remove" ELSE "check")
        /\ req'[h].cl = c /\ req'[h].kind = k
        /\ \A g \in Handler \ {h} : req'[g] = req[g]
    <2> DEFINE r == [at |-> IF k = "stop" THEN "remove" ELSE "check", cl |-> c,
                     kind |-> k, todo |-> ns, names |-> ns, target |-> tg]
    <2>1. tg \in BOOLEAN /\ k \in Kind \cup {"stop"}  BY WaitersAssumption
    <2>2. r \in RequestRecord  BY <2>1 DEF RequestRecord
    <2>3. r.at = (IF k = "stop" THEN "remove" ELSE "check") /\ r.cl = c /\ r.kind = k  OBVIOUS
    <2>4. req \in [Handler -> RequestRecord] /\ req' = [req EXCEPT ![h] = r]
      BY <1>1, Zenon DEF Inv, Shape
    <2> HIDE DEF r
    <2>5. QED  BY <2>2, <2>3, <2>4
  <1>4. /\ References /\ h \in refs'[c] /\ \A d \in Client : refs[d] \subseteq refs'[d]
    <2>1. h \in Thread /\ refs[c] # {}  BY <1>1, Sorts
    <2>2. QED  BY <1>1, <1>2, <2>1, GainEffect, Zenon DEF Inv
  <1>5. /\ processing \subseteq Client /\ owed \in [Client -> Int]
        /\ owed' \in [Client -> Int] /\ owed'[c] = owed[c] + 1
        /\ \A d \in Client \ {c} : owed'[d] = owed[d]
    BY <1>1 DEF Inv, Shape
  <1>6. Shape'
    BY <1>1, <1>2, <1>3, <1>4, <1>5 DEF Inv, Shape, References, waiters
  <1>7. ListIsAlive'  BY <1>2, <1>4, SameList, StaysAlive DEF Inv, waiters
  <1>8. Walkers'  BY <1>2, WalkersSame DEF Inv, waiters
  <1>9. Handlers'
    <2>1. rep[h].at = "idle"  BY <1>2 DEF Inv, Handlers
    <2> SUFFICES ASSUME NEW g \in Handler
                 PROVE  /\ req'[g].at # "idle" => req'[g].cl \in Client /\ g \in refs'[req'[g].cl]
                        /\ req'[g].at = "check" => req'[g].kind \in Kind
                        /\ rep'[g].at # "idle" => Walks(g)' /\ req'[g].at = "remove"
                        /\ rep'[g].at = "drop" => rep'[g].to # req'[g].cl
      BY Zenon DEF Handlers
    <2>2. CASE g = h
      <3>1. k # "stop" => k \in Kind  BY WaitersAssumption
      <3>2. QED  BY <1>2, <1>3, <1>4, <2>1, <2>2, <3>1
    <2>3. CASE g # h
      <3>1. /\ req[g].at # "idle" => req[g].cl \in Client /\ g \in refs[req[g].cl]
            /\ req[g].at = "check" => req[g].kind \in Kind
            /\ rep[g].at # "idle" => Walks(g) /\ req[g].at = "remove"
            /\ rep[g].at = "drop" => rep[g].to # req[g].cl
        BY Zenon DEF Inv, Handlers
      <3>2. QED  BY <1>2, <1>3, <1>4, <2>3, <3>1 DEF Walks
    <2>4. QED  BY <2>2, <2>3
  <1>10. Answers'
    <2>1. AnsweredOnce /\ active' = active  BY <1>2 DEF Inv, Answers, waiters
    <2>2. ASSUME NEW d \in Client
          PROVE  /\ owed'[d] = IF d \in processing' THEN 1 ELSE 0
                 /\ <<d, "sync">> \in active' => d \in processing'
      <3>1. /\ owed[d] = IF d \in processing THEN 1 ELSE 0
            /\ <<d, "sync">> \in active => d \in processing
        BY <2>1, Zenon DEF AnsweredOnce
      <3>2. QED  BY <1>1, <1>5, <2>1, <3>1
    <2>2a. AnsweredOnce'  BY <2>2, Zenon DEF AnsweredOnce
    <2>3. <<c, "sync">> \notin active  BY <1>1, <2>1 DEF AnsweredOnce
    <2>4. \A g \in Handler : Asks(g) =>
            /\ req[g].cl \in processing /\ <<req[g].cl, "sync">> \notin active
            /\ \A f \in Handler \ {g} : Asks(f) => req[f].cl # req[g].cl
      BY DEF Inv, Answers
    <2>5. \A g \in Handler \ {h} : Asks(g)' => Asks(g) /\ req'[g].cl = req[g].cl /\ req[g].cl # c
      BY <1>1, <1>3, <2>4, Zenon DEF Asks
    <2>6. QED  BY <1>1, <1>3, <2>1, <2>2a, <2>3, <2>4, <2>5 DEF Answers
  <1>11. Told'  BY <1>2, <1>4, ToldSame DEF Inv, waiters
  <1>12. QED  BY <1>6, <1>7, <1>8, <1>9, <1>10, <1>11 DEF Inv

(* Only the place of a request changes, and not back to idle. *)
LEMMA MovesOn ==
  ASSUME Inv, NEW h \in Handler, req[h].at # "idle", rep'[h].at = "idle",
         req' \in [Handler -> RequestRecord], req'[h].at \in {req[h].at, "end"},
         req'[h].cl = req[h].cl, req'[h].kind = req[h].kind,
         \A g \in Handler \ {h} : req'[g] = req[g] /\ rep'[g] = rep[g], UNCHANGED refs
  PROVE  Handlers'
  <1> SUFFICES ASSUME NEW g \in Handler
               PROVE  /\ req'[g].at # "idle" => req'[g].cl \in Client /\ g \in refs'[req'[g].cl]
                      /\ req'[g].at = "check" => req'[g].kind \in Kind
                      /\ rep'[g].at # "idle" => Walks(g)' /\ req'[g].at = "remove"
                      /\ rep'[g].at = "drop" => rep'[g].to # req'[g].cl
    BY Zenon DEF Handlers
  <1>1. /\ req[g].at # "idle" => req[g].cl \in Client /\ g \in refs[req[g].cl]
        /\ req[g].at = "check" => req[g].kind \in Kind
        /\ rep[g].at # "idle" => Walks(g) /\ req[g].at = "remove"
        /\ rep[g].at = "drop" => rep[g].to # req[g].cl
    BY Zenon DEF Inv, Handlers
  <1>2. CASE g = h  BY <1>1, <1>2
  <1>3. CASE g # h  BY <1>1, <1>3 DEF Walks
  <1>4. QED  BY <1>2, <1>3

LEMMA IdleWhileChecks ==
  ASSUME Inv, NEW h \in Handler, req[h].at = "check" PROVE rep[h].at = "idle" /\ Asks(h)
  BY DEF Inv, Handlers, Asks

(* CheckState and DontWait. *)
LEMMA ChecksKeep ==
  ASSUME Inv, NEW h \in Handler, req[h].at = "check",
         UNCHANGED <<final, changes, objects, waiters, lock, requests, rep>>,
         \/ req' = [req EXCEPT ![h].at = "end"] /\ Answer(req[h].cl)
         \/ /\ \E ct : req' = [req EXCEPT ![h].todo = @ \ {ct}]
            /\ UNCHANGED <<processing, owed>>
  PROVE  Inv'
  <1>1. rep[h].at = "idle" /\ Asks(h)  BY IdleWhileChecks
  <1>2. /\ req' \in [Handler -> RequestRecord]
        /\ req'[h].at \in {req[h].at, "end"}
        /\ req'[h].cl = req[h].cl /\ req'[h].kind = req[h].kind
        /\ \A g \in Handler \ {h} : req'[g] = req[g]
    <2>1. CASE req' = [req EXCEPT ![h].at = "end"]  BY <2>1, ReqChange, Zenon DEF Inv
    <2>2. CASE \E ct : req' = [req EXCEPT ![h].todo = @ \ {ct}]
      <3>1. PICK ct : req' = [req EXCEPT ![h].todo = @ \ {ct}]  BY <2>2, Zenon
      <3> DEFINE r == [req[h] EXCEPT !.todo = @ \ {ct}]
      <3>2. req \in [Handler -> RequestRecord] /\ req' = [req EXCEPT ![h] = r]
        BY <3>1, Zenon DEF Inv, Shape
      <3>3. req[h] \in RequestRecord  BY <3>2
      <3>4. r \in RequestRecord /\ r.at = req[h].at /\ r.cl = req[h].cl /\ r.kind = req[h].kind
        BY <3>3 DEF RequestRecord
      <3> HIDE DEF r
      <3>5. QED  BY <3>2, <3>4
    <2>3. QED  BY <2>1, <2>2
  <1>3. Answers' /\ processing' \subseteq Client /\ owed' \in [Client -> Int]
    <2>1. CASE req' = [req EXCEPT ![h].at = "end"] /\ Answer(req[h].cl)
      BY <1>1, <2>1, EndsEffect, Zenon DEF waiters
    <2>2. CASE UNCHANGED <<processing, owed>> /\ req'[h].at = req[h].at
      <3>1. processing' \subseteq Client /\ owed' \in [Client -> Int]  BY <2>2 DEF Inv, Shape
      <3>2. UNCHANGED active  BY DEF waiters
      <3>3. \A g \in Handler : (Asks(g)' <=> Asks(g)) /\ req'[g].cl = req[g].cl
        BY <1>2, <2>2 DEF Asks
      <3>4. Answers'  BY <2>2, <3>2, <3>3 DEF Inv, Answers, AnsweredOnce
      <3>5. QED  BY <3>1, <3>4
    <2>3. CASE \E ct : req' = [req EXCEPT ![h].todo = @ \ {ct}]
      BY <2>2, <2>3 DEF Inv, Shape, RequestRecord
    <2>4. QED  BY <2>1, <2>2, <2>3, Zenon
  <1>4. References  BY SameReferences DEF Inv
  <1>5. Shape'  BY <1>2, <1>3, <1>4 DEF Inv, Shape, References, waiters
  <1>6. ListIsAlive'  BY <1>4, SameList, StaysAlive DEF Inv, waiters
  <1>7. Walkers'  BY WalkersSame DEF Inv, waiters
  <1>8. Handlers'  BY <1>1, <1>2, MovesOn DEF objects
  <1>9. Told'  BY <1>4, ToldSame DEF Inv, waiters
  <1>10. QED  BY <1>3, <1>5, <1>6, <1>7, <1>8, <1>9 DEF Inv

LEMMA ActivateKeeps == ASSUME Inv, NEW h \in Handler, Activate(h) PROVE Inv'
  <1> DEFINE c == req[h].cl
             s == <<req[h].cl, req[h].kind>>
  <1>1. req[h].at = "check" /\ lock = Free  BY Zenon DEF Activate
  <1>2. /\ active' = active \cup {s} /\ names' = [names EXCEPT ![s] = req[h].names]
        /\ late' = [late EXCEPT ![s] = req[h].names \cap final]
        /\ ContainerWaiters' = Append(Without(ContainerWaiters, s), s)
        /\ req' = [req EXCEPT ![h].at = "end"]
        /\ UNCHANGED <<final, changes, objects, lock, requests, rep>>
    BY Zenon DEF Activate
  <1>3. timer' \subseteq timer \cup {s}  BY DEF Activate
  <1>4. IF req[h].kind = "async" THEN Answer(c) ELSE UNCHANGED <<processing, owed>>
    BY Zenon DEF Activate
  <1>5. c \in Client /\ h \in refs[c] /\ req[h].kind \in Kind
    BY <1>1, Zenon DEF Inv, Handlers
  <1>6. s \in Slot /\ s[1] = c /\ s[2] = req[h].kind  BY <1>5, SlotFacts
  <1>7. rep[h].at = "idle" /\ Asks(h)  BY <1>1, IdleWhileChecks
  <1>8. /\ req' \in [Handler -> RequestRecord]
        /\ req'[h].at = "end" /\ req'[h].cl = req[h].cl /\ req'[h].kind = req[h].kind
        /\ \A g \in Handler \ {h} : req'[g] = req[g]
    BY <1>2, ReqChange, Zenon DEF Inv
  <1>9. req[h].names \subseteq Container
    <2>1. req[h] \in RequestRecord  BY DEF Inv, Shape
    <2>2. QED  BY <2>1 DEF RequestRecord
  <1> HIDE DEF s, c
  <1>10. Listed
    <2>1. /\ ContainerWaiters \in Seq(Slot) /\ active \subseteq Slot /\ timer \subseteq active
          /\ IsInjective(ContainerWaiters) /\ Range(ContainerWaiters) = active
      BY DEF Inv, Shape, ListIsAlive
    <2> DEFINE shorter == Without(ContainerWaiters, s)
    <2>2. shorter \in Seq(Slot) /\ IsInjective(shorter) /\ Range(shorter) = active \ {s}
      BY <2>1, WithoutFacts
    <2>3. ContainerWaiters' = Append(shorter, s)  BY <1>2
    <2> HIDE DEF shorter
    <2>4. /\ ContainerWaiters' \in Seq(Slot) /\ IsInjective(ContainerWaiters')
          /\ Range(ContainerWaiters') = (active \ {s}) \cup {s}
      BY <1>6, <2>2, <2>3, AppendFacts
    <2>5. QED  BY <1>2, <1>3, <1>6, <2>1, <2>4 DEF Listed
  <1>11. References  BY <1>2, SameReferences DEF Inv
  <1>12. Answers' /\ processing' \subseteq Client /\ owed' \in [Client -> Int]
    <2>0. /\ c \in processing /\ <<c, "sync">> \notin active
          /\ \A g \in Handler \ {h} : Asks(g) => req[g].cl # c
      BY <1>7 DEF Inv, Answers, c
    <2>1. CASE req[h].kind = "async"
      <3>1. s = <<c, "async">>  BY <2>1 DEF s, c
      <3>2. \A d \in Client : <<d, "sync">> \in active' => <<d, "sync">> \in active
        BY <1>2, <3>1
      <3>3. Answer(c)  BY <1>4, <2>1
      <3>4. QED  BY <1>2, <1>7, <3>2, <3>3, EndsEffect, Zenon DEF c
    <2>2. CASE req[h].kind # "async"
      <3>1. s = <<c, "sync">>  BY <1>5, <2>2 DEF s, c, Kind
      <3>2. UNCHANGED <<processing, owed>>  BY <1>4, <2>2
      <3>3. ASSUME NEW d \in Client
            PROVE  /\ owed'[d] = IF d \in processing' THEN 1 ELSE 0
                   /\ <<d, "sync">> \in active' => d \in processing'
        <4>1. /\ owed[d] = IF d \in processing THEN 1 ELSE 0
              /\ <<d, "sync">> \in active => d \in processing
          BY Zenon DEF Inv, Answers, AnsweredOnce
        <4>2. QED  BY <1>2, <2>0, <3>1, <3>2, <4>1
      <3>4. AnsweredOnce'  BY <3>3, Zenon DEF AnsweredOnce
      <3>5. ASSUME NEW g \in Handler, Asks(g)'
            PROVE  /\ req'[g].cl \in processing' /\ <<req'[g].cl, "sync">> \notin active'
                   /\ \A f \in Handler \ {g} : Asks(f)' => req'[f].cl # req'[g].cl
        <4>1. g # h /\ Asks(g) /\ req'[g] = req[g]  BY <1>8, <3>5 DEF Asks
        <4>2. /\ req[g].cl \in processing /\ <<req[g].cl, "sync">> \notin active
              /\ \A f \in Handler \ {g} : Asks(f) => req[f].cl # req[g].cl
          BY <4>1, Zenon DEF Inv, Answers
        <4>3. \A f \in Handler : Asks(f)' => Asks(f) /\ req'[f] = req[f]  BY <1>8 DEF Asks
        <4>4. req[g].cl # c  BY <2>0, <4>1
        <4>5. QED  BY <1>2, <3>1, <3>2, <4>1, <4>2, <4>3, <4>4
      <3>6. QED  BY <3>2, <3>4, <3>5 DEF Inv, Shape, Answers
    <2>3. QED  BY <2>1, <2>2
  <1>13. /\ names' \in [Slot -> SUBSET Container] /\ late' \in [Slot -> SUBSET Container]
         /\ names'[s] = req[h].names /\ late'[s] = req[h].names \cap final
         /\ \A r \in Slot \ {s} : names'[r] = names[r] /\ late'[r] = late[r]
    BY <1>2, <1>6, <1>9 DEF Inv, Shape
  <1>14. Shape'  BY <1>2, <1>8, <1>10, <1>11, <1>12, <1>13 DEF Inv, Shape, References, Listed
  <1>15. ListIsAlive'
    <2>1. refs' = refs  BY <1>2 DEF objects
    <2>2. \A r \in active' : r \in active \/ refs'[r[1]] # {}  BY <1>2, <1>5, <1>6, <2>1
    <2>3. QED  BY <1>10, <1>11, <2>2, StaysAlive DEF Inv
  <1>16. Walkers'  BY <1>1, <1>2, WalkersSame DEF Inv
  <1>17. Handlers'  BY <1>1, <1>2, <1>7, <1>8, MovesOn DEF objects
  <1>18. Told'
    <2> SUFFICES ASSUME NEW d \in Client, <<d, "sync">> \in active', refs'[d] # {},
                        NEW ct \in names'[<<d, "sync">>] \cap final'
                 PROVE  \/ ct \in late'[<<d, "sync">>]
                        \/ \E t \in Reporter :
                             /\ rep'[t].ct = ct
                             /\ rep'[t].at = "lock" \/ <<d, "sync">> \in Range(rep'[t].todo)
      BY Zenon DEF Told
    <2>1. CASE <<d, "sync">> = s  BY <1>2, <1>13, <2>1
    <2>2. CASE <<d, "sync">> # s
      <3>1. <<d, "sync">> \in active /\ <<d, "sync">> \in Slot /\ refs[d] # {}
        BY <1>2, <2>2 DEF Inv, Shape, objects
      <3>2. ct \in names[<<d, "sync">>] \cap final /\ late'[<<d, "sync">>] = late[<<d, "sync">>]
        BY <1>2, <1>13, <2>2, <3>1
      <3>3. \/ ct \in late[<<d, "sync">>]
            \/ \E t \in Reporter : /\ rep[t].ct = ct
                                   /\ rep[t].at = "lock" \/ <<d, "sync">> \in Range(rep[t].todo)
        BY <3>1, <3>2, Zenon DEF Inv, Told
      <3>4. rep' = rep  BY <1>2
      <3>5. QED  BY <3>2, <3>3, <3>4, Zenon
    <2>3. QED  BY <2>1, <2>2
  <1>19. QED  BY <1>12, <1>14, <1>15, <1>16, <1>17, <1>18 DEF Inv

LEMMA NoRequestFacts == NoRequest \in RequestRecord /\ NoRequest.at = "idle"
  <1>1. ASSUME NEW b \in BOOLEAN
        PROVE  LET r == [at |-> "idle", cl |-> Free, kind |-> "sync", todo |-> {}, names |-> {},
                         target |-> b]
               IN  r \in RequestRecord /\ r.at = "idle"
    BY DEF RequestRecord, Kind
  <1>2. FALSE \in BOOLEAN  BY Zenon
  <1>3. QED  BY <1>1, <1>2, Zenon DEF NoRequest

LEMMA FinishRequestKeeps == ASSUME Inv, NEW h \in Handler, FinishRequest(h) PROVE Inv'
  <1>1. /\ req[h].at = "end" /\ Drop(h, req[h].cl) /\ req' = [req EXCEPT ![h] = NoRequest]
        /\ UNCHANGED <<final, changes, waiters, lock, processing, owed, requests, rep>>
    BY Zenon DEF FinishRequest
  <1>2. rep[h].at = "idle" /\ req[h].cl \in Client  BY <1>1 DEF Inv, Handlers
  <1>3. /\ References
        /\ \A g \in Handler \ {h}, d \in Client : g \in refs[d] => g \in refs'[d]
    BY <1>1, <1>2, DropEffect, Sorts DEF Inv
  <1>4. /\ req' \in [Handler -> RequestRecord] /\ req'[h].at = "idle"
        /\ \A g \in Handler \ {h} : req'[g] = req[g]
    <2>1. req \in [Handler -> RequestRecord]  BY DEF Inv, Shape
    <2>2. QED  BY <1>1, <2>1, NoRequestFacts
  <1>5. Shape'  BY <1>1, <1>3, <1>4 DEF Inv, Shape, References, waiters
  <1>6. ListIsAlive'  BY <1>1, <1>3, SameList, StaysAlive, Zenon DEF Inv, waiters
  <1>7. Walkers'  BY <1>1, WalkersSame, Zenon DEF Inv, waiters
  <1>8. Handlers'
    <2> SUFFICES ASSUME NEW g \in Handler
                 PROVE  /\ req'[g].at # "idle" => req'[g].cl \in Client /\ g \in refs'[req'[g].cl]
                        /\ req'[g].at = "check" => req'[g].kind \in Kind
                        /\ rep'[g].at # "idle" => Walks(g)' /\ req'[g].at = "remove"
                        /\ rep'[g].at = "drop" => rep'[g].to # req'[g].cl
      BY Zenon DEF Handlers
    <2>1. /\ req[g].at # "idle" => req[g].cl \in Client /\ g \in refs[req[g].cl]
          /\ req[g].at = "check" => req[g].kind \in Kind
          /\ rep[g].at # "idle" => Walks(g) /\ req[g].at = "remove"
          /\ rep[g].at = "drop" => rep[g].to # req[g].cl
      BY Zenon DEF Inv, Handlers
    <2>2. CASE g = h  BY <1>1, <1>2, <1>4, <2>2
    <2>3. CASE g # h  BY <1>1, <1>3, <1>4, <2>1, <2>3 DEF Walks
    <2>4. QED  BY <2>2, <2>3
  <1>9. Answers'
    <2>1. \A g \in Handler : Asks(g)' => Asks(g) /\ req'[g] = req[g]  BY <1>4 DEF Asks
    <2>2. AnsweredOnce'  BY <1>1, Zenon DEF Inv, Answers, AnsweredOnce, waiters
    <2>3. QED  BY <1>1, <2>1, <2>2 DEF Inv, Answers, waiters
  <1>10. Told'  BY <1>1, <1>3, ToldSame, Zenon DEF Inv, waiters
  <1>11. QED  BY <1>5, <1>6, <1>7, <1>8, <1>9, <1>10 DEF Inv
==============================================================================
