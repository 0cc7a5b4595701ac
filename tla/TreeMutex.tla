------------------------------ MODULE TreeMutex ------------------------------
(***************************************************************************)
(* What the action lock promises its users: a thread owns at most one      *)
(* container of the tree, and only takes one that is apart from (neither   *)
(* the same as, nor above, nor below) every container somebody else owns.  *)
(* Ownership ends only by the owner giving it up.                          *)
(***************************************************************************)
CONSTANTS Container, Above, Thread, NoContainer

VARIABLE owns  \* the container each thread owns, or NoContainer

Separate(c, d) == c # d /\ c \notin Above[d] /\ d \notin Above[c]

Init == owns = [t \in Thread |-> NoContainer]

Acquire(t, c) ==
  /\ owns[t] = NoContainer
  /\ \A u \in Thread \ {t} : owns[u] # NoContainer => Separate(owns[u], c)
  /\ owns' = [owns EXCEPT ![t] = c]

Release(t) ==
  /\ owns[t] # NoContainer
  /\ owns' = [owns EXCEPT ![t] = NoContainer]

Next == \E t \in Thread : Release(t) \/ \E c \in Container : Acquire(t, c)

Spec == Init /\ [][Next]_owns
=============================================================================
