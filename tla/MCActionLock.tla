---------------------------- MODULE MCActionLock ----------------------------
(***************************************************************************)
(* A root with one first-level container a, its children b and c, and a    *)
(* grandchild d below b: chains of four lockable levels and a fork.        *)
(***************************************************************************)
EXTENDS ActionLock, TLC

CONSTANTS r, a, b, c, d, t1, t2, t3

MCContainer == {r, a, b, c, d}
MCParent == (r :> NoContainer) @@ (a :> r) @@ (b :> a) @@ (c :> a) @@ (d :> b)
MCAbove == (r :> {}) @@ (a :> {r}) @@ (b :> {r, a}) @@ (c :> {r, a})
             @@ (d :> {r, a, b})
MCThread == {t1, t2, t3}

(* t1 works on the root and on a, the others on the containers below. *)
TopAndBelow == (t1 :> {r, a}) @@ (t2 :> {b, c}) @@ (t3 :> {b, c, d})
=============================================================================
