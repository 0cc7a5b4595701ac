---------------------------- MODULE MCLifecycle -----------------------------
EXTENDS Lifecycle, TLC

CONSTANTS r, a, b, k, t1, t2, ev

(* The root, a container a, its child b, and in the chain b's child k. *)
Pair == {r, a, b}
PairParent == (r :> NoContainer) @@ (a :> r) @@ (b :> a)
PairAbove == (r :> {}) @@ (a :> {r}) @@ (b :> {r, a})
PairOrder == (r :> <<b, a, r>>) @@ (a :> <<b, a>>) @@ (b :> <<b>>)

Chain == {r, a, b, k}
ChainParent == PairParent @@ (k :> b)
ChainAbove == PairAbove @@ (k :> {r, a, b})
ChainOrder == (r :> <<k, b, a, r>>) @@ (a :> <<k, b, a>>) @@ (b :> <<k, b>>) @@ (k :> <<k>>)

(* Two containers b and k below a. *)
Fork == Chain
ForkParent == PairParent @@ (k :> a)
ForkAbove == PairAbove @@ (k :> {r, a})
ForkOrder == (r :> <<b, k, a, r>>) @@ (a :> <<b, k, a>>) @@ (b :> <<b>>) @@ (k :> <<k>>)

(* Containers that run from the beginning. *)
Up == <<a, k>>
NoneUp == <<>>

(* The clients are interchangeable. *)
ClientSymmetry == Permutations(Client)
=============================================================================
