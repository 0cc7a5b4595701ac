----------------------------- MODULE MCVolumes -----------------------------
(* Constants of Volumes: a volume with its storage in another one, a third *)
(* one that lies in both, and link targets one inside the other.           *)
EXTENDS Volumes

CONSTANTS v1, v2, v3, c1, c2, p1, p2, p3, t1, t2

Paths == {p1, p2, p3, t1, t2}
OuterTargets == [p \in Paths |-> IF p = t2 THEN t1 ELSE NoPath]
PathOf3 == v1 :> p1 @@ v2 :> p2 @@ v3 :> p3
Inside == v1 :> <<>> @@ v2 :> <<p1>> @@ v3 :> <<p1, p2>>
Apart == [v \in {v1, v2, v3} |-> <<>>]
SpecC2 == v1 :> <<<<c2, t2>>>> @@ v2 :> <<<<c2, t2>>>> @@ v3 :> <<<<c1, NoPath>>>>
LinkedOnce == <<<<v1, c1, t1>>>>
LinkedBoth == <<<<v1, c1, t1>>, <<v2, c2, t2>>>>
Modes == {<<TRUE, FALSE>>, <<FALSE, TRUE>>}
AtC2 == {<<c2, t2>>}
AtBoth == {<<c1, t1>>, <<c2, t2>>}
=============================================================================
