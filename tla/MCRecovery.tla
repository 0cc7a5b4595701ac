----------------------------- MODULE MCRecovery -----------------------------
(* a/b and k: a nested pair and a container beside it. *)
EXTENDS Recovery

CONSTANTS a, b, k

Up3 == a :> Root @@ b :> a @@ k :> Root
Post3 == a :> <<b, a>> @@ b :> <<b>> @@ k :> <<k>>
=============================================================================
