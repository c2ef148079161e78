--------------------------- MODULE MCInterRepSync ---------------------------
(* Instances of InterRepSync for TLC. *)
EXTENDS InterRepSync, TLC

CONSTANTS g1, g2, s1, s2

OneGroup   == <<g1>>
TwoGroups  == <<g1, g2>>
Two        == g1 :> 2
TwoAndNone == (g1 :> 2) @@ (g2 :> 0)
=============================================================================
