--------------------------- MODULE MCKeyExchange ----------------------------
(* Instances of KeyExchange for TLC. *)
EXTENDS KeyExchange, TLC

CONSTANTS a, b, r1, r2

TwoRunsOfB  == (a :> {r1}) @@ (b :> {r1, r2})
ThreeAndTwo == (a :> 3) @@ (b :> 2)
FaultsOfA   == (a :> 1) @@ (b :> 0)
=============================================================================
