-------------------------- MODULE MCMessageHandler --------------------------
(* Instances of MessageHandler for TLC. *)
EXTENDS MessageHandler, TLC

CONSTANTS a, b, c, m1, m2, m3, m4, m5

One     == <<a>>
Pair    == <<a, b>>
Three   == <<a, b, c>>

Symmetry == Permutations(Deliveries)
=============================================================================
