--------------------------- MODULE MCUserService ---------------------------
(* Instances of UserService for TLC: two InterRep groups. *)
EXTENDS UserService, TLC

CONSTANTS a, b, c, d, e, g1, g2

MCGroups == {g1, g2}

\* Five members for four leaves: the last one does not fit.
MCDistinct == (g1 :> <<a, b, c>>) @@ (g2 :> <<d, e>>)
=============================================================================
