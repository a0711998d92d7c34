--------------------------- MODULE MCTokenSource ---------------------------
(* The instance of TokenSource for TLC; no symmetry, since it checks a      *)
(* liveness property.                                                       *)
EXTENDS TokenSource

=============================================================================
