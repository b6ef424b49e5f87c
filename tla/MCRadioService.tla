-------------------------- MODULE MCRadioService --------------------------
(* An instance of RadioService for TLC. *)
EXTENDS RadioService, TLC
CONSTANTS c1, c2

\* RadioService treats all configurations alike.
ConfigSymmetry == Permutations({c1, c2})
=============================================================================
