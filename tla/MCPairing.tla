----------------------------- MODULE MCPairing -----------------------------
(* An instance of Pairing for TLC. *)
EXTENDS Pairing, TLC
CONSTANTS n1, n2

\* Pairing treats all Nodes alike.
NodeSymmetry == Permutations({n1, n2})
=============================================================================
