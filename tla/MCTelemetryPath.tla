-------------------------- MODULE MCTelemetryPath --------------------------
(* Instances of TelemetryPath for TLC. *)
EXTENDS TelemetryPath, TLC
CONSTANTS k1, k2, k3

\* k1 and k2 collide under keyHash, k3 does not.
MCHash == [k \in Keys |-> IF k = k3 THEN 3 ELSE 1]
\* k1 and k2 are interchangeable in every run with MCHash.
CollidingKeys == Permutations({k1, k2})
=============================================================================
