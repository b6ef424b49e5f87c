-------------------------- MODULE MCBackendWorker --------------------------
(* An instance of BackendWorker for TLC. *)
EXTENDS BackendWorker

\* A provisioned production backend, and a local one without a token.
MCEndpoints == {[token |-> TRUE, tls |-> TRUE], [token |-> FALSE, tls |-> FALSE]}
=============================================================================
