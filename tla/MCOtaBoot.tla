----------------------------- MODULE MCOtaBoot -----------------------------
(* An instance of OtaBoot for TLC. *)
EXTENDS OtaBoot
=============================================================================
