--------------------------- MODULE MCWifiManager ---------------------------
(* An instance of WifiManager for TLC. *)
EXTENDS WifiManager
=============================================================================
