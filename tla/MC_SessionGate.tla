--------------------------- MODULE MC_SessionGate ---------------------------
(* SessionGate with two artifacts, for TLC. *)
EXTENDS SessionGate
=============================================================================
