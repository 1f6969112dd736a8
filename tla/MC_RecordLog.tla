---------------------------- MODULE MC_RecordLog ----------------------------
(* RecordLog on two writers, for TLC. *)
EXTENDS RecordLog
=============================================================================
