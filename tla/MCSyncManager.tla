--------------------------- MODULE MCSyncManager ---------------------------
(* Instances of SyncManager for TLC. *)
EXTENDS SyncManager
CONSTANTS a, b, q, t
=============================================================================
