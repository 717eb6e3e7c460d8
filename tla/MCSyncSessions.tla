--------------------------- MODULE MCSyncSessions ---------------------------
(* A small instance of SyncSessions for TLC. *)
EXTENDS SyncSessions
=============================================================================
