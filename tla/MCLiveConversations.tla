------------------------ MODULE MCLiveConversations ------------------------
(* Small instances of LiveConversations for TLC. *)
EXTENDS LiveConversations, TLC

\* Connections are interchangeable (only where no liveness is checked).
Symmetry == Permutations(Clients)
=============================================================================
