-------------------------- MODULE MCFriendRequests --------------------------
(* Small instances of FriendRequests for TLC. *)
EXTENDS FriendRequests
=============================================================================
