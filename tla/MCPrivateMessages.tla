------------------------- MODULE MCPrivateMessages -------------------------
(* Small instances of PrivateMessages for TLC. *)
EXTENDS PrivateMessages, TLC
=============================================================================
