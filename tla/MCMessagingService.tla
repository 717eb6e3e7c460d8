------------------------- MODULE MCMessagingService -------------------------
(* Small instances of MessagingService for TLC. *)
EXTENDS MessagingService, TLC

\* Users, and conversation ids, are interchangeable.
Symmetry == Permutations(Users) \union Permutations(Conversations)
=============================================================================
