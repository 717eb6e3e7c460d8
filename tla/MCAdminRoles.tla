---------------------------- MODULE MCAdminRoles ----------------------------
(* Small instances of AdminRoles for TLC. *)
EXTENDS AdminRoles, TLC

\* Request slots are interchangeable: nothing orders them.
Symmetry == Permutations(Requests)
=============================================================================
