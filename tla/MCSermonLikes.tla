--------------------------- MODULE MCSermonLikes ---------------------------
(* Small instances of SermonLikes for TLC. *)
EXTENDS SermonLikes, TLC

\* Ids, users and request slots are interchangeable: nothing orders them.
Symmetry == Permutations(LikeIds) \union Permutations(CommentIds)
            \union Permutations(Requests) \union Permutations(Users)
=============================================================================
