------------------------- MODULE MCQuestionAnswers -------------------------
(* Small instances of QuestionAnswers for TLC. *)
EXTENDS QuestionAnswers, TLC

\* Request slots and answer ids are interchangeable: nothing orders them.
Symmetry == Permutations(AnswerIds) \union Permutations(Requests) \union Permutations(Users)
=============================================================================
