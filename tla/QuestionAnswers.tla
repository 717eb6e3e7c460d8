-------------------------- MODULE QuestionAnswers --------------------------
(***************************************************************************)
(* Questions and answers (src/app/services/faith_service.py over           *)
(* CRUDQuestion and CRUDAnswer): posting, editing and deleting a question, *)
(* answering it, deleting an answer.  Each await of a handler is an action, *)
(* and the process may stop between any two of them (Restart).             *)
(*                                                                         *)
(* A session keeps the objects it loaded: neither a later SELECT nor a     *)
(* commit (expire_on_commit=False) brings them up to date, only refresh    *)
(* does.  Deleting a question deletes the answers loaded with it; the      *)
(* foreign key of faith_answers then fails if another one has come in.     *)
(***************************************************************************)
EXTENDS Naturals, FiniteSets

CONSTANTS
    Users,        \* the users
    Requests,     \* slots for HTTP requests in flight
    QuestionIds,  \* primary keys of faith_questions; bounds the questions posted
    AnswerIds,    \* primary keys of faith_answers; bounds the answers given
    NoRow,        \* a key never used
    Gone,         \* a key whose row was deleted: keys are uuids, never used again
    NoId          \* no question or answer id

ASSUME IdAssumption == NoId \notin QuestionIds \union AnswerIds
ASSUME RowAssumption ==
    /\ NoRow # Gone
    /\ {NoRow, Gone} \intersect [author : Users, is_answered : BOOLEAN] = {}
    /\ {NoRow, Gone} \intersect [question : QuestionIds, author : Users] = {}

VARIABLES
    question,  \* table faith_questions
    answer,    \* table faith_answers
    req,       \* req[r]: the request in slot r and what its session holds
    answered,  \* the questions an answer was ever committed for (history)
    cut        \* the answers whose request a restart cut off (history)

vars == <<question, answer, req, answered, cut>>

\* Roles only matter by what they allow; a request keeps whether its user was an
\* administrator as the token was checked, whatever becomes of him later.
Roles == {"admin", "predicateur", "fidele"}
Question == [author : Users, is_answered : BOOLEAN]
Answer == [question : QuestionIds, author : Users]
Codes == {0, 200, 201, 403, 404, 500}

\* flag: question.is_answered as loaded; loaded: question.answers as loaded.
Request == [op : {"none", "create", "update", "delete", "answer", "unanswer"},
            pc : {"idle", "insert", "created", "load", "save", "saved", "delete",
                  "reply", "refresh", "mark", "marked", "drop"},
            user : Users, admin : BOOLEAN,
            qid : QuestionIds \union {NoId}, aid : AnswerIds \union {NoId},
            flag : BOOLEAN, loaded : SUBSET AnswerIds, code : Codes]

Questions == {q \in QuestionIds : question[q] \notin {NoRow, Gone}}
Answers == {a \in AnswerIds : answer[a] \notin {NoRow, Gone}}
AnswersOf(q) == {a \in Answers : answer[a].question = q}

IsPublisher(role) == role \in {"admin", "predicateur"}
OwnerOrAdmin(r, author) == req[r].user = author \/ req[r].admin

-----------------------------------------------------------------------------
Init ==
    /\ question = [q \in QuestionIds |-> NoRow]
    /\ answer = [a \in AnswerIds |-> NoRow]
    /\ req \in [Requests -> [op : {"none"}, pc : {"idle"}, user : Users, admin : {FALSE},
                             qid : {NoId}, aid : {NoId}, flag : {FALSE}, loaded : {{}},
                             code : {0}]]
    /\ answered = {}
    /\ cut = {}

Begin(r, op, pc, u, admin, q, a) ==
    /\ req[r].pc = "idle"
    /\ req' = [req EXCEPT ![r] = [op |-> op, pc |-> pc, user |-> u, admin |-> admin, qid |-> q,
                                  aid |-> a, flag |-> FALSE, loaded |-> {}, code |-> 0]]
    /\ UNCHANGED <<question, answer, answered, cut>>

Goto(r, pc) == req' = [req EXCEPT ![r].pc = pc]
\* The session goes with the reply; what was answered is remembered for the
\* properties.
Reply(r, code) ==
    req' = [req EXCEPT ![r] =
              [@ EXCEPT !.pc = "idle", !.code = code, !.admin = FALSE, !.aid = NoId,
                        !.flag = FALSE, !.loaded = {},
                        !.qid = IF req[r].op = "answer" /\ code = 201 THEN req[r].qid ELSE NoId]]

\* Both refreshes of a row and the SELECT after them fail on a row that is gone.
ReplyIf(r, there, code) == Reply(r, IF there THEN code ELSE 500)

-----------------------------------------------------------------------------
(* POST, PUT and DELETE of a question *)

\* The bound: a row is only asked for while there is a key left for it.
KeyLeft(table, ids, op, pcs) ==
    Cardinality({k \in ids : table[k] = NoRow})
        > Cardinality({r \in Requests : req[r].op = op /\ req[r].pc \in pcs})

\* Any user may ask; his role is not looked at.
CreateQuestion(r, u) ==
    /\ KeyLeft(question, QuestionIds, "create", {"insert"})
    /\ Begin(r, "create", "insert", u, FALSE, NoId, NoId)

InsertWith(r, is_answered) ==
    /\ req[r].pc = "insert"
    /\ \E q \in QuestionIds :
          /\ question[q] = NoRow
          /\ question' = [question EXCEPT ![q] = [author |-> req[r].user,
                                                 is_answered |-> is_answered]]
          /\ req' = [req EXCEPT ![r].pc = "created", ![r].qid = q]
    /\ UNCHANGED <<answer, answered, cut>>

InsertQuestion(r) == InsertWith(r, FALSE)

QuestionCreated(r) ==
    /\ req[r].pc = "created"
    /\ ReplyIf(r, req[r].qid \in Questions, 201)
    /\ UNCHANGED <<question, answer, answered, cut>>

UpdateQuestion(r, u, role, q) == Begin(r, "update", "load", u, role = "admin", q, NoId)
DeleteQuestion(r, u, role, q) == Begin(r, "delete", "load", u, role = "admin", q, NoId)

\* The SELECT of a question comes with its answers (lazy="selectin").
LoadQuestion(r) ==
    /\ req[r].pc = "load" /\ req[r].op \in {"update", "delete", "answer"}
    /\ LET q == req[r].qid IN
       CASE q \notin Questions -> Reply(r, 404)
         [] q \in Questions /\ req[r].op # "answer" /\ ~OwnerOrAdmin(r, question[q].author) ->
               Reply(r, 403)
         [] OTHER ->
               req' = [req EXCEPT ![r].pc = CASE req[r].op = "update" -> "save"
                                              [] req[r].op = "delete" -> "delete"
                                              [] OTHER -> "reply",
                                  ![r].flag = question[q].is_answered,
                                  ![r].loaded = AnswersOf(q)]
    /\ UNCHANGED <<question, answer, answered, cut>>

\* Mutant: the whole row is written back as it was loaded.
SaveWholeRow(r) ==
    /\ req[r].pc = "save"
    /\ IF req[r].qid \in Questions
       THEN /\ question' = [question EXCEPT ![req[r].qid].is_answered = req[r].flag]
            /\ Goto(r, "saved")
       ELSE Reply(r, 500) /\ UNCHANGED question
    /\ UNCHANGED <<answer, answered, cut>>

\* Only the columns that changed are written, the text here; an UPDATE that finds
\* no row, or the refresh after it, fails.
SaveQuestion(r) ==
    /\ req[r].pc = "save"
    /\ IF req[r].qid \in Questions THEN Goto(r, "saved") ELSE Reply(r, 500)
    /\ UNCHANGED <<question, answer, answered, cut>>

QuestionSaved(r) ==
    /\ req[r].pc = "saved"
    /\ ReplyIf(r, req[r].qid \in Questions, 200)
    /\ UNCHANGED <<question, answer, answered, cut>>

\* Mutant: the database deletes whatever answers there are (ON DELETE CASCADE).
RemoveAllAnswers(r) ==
    /\ req[r].pc = "delete"
    /\ question' = [question EXCEPT ![req[r].qid] = Gone]
    /\ answer' = [a \in AnswerIds |-> IF a \in AnswersOf(req[r].qid) THEN Gone ELSE answer[a]]
    /\ Reply(r, 200)
    /\ UNCHANGED <<answered, cut>>

\* Mutant: the foreign key of faith_answers is missing.
RemoveUnchecked(r) ==
    /\ req[r].pc = "delete"
    /\ question' = [question EXCEPT ![req[r].qid] = Gone]
    /\ answer' = [a \in AnswerIds |-> IF a \in req[r].loaded THEN Gone ELSE answer[a]]
    /\ Reply(r, 200)
    /\ UNCHANGED <<answered, cut>>

\* The flush deletes the answers loaded, then the question; rows that others have
\* deleted are passed over, an answer that was not loaded makes it all fail.
RemoveQuestion(r) ==
    /\ req[r].pc = "delete"
    /\ IF AnswersOf(req[r].qid) \subseteq req[r].loaded
       THEN /\ question' = [question EXCEPT ![req[r].qid] = Gone]
            /\ answer' = [a \in AnswerIds |-> IF a \in req[r].loaded THEN Gone ELSE answer[a]]
            /\ Reply(r, 200)
       ELSE Reply(r, 500) /\ UNCHANGED <<question, answer>>
    /\ UNCHANGED <<answered, cut>>

-----------------------------------------------------------------------------
(* POST and DELETE of an answer *)

\* Publishers only; the others are refused before the first await.
AddAnswer(r, u, role, q) ==
    /\ IsPublisher(role)
    /\ KeyLeft(answer, AnswerIds, "answer", {"load", "reply"})
    /\ Begin(r, "answer", "load", u, FALSE, q, NoId)

InsertAnswer(r) ==
    /\ req[r].pc = "reply"
    /\ req[r].qid \in Questions
    /\ \E a \in AnswerIds :
          /\ answer[a] = NoRow
          /\ answer' = [answer EXCEPT ![a] = [question |-> req[r].qid, author |-> req[r].user]]
          /\ req' = [req EXCEPT ![r].pc = "refresh", ![r].aid = a]
    /\ answered' = answered \union {req[r].qid}
    /\ UNCHANGED <<question, cut>>

\* The question is gone: the foreign key fails, and the request with it.
AnswerRejected(r) ==
    /\ req[r].pc = "reply"
    /\ req[r].qid \notin Questions
    /\ Reply(r, 500)
    /\ UNCHANGED <<question, answer, answered, cut>>

\* The refresh of the new answer; then is_answered as it was loaded at first says
\* whether the question is still to be marked.
RefreshAnswer(r) ==
    /\ req[r].pc = "refresh"
    /\ CASE req[r].aid \notin Answers -> Reply(r, 500)
         [] req[r].aid \in Answers /\ req[r].flag -> Reply(r, 201)
         [] OTHER -> Goto(r, "mark")
    /\ UNCHANGED <<question, answer, answered, cut>>

\* Mutant: the answer is acknowledged and the question never marked.
AnswerWithoutMark(r) ==
    /\ req[r].pc = "mark"
    /\ Reply(r, 201)
    /\ UNCHANGED <<question, answer, answered, cut>>

\* A second transaction: the answer is committed whatever becomes of it.
MarkAnswered(r) ==
    /\ req[r].pc = "mark"
    /\ IF req[r].qid \in Questions
       THEN /\ question' = [question EXCEPT ![req[r].qid].is_answered = TRUE]
            /\ Goto(r, "marked")
       ELSE Reply(r, 500) /\ UNCHANGED question
    /\ UNCHANGED <<answer, answered, cut>>

AnswerMarked(r) ==
    /\ req[r].pc = "marked"
    /\ ReplyIf(r, req[r].qid \in Questions, 201)
    /\ UNCHANGED <<question, answer, answered, cut>>

DeleteAnswer(r, u, role, a) == Begin(r, "unanswer", "load", u, role = "admin", NoId, a)

LoadAnswer(r) ==
    /\ req[r].pc = "load" /\ req[r].op = "unanswer"
    /\ LET a == req[r].aid IN
       CASE a \notin Answers -> Reply(r, 404)
         [] a \in Answers /\ ~OwnerOrAdmin(r, answer[a].author) -> Reply(r, 403)
         [] OTHER -> Goto(r, "drop")
    /\ UNCHANGED <<question, answer, answered, cut>>

\* Mutant: the question goes back to unanswered with its last answer.
RemoveAndReset(r) ==
    /\ req[r].pc = "drop"
    /\ answer' = [answer EXCEPT ![req[r].aid] = Gone]
    /\ question' = [q \in QuestionIds |->
                      IF q \in Questions /\ AnswersOf(q) \subseteq {req[r].aid}
                      THEN [question[q] EXCEPT !.is_answered = FALSE] ELSE question[q]]
    /\ Reply(r, 200)
    /\ UNCHANGED <<answered, cut>>

\* The DELETE of a row that is gone already is no error; is_answered stays.
RemoveAnswer(r) ==
    /\ req[r].pc = "drop"
    /\ answer' = [answer EXCEPT ![req[r].aid] = Gone]
    /\ Reply(r, 200)
    /\ UNCHANGED <<question, answered, cut>>

-----------------------------------------------------------------------------
\* The process stops and starts again: what was committed remains, the requests
\* in flight are lost.  An answer whose request was still to mark it is cut off.
Restart ==
    /\ \E r \in Requests : req[r].pc # "idle"
    /\ cut' = cut \union {a \in Answers : \E r \in Requests :
                             req[r].aid = a /\ req[r].pc \in {"refresh", "mark"}}
    /\ req' = [r \in Requests |->
                 [req[r] EXCEPT !.op = "none", !.admin = FALSE, !.pc = "idle", !.qid = NoId,
                                !.aid = NoId, !.flag = FALSE, !.loaded = {}, !.code = 0]]
    /\ UNCHANGED <<question, answer, answered>>

Arrive(r) ==
    \E u \in Users :
       \/ CreateQuestion(r, u)
       \/ \E role \in Roles :
             \/ \E q \in Questions \union {NoId} :
                   \/ UpdateQuestion(r, u, role, q) \/ DeleteQuestion(r, u, role, q)
                   \/ AddAnswer(r, u, role, q)
             \/ \E a \in Answers \union {NoId} : DeleteAnswer(r, u, role, a)

Proceed(r) ==
    \/ InsertQuestion(r) \/ QuestionCreated(r)
    \/ LoadQuestion(r) \/ SaveQuestion(r) \/ QuestionSaved(r) \/ RemoveQuestion(r)
    \/ InsertAnswer(r) \/ AnswerRejected(r) \/ RefreshAnswer(r)
    \/ MarkAnswered(r) \/ AnswerMarked(r)
    \/ LoadAnswer(r) \/ RemoveAnswer(r)

Next == Restart \/ \E r \in Requests : Arrive(r) \/ Proceed(r)

Spec == Init /\ [][Next]_vars

-----------------------------------------------------------------------------
TypeOK ==
    /\ question \in [QuestionIds -> Question \union {NoRow, Gone}]
    /\ answer \in [AnswerIds -> Answer \union {NoRow, Gone}]
    /\ req \in [Requests -> Request]
    /\ answered \subseteq QuestionIds
    /\ cut \subseteq AnswerIds

\* No answer is left without its question, whatever deletions and answers race.
NoOrphan == \A a \in Answers : answer[a].question \in Questions

\* What the columns and the foreign key of faith_answers promise of the two tables.
TablesOK == TypeOK /\ NoOrphan

\* A question with an answer is marked as answered, or the request that gave the
\* answer is still about to mark it, or a restart cut that request off: the two
\* transactions of add_answer leave no other gap.
MarkedOrInFlight ==
    \A a \in Answers :
       question[answer[a].question].is_answered
       \/ a \in cut
       \/ \E r \in Requests : /\ req[r].op = "answer" /\ req[r].aid = a
                              /\ req[r].pc \in {"refresh", "mark"}

\* A question is never marked before an answer to it has been committed.
MarkHasAnswer == \A q \in Questions : question[q].is_answered => q \in answered

\* is_answered and the answers agree, except where add_answer was cut off.
MarksAgree == MarkedOrInFlight /\ MarkHasAnswer

\* An acknowledged answer leaves its question marked, or deleted since, also when
\* the request did not mark it itself because it had loaded it as marked.
AcknowledgedIsMarked ==
    \A r \in Requests :
       req[r].op = "answer" /\ req[r].code = 201 /\ question[req[r].qid] # Gone
       => question[req[r].qid].is_answered

\* is_answered is never lost: no handler that loaded it as false writes it back.
MarkIsKept ==
    [][\A q \in Questions :
          question[q].is_answered /\ question'[q] # Gone => question'[q].is_answered]_vars

\* An answer disappears only in the deletion of it, or of its question, by a user
\* who wrote what is deleted or is an administrator; with its question only if the
\* session of that deletion had loaded it: one that came in since makes it fail.
RemovedRightly ==
    [][\A a \in Answers : answer'[a] = Gone =>
          \E r \in Requests :
             \/ req[r].pc = "drop" /\ req[r].aid = a /\ OwnerOrAdmin(r, answer[a].author)
             \/ /\ req[r].pc = "delete" /\ req[r].qid = answer[a].question
                /\ req'[r].code = 200 /\ a \in req[r].loaded
                /\ OwnerOrAdmin(r, question[answer[a].question].author)]_vars
=============================================================================
