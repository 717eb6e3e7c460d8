----------------------- MODULE QuestionAnswersProofs -----------------------
(***************************************************************************)
(* Proofs about QuestionAnswers, for any number of users, requests in       *)
(* flight, questions and answers, and any restarts.                         *)
(***************************************************************************)
EXTENDS QuestionAnswers, TLAPS

\* The question is marked as answered.
Marked(q) == question[q].is_answered

\* What the request in slot r may rely on after each await.
InHand(r) ==
    LET q == req[r].qid
        a == req[r].aid
        pc == req[r].pc
    IN
    /\ pc # "idle" => req[r].code = 0
    /\ pc \in {"insert", "created"} => req[r].op = "create"
    /\ pc \in {"reply", "refresh", "mark", "marked"} => req[r].op = "answer"
    \* Rows that were there stay, or leave a key that is not used again.
    /\ \/ pc \in {"reply", "refresh", "mark", "marked", "delete"}
       \/ req[r].op = "answer" /\ req[r].code = 201
       => q \in QuestionIds /\ question[q] # NoRow
    /\ pc \in {"refresh", "mark", "drop"} => a \in AnswerIds /\ answer[a] # NoRow
    \* A mark that was loaded, or set, is still there.
    /\ pc \in {"reply", "refresh"} /\ req[r].flag /\ q \in Questions => Marked(q)
    /\ pc = "marked" /\ q \in Questions => Marked(q)
    \* The answer belongs to the question.
    /\ pc \in {"refresh", "mark"} => q \in answered /\ (a \in Answers => answer[a].question = q)
    \* What is about to be deleted belongs together, and to the user.
    /\ pc = "delete" =>
          /\ \A b \in req[r].loaded : answer[b] # NoRow /\ (b \in Answers => answer[b].question = q)
          /\ q \in Questions => OwnerOrAdmin(r, question[q].author)
    /\ pc = "drop" /\ a \in Answers => OwnerOrAdmin(r, answer[a].author)

IInv ==
    /\ TypeOK /\ NoOrphan /\ MarkedOrInFlight /\ MarkHasAnswer /\ AcknowledgedIsMarked
    /\ \A r \in Requests : InHand(r)

-----------------------------------------------------------------------------
(* Stability *)

\* A row never comes back; while it is there it keeps its author and its question,
\* and a question its mark.
RowsKept ==
    /\ \A q \in QuestionIds : question[q] # NoRow =>
          /\ question'[q] # NoRow
          /\ question'[q] # Gone => /\ question[q] # Gone /\ question'[q].author = question[q].author
                                    /\ Marked(q) => Marked(q)'
    /\ \A a \in AnswerIds : answer[a] # NoRow =>
          answer'[a] = Gone \/ answer'[a] = answer[a]
    /\ answered \subseteq answered'

LEMMA NotMoved == UNCHANGED <<question, answer, answered>> => RowsKept
BY DEF RowsKept, Marked

\* Whatever a step does to the tables, the other requests keep what they hold.
LEMMA OthersInHand ==
    ASSUME IInv, RowsKept, NEW p \in Requests, req'[p] = req[p]
    PROVE  InHand(p)'
<1>0. req[p] \in Request /\ InHand(p)
  BY DEF IInv, TypeOK
<1> DEFINE q == req[p].qid
           a == req[p].aid
<1>1. q \in QuestionIds /\ question[q] # NoRow /\ q \in Questions'
      => q \in Questions /\ question'[q].author = question[q].author /\ (Marked(q) => Marked(q)')
  BY DEF RowsKept, Questions
<1>2. \A b \in AnswerIds : answer[b] # NoRow
         => answer'[b] # NoRow /\ (b \in Answers' => b \in Answers /\ answer'[b] = answer[b])
  BY RowAssumption DEF RowsKept, Answers, IInv, TypeOK
<1>3. q \in QuestionIds /\ question[q] # NoRow => question'[q] # NoRow
  BY DEF RowsKept
<1>4. q \in answered => q \in answered'
  BY DEF RowsKept
<1>5. \A b \in req[p].loaded : b \in AnswerIds
  BY <1>0 DEF Request
<1> QED
  BY <1>0, <1>1, <1>2, <1>3, <1>4, <1>5 DEF InHand, OwnerOrAdmin

-----------------------------------------------------------------------------
(* What remains to be shown of a step that moves one request *)

LEMMA OneMoves ==
    ASSUME IInv, RowsKept, NEW r \in Requests, NEW n \in Request, req' = [req EXCEPT ![r] = n],
           question' \in [QuestionIds -> Question \union {NoRow, Gone}],
           answer' \in [AnswerIds -> Answer \union {NoRow, Gone}],
           answered' \subseteq QuestionIds, cut' = cut,
           NoOrphan', MarkedOrInFlight', MarkHasAnswer', InHand(r)',
           n.op = "answer" /\ n.code = 201 /\ question'[n.qid] # Gone => Marked(n.qid)'
    PROVE  IInv'
<1>1. req'[r] = n /\ \A p \in Requests \ {r} : req'[p] = req[p]
  BY DEF IInv, TypeOK
<1>2. TypeOK'
  BY DEF IInv, TypeOK
<1>3. \A p \in Requests : InHand(p)'
  BY <1>1, OthersInHand
<1>4. AcknowledgedIsMarked'
  <2> SUFFICES ASSUME NEW p \in Requests, req'[p].op = "answer", req'[p].code = 201,
                      question'[req'[p].qid] # Gone
               PROVE  question'[req'[p].qid].is_answered
    BY DEF AcknowledgedIsMarked
  <2>1. CASE p = r
    BY <1>1, <2>1 DEF Marked
  <2>2. CASE p # r
    <3>1. req'[p] = req[p] /\ InHand(p)
      BY <1>1, <2>2 DEF IInv
    <3>2. req[p].qid \in QuestionIds /\ question[req[p].qid] # NoRow
      BY <3>1 DEF InHand
    <3>3. question[req[p].qid] # Gone /\ (Marked(req[p].qid) => Marked(req[p].qid)')
      BY <3>1, <3>2 DEF RowsKept
    <3>4. Marked(req[p].qid)
      BY <3>1, <3>3 DEF IInv, AcknowledgedIsMarked, Marked
    <3> QED
      BY <3>1, <3>3, <3>4 DEF Marked
  <2> QED
    BY <2>1, <2>2
<1> QED
  BY <1>2, <1>3, <1>4 DEF IInv

\* The tables stay: what remains is what the request itself holds, and that it does
\* not leave the answer it gave to a question it has not marked.
LEMMA QuietStep ==
    ASSUME IInv, UNCHANGED <<question, answer, answered, cut>>,
           NEW r \in Requests, NEW n \in Request, req' = [req EXCEPT ![r] = n],
           InHand(r)',
           \A a \in Answers : req[r].aid = a /\ req[r].pc \in {"refresh", "mark"}
              => \/ Marked(answer[a].question)
                 \/ n.op = "answer" /\ n.aid = a /\ n.pc \in {"refresh", "mark"},
           n.op = "answer" /\ n.code = 201 /\ question[n.qid] # Gone => Marked(n.qid)
    PROVE  IInv'
<1>1. req'[r] = n /\ \A p \in Requests \ {r} : req'[p] = req[p]
  BY DEF IInv, TypeOK
<1>2. Answers' = Answers /\ Questions' = Questions
  BY DEF Answers, Questions
<1>3. NoOrphan' /\ MarkHasAnswer'
  BY <1>2 DEF IInv, NoOrphan, MarkHasAnswer
<1>4. MarkedOrInFlight'
  <2> SUFFICES ASSUME NEW a \in Answers
               PROVE  \/ question[answer[a].question].is_answered
                      \/ a \in cut
                      \/ \E p \in Requests : /\ req'[p].op = "answer" /\ req'[p].aid = a
                                             /\ req'[p].pc \in {"refresh", "mark"}
    BY <1>2 DEF MarkedOrInFlight
  <2>1. \/ question[answer[a].question].is_answered
        \/ a \in cut
        \/ \E p \in Requests : /\ req[p].op = "answer" /\ req[p].aid = a
                               /\ req[p].pc \in {"refresh", "mark"}
    BY DEF IInv, MarkedOrInFlight
  <2> QED
    BY <1>1, <2>1 DEF Marked
<1>5. n.op = "answer" /\ n.code = 201 /\ question'[n.qid] # Gone => Marked(n.qid)'
  BY DEF Marked
<1>6. RowsKept
  BY NotMoved
<1>7. /\ question' \in [QuestionIds -> Question \union {NoRow, Gone}]
      /\ answer' \in [AnswerIds -> Answer \union {NoRow, Gone}]
      /\ answered' \subseteq QuestionIds /\ cut' = cut
  BY DEF IInv, TypeOK
<1> QED
  BY <1>3, <1>4, <1>5, <1>6, <1>7, OneMoves, Zenon

\* The record a reply leaves.
LEMMA ReplyRecord ==
    ASSUME TypeOK, NEW r \in Requests, NEW code \in Codes, Reply(r, code)
    PROVE  \E n \in Request :
              /\ req' = [req EXCEPT ![r] = n]
              /\ n.pc = "idle" /\ n.code = code /\ n.op = req[r].op
              /\ n.qid = IF req[r].op = "answer" /\ code = 201 THEN req[r].qid ELSE NoId
<1> DEFINE n == [req[r] EXCEPT !.pc = "idle", !.code = code, !.admin = FALSE, !.aid = NoId,
                               !.flag = FALSE, !.loaded = {},
                               !.qid = IF req[r].op = "answer" /\ code = 201 THEN req[r].qid ELSE NoId]
<1>1. req[r] \in Request
  BY DEF TypeOK
<1>2. n \in Request
  BY <1>1, ZenonT(120) DEF Request
<1>3. /\ n.pc = "idle" /\ n.code = code /\ n.op = req[r].op
      /\ n.qid = IF req[r].op = "answer" /\ code = 201 THEN req[r].qid ELSE NoId
  BY <1>1 DEF Request
<1>4. req' = [req EXCEPT ![r] = n]
  BY DEF Reply
<1> QED
  BY <1>2, <1>3, <1>4, ZenonT(60)

LEMMA ReplyStep ==
    ASSUME IInv, UNCHANGED <<question, answer, answered, cut>>,
           NEW r \in Requests, NEW code \in Codes, Reply(r, code),
           req[r].op = "answer" /\ code = 201
              => /\ req[r].qid \in QuestionIds /\ question[req[r].qid] # NoRow
                 /\ question[req[r].qid] # Gone => Marked(req[r].qid),
           req[r].pc \in {"refresh", "mark"} /\ req[r].aid \in Answers
              => Marked(answer[req[r].aid].question)
    PROVE  IInv'
<1>1. PICK n \in Request :
         /\ req' = [req EXCEPT ![r] = n]
         /\ n.pc = "idle" /\ n.code = code /\ n.op = req[r].op
         /\ n.qid = IF req[r].op = "answer" /\ code = 201 THEN req[r].qid ELSE NoId
  BY ReplyRecord DEF IInv
<1>2. req'[r] = n
  BY <1>1 DEF IInv, TypeOK
<1>3. InHand(r)'
  BY <1>1, <1>2 DEF InHand
<1>4. n.op = "answer" /\ n.code = 201 /\ question[n.qid] # Gone => Marked(n.qid)
  BY <1>1
<1> QED
  BY <1>1, <1>3, <1>4, QuietStep, ZenonT(60)

\* A request that goes on with what it has.
LEMMA GotoStep ==
    ASSUME IInv, UNCHANGED <<question, answer, answered, cut>>,
           NEW r \in Requests, NEW pc \in {"saved", "mark", "drop"}, Goto(r, pc),
           req[r].pc # "idle", pc = "mark" => req[r].pc = "refresh",
           req[r].pc \in {"refresh", "mark"} => pc = "mark",
           pc = "drop" => /\ req[r].aid \in Answers
                          /\ OwnerOrAdmin(r, answer[req[r].aid].author)
    PROVE  IInv'
<1> DEFINE n == [req[r] EXCEPT !.pc = pc]
<1>1. req[r] \in Request
  BY DEF IInv, TypeOK
<1>2. n \in Request
  BY <1>1 DEF Request
<1>3. /\ n.pc = pc /\ n.op = req[r].op /\ n.user = req[r].user /\ n.admin = req[r].admin
      /\ n.qid = req[r].qid /\ n.aid = req[r].aid /\ n.flag = req[r].flag
      /\ n.loaded = req[r].loaded /\ n.code = req[r].code
  BY <1>1 DEF Request
<1>4. req' = [req EXCEPT ![r] = n] /\ req'[r] = n
  BY DEF Goto, IInv, TypeOK
<1> HIDE DEF n
<1>5. InHand(r) /\ req[r].code = 0
  BY DEF IInv, InHand
<1>6. Answers' = Answers
  BY DEF Answers
<1>7. InHand(r)'
  <2>1. pc = "drop" => OwnerOrAdmin(r, answer[req[r].aid].author)'
    BY <1>3, <1>4 DEF OwnerOrAdmin
  <2>2. pc = "drop" => req[r].aid \in AnswerIds /\ answer[req[r].aid] # NoRow
    BY DEF Answers
  <2> QED
    BY <1>3, <1>4, <1>5, <1>6, <2>1, <2>2 DEF InHand, OwnerOrAdmin
<1>8. \A a \in Answers : req[r].aid = a /\ req[r].pc \in {"refresh", "mark"}
         => n.op = "answer" /\ n.aid = a /\ n.pc \in {"refresh", "mark"}
  BY <1>3, <1>5 DEF InHand
<1>9. n.code # 201
  BY <1>3, <1>5
<1>10. req' = [req EXCEPT ![r] = n]
  BY <1>4
<1> QED
  BY <1>2, <1>7, <1>8, <1>9, <1>10, QuietStep, ZenonT(60)

-----------------------------------------------------------------------------
(* The requests as they come in, and the steps that only read *)

LEMMA ArriveStep ==
    ASSUME IInv, NEW r \in Requests, Arrive(r)
    PROVE  IInv'
<1>1. PICK op \in {"create", "update", "delete", "answer", "unanswer"}, pc \in {"insert", "load"},
           u \in Users, admin \in BOOLEAN, q \in QuestionIds \union {NoId},
           a \in AnswerIds \union {NoId} :
         /\ Begin(r, op, pc, u, admin, q, a)
         /\ pc = "insert" => op = "create"
  BY DEF Arrive, CreateQuestion, UpdateQuestion, DeleteQuestion, AddAnswer, DeleteAnswer,
         Questions, Answers
<1> DEFINE n == [op |-> op, pc |-> pc, user |-> u, admin |-> admin, qid |-> q,
                 aid |-> a, flag |-> FALSE, loaded |-> {}, code |-> 0]
<1>2. n \in Request
  BY DEF Request, Codes
<1>3. n.pc = pc /\ n.op = op /\ n.code = 0
  OBVIOUS
<1>4. /\ req' = [req EXCEPT ![r] = n] /\ req'[r] = n
      /\ UNCHANGED <<question, answer, answered, cut>> /\ req[r].pc = "idle"
  BY <1>1 DEF Begin, IInv, TypeOK
<1> HIDE DEF n
<1>5. InHand(r)'
  BY <1>1, <1>3, <1>4 DEF InHand
<1>6. req' = [req EXCEPT ![r] = n] /\ n.code # 201 /\ req[r].pc \notin {"refresh", "mark"}
  BY <1>3, <1>4
<1> QED
  BY <1>2, <1>4, <1>5, <1>6, QuietStep, Zenon

LEMMA LoadQuestionStep ==
    ASSUME IInv, NEW r \in Requests, LoadQuestion(r)
    PROVE  IInv'
<1> DEFINE q == req[r].qid
<1>1. /\ req[r].pc = "load" /\ req[r].pc \notin {"refresh", "mark"}
      /\ UNCHANGED <<question, answer, answered, cut>>
  BY DEF LoadQuestion
<1>2. CASE Reply(r, 404) \/ Reply(r, 403)
  BY <1>1, <1>2, ReplyStep DEF Codes
<1>3. CASE ~(Reply(r, 404) \/ Reply(r, 403))
  <2>1. /\ q \in Questions
        /\ req[r].op = "answer" \/ OwnerOrAdmin(r, question[q].author)
        /\ req' = [req EXCEPT ![r].pc = CASE req[r].op = "update" -> "save"
                                          [] req[r].op = "delete" -> "delete"
                                          [] OTHER -> "reply",
                              ![r].flag = question[q].is_answered,
                              ![r].loaded = AnswersOf(q)]
        /\ req[r].op \in {"update", "delete", "answer"}
    BY <1>3 DEF LoadQuestion
  <2>2. PICK pc \in {"save", "delete", "reply"} :
           /\ pc = CASE req[r].op = "update" -> "save"
                     [] req[r].op = "delete" -> "delete"
                     [] OTHER -> "reply"
           /\ pc = "reply" => req[r].op = "answer"
           /\ pc = "delete" => req[r].op = "delete"
    BY <2>1
  <2> DEFINE n == [req[r] EXCEPT !.pc = pc, !.flag = question[q].is_answered, !.loaded = AnswersOf(q)]
  <2>3. req[r] \in Request /\ question[q] \in Question
    BY <2>1 DEF IInv, TypeOK, Questions
  <2>4. question[q].is_answered \in BOOLEAN /\ AnswersOf(q) \subseteq AnswerIds
    BY <2>3 DEF Question, AnswersOf, Answers
  <2>5. n \in Request
    BY <2>3, <2>4 DEF Request
  <2>6. /\ n.pc = pc /\ n.op = req[r].op /\ n.user = req[r].user /\ n.admin = req[r].admin
        /\ n.qid = req[r].qid /\ n.flag = question[q].is_answered
        /\ n.loaded = AnswersOf(q) /\ n.code = req[r].code
    BY <2>3 DEF Request
  <2>7. req' = [req EXCEPT ![r] = n] /\ req'[r] = n
    BY <2>1, <2>2 DEF IInv, TypeOK
  <2> HIDE DEF n
  <2>8. n.code = 0
    BY <1>1, <2>6 DEF IInv, InHand
  <2>9. Answers' = Answers /\ Questions' = Questions
    BY <1>1 DEF Answers, Questions
  <2>10. InHand(r)'
    <3>1. q \in QuestionIds /\ question[q] # NoRow
      BY <2>1 DEF Questions
    <3>2. \A b \in AnswersOf(q) : answer[b] # NoRow /\ answer[b].question = q
      BY DEF AnswersOf, Answers
    <3>3. n.flag => Marked(q)
      BY <2>6 DEF Marked
    <3>4. Marked(q)' <=> Marked(q)
      BY <1>1, <2>6, <2>7 DEF Marked
    <3>5. pc = "delete" => OwnerOrAdmin(r, question[q].author)
      BY <2>1, <2>2
    <3> QED
      BY <1>1, <2>2, <2>6, <2>7, <2>8, <2>9, <3>1, <3>2, <3>3, <3>4, <3>5 DEF InHand, OwnerOrAdmin
  <2>11. req' = [req EXCEPT ![r] = n] /\ n.code # 201
    BY <2>7, <2>8
  <2> QED
    BY <1>1, <2>5, <2>10, <2>11, QuietStep, Zenon
<1> QED
  BY <1>2, <1>3

\* The steps of a request that only read, or fail before they write.
LEMMA ReadingStep ==
    ASSUME IInv, NEW r \in Requests,
           \/ QuestionCreated(r) \/ SaveQuestion(r) \/ QuestionSaved(r)
           \/ AnswerRejected(r) \/ RefreshAnswer(r) \/ AnswerMarked(r) \/ LoadAnswer(r)
    PROVE  IInv'
<1> USE DEF Codes
<1>0. InHand(r)
  BY DEF IInv
<1>1. CASE QuestionCreated(r)
  <2>1. /\ req[r].pc = "created" /\ req[r].op = "create"
        /\ UNCHANGED <<question, answer, answered, cut>> /\ (Reply(r, 201) \/ Reply(r, 500))
    BY <1>0, <1>1 DEF QuestionCreated, ReplyIf, InHand
  <2> QED
    BY <2>1, ReplyStep
<1>2. CASE SaveQuestion(r)
  <2>1. /\ req[r].pc = "save" /\ UNCHANGED <<question, answer, answered, cut>>
        /\ (Goto(r, "saved") \/ Reply(r, 500))
    BY <1>2 DEF SaveQuestion
  <2> QED
    BY <2>1, GotoStep, ReplyStep
<1>3. CASE QuestionSaved(r)
  <2>1. /\ req[r].pc = "saved" /\ UNCHANGED <<question, answer, answered, cut>>
        /\ (Reply(r, 200) \/ Reply(r, 500))
    BY <1>3 DEF QuestionSaved, ReplyIf
  <2> QED
    BY <2>1, ReplyStep
<1>4. CASE AnswerRejected(r)
  <2>1. req[r].pc = "reply" /\ UNCHANGED <<question, answer, answered, cut>> /\ Reply(r, 500)
    BY <1>4 DEF AnswerRejected
  <2> QED
    BY <2>1, ReplyStep
<1>5. CASE RefreshAnswer(r)
  <2>1. req[r].pc = "refresh" /\ UNCHANGED <<question, answer, answered, cut>>
    BY <1>5 DEF RefreshAnswer
  <2>2. CASE req[r].aid \notin Answers
    BY <1>5, <2>1, <2>2, ReplyStep DEF RefreshAnswer
  <2>3. CASE req[r].aid \in Answers /\ req[r].flag
    <3>1. Reply(r, 201)
      BY <1>5, <2>3 DEF RefreshAnswer
    <3>2. answer[req[r].aid].question = req[r].qid /\ req[r].qid \in Questions /\ Marked(req[r].qid)
      BY <1>0, <2>1, <2>3 DEF InHand, IInv, NoOrphan
    <3>3. req[r].qid \in QuestionIds /\ question[req[r].qid] # NoRow
      BY <3>2 DEF Questions
    <3> QED
      BY <2>1, <3>1, <3>2, <3>3, ReplyStep
  <2>4. CASE req[r].aid \in Answers /\ ~req[r].flag
    <3>1. Goto(r, "mark")
      BY <1>5, <2>4 DEF RefreshAnswer
    <3> QED
      BY <2>1, <3>1, GotoStep
  <2> QED
    BY <2>2, <2>3, <2>4
<1>6. CASE AnswerMarked(r)
  <2>1. /\ req[r].pc = "marked" /\ UNCHANGED <<question, answer, answered, cut>>
        /\ ReplyIf(r, req[r].qid \in Questions, 201)
    BY <1>6 DEF AnswerMarked
  <2>2. CASE req[r].qid \in Questions
    <3>1. Reply(r, 201)
      BY <2>1, <2>2 DEF ReplyIf
    <3>2. req[r].qid \in QuestionIds /\ question[req[r].qid] # NoRow /\ Marked(req[r].qid)
      BY <1>0, <2>1, <2>2 DEF InHand
    <3> QED
      BY <2>1, <3>1, <3>2, ReplyStep
  <2>3. CASE req[r].qid \notin Questions
    BY <2>1, <2>3, ReplyStep DEF ReplyIf
  <2> QED
    BY <2>2, <2>3
<1>7. CASE LoadAnswer(r)
  <2>1. /\ req[r].pc = "load" /\ UNCHANGED <<question, answer, answered, cut>>
        /\ \/ Reply(r, 404) \/ Reply(r, 403)
           \/ /\ req[r].aid \in Answers /\ OwnerOrAdmin(r, answer[req[r].aid].author)
              /\ Goto(r, "drop")
    BY <1>7 DEF LoadAnswer
  <2> QED
    BY <2>1, ReplyStep, GotoStep
<1> QED
  BY <1>1, <1>2, <1>3, <1>4, <1>5, <1>6, <1>7

-----------------------------------------------------------------------------
(* The steps that write *)

\* The record of a request that goes on to pc with the ids q and a.
LEMMA NextRecord ==
    ASSUME TypeOK, NEW r \in Requests,
           NEW pc \in {"created", "refresh", "marked"}, NEW q \in QuestionIds \union {NoId},
           NEW a \in AnswerIds \union {NoId}
    PROVE  LET n == [req[r] EXCEPT !.pc = pc, !.qid = q, !.aid = a] IN
           /\ n \in Request
           /\ n.pc = pc /\ n.qid = q /\ n.aid = a /\ n.op = req[r].op /\ n.code = req[r].code
           /\ n.flag = req[r].flag
<1>1. req[r] \in Request
  BY DEF TypeOK
<1> QED
  BY <1>1 DEF Request

LEMMA InsertQuestionStep ==
    ASSUME IInv, NEW r \in Requests, InsertQuestion(r)
    PROVE  IInv'
<1>1. PICK q \in QuestionIds :
         /\ question[q] = NoRow
         /\ question' = [question EXCEPT ![q] = [author |-> req[r].user, is_answered |-> FALSE]]
         /\ req' = [req EXCEPT ![r].pc = "created", ![r].qid = q]
  BY DEF InsertQuestion, InsertWith
<1>2. UNCHANGED <<answer, answered, cut>> /\ req[r].pc = "insert"
  BY DEF InsertQuestion, InsertWith
<1> DEFINE row == [author |-> req[r].user, is_answered |-> FALSE]
           n == [req[r] EXCEPT !.pc = "created", !.qid = q, !.aid = req[r].aid]
<1>3. req[r] \in Request /\ row \in Question /\ row.is_answered = FALSE
  BY DEF IInv, TypeOK, Request, Question
<1>4. /\ n \in Request /\ n.pc = "created" /\ n.qid = q /\ n.aid = req[r].aid
      /\ n.op = req[r].op /\ n.code = req[r].code
  BY <1>3, NextRecord, ZenonT(60) DEF IInv, Request
<1>5. req' = [req EXCEPT ![r] = n] /\ req'[r] = n
  BY <1>1, <1>3 DEF IInv, TypeOK, Request
<1>6. /\ question' \in [QuestionIds -> Question \union {NoRow, Gone}] /\ question'[q] = row
      /\ \A x \in QuestionIds \ {q} : question'[x] = question[x]
  BY <1>1, <1>3 DEF IInv, TypeOK
<1>7. row \notin {NoRow, Gone}
  BY <1>3, RowAssumption DEF Question
<1> HIDE DEF row, n
<1>8. q \notin Questions /\ Questions' = Questions \union {q} /\ Answers' = Answers
  BY <1>1, <1>2, <1>6, <1>7 DEF Questions, Answers
<1>9. RowsKept
  BY <1>1, <1>2, <1>6 DEF RowsKept, Marked
<1>10. NoOrphan'
  BY <1>2, <1>8 DEF IInv, NoOrphan
<1>11. MarkedOrInFlight'
  <2> SUFFICES ASSUME NEW a \in Answers
               PROVE  \/ question'[answer[a].question].is_answered
                      \/ a \in cut
                      \/ \E p \in Requests : /\ req'[p].op = "answer" /\ req'[p].aid = a
                                             /\ req'[p].pc \in {"refresh", "mark"}
    BY <1>2, <1>8 DEF MarkedOrInFlight
  <2>1. question'[answer[a].question] = question[answer[a].question]
    BY <1>6, <1>8 DEF IInv, NoOrphan, Questions
  <2>2. \A p \in Requests : req[p].pc \in {"refresh", "mark"} => req'[p] = req[p]
    BY <1>1, <1>2 DEF IInv, TypeOK
  <2> QED
    BY <2>1, <2>2 DEF IInv, MarkedOrInFlight
<1>12. MarkHasAnswer'
  BY <1>2, <1>3, <1>6, <1>8 DEF IInv, MarkHasAnswer, Questions
<1>13. n.op = "create" /\ n.code = 0
  BY <1>2, <1>4 DEF IInv, InHand
<1>14. InHand(r)'
  BY <1>4, <1>5, <1>13 DEF InHand
<1>15. n.code # 201 /\ answered' \subseteq QuestionIds /\ cut' = cut
       /\ answer' \in [AnswerIds -> Answer \union {NoRow, Gone}]
  BY <1>2, <1>13 DEF IInv, TypeOK
<1>16. req' = [req EXCEPT ![r] = n] /\ n \in Request
       /\ question' \in [QuestionIds -> Question \union {NoRow, Gone}]
  BY <1>4, <1>5, <1>6
<1> QED
  BY <1>9, <1>10, <1>11, <1>12, <1>14, <1>15, <1>16, OneMoves, Zenon

LEMMA InsertAnswerStep ==
    ASSUME IInv, NEW r \in Requests, InsertAnswer(r)
    PROVE  IInv'
<1> DEFINE q == req[r].qid
<1>1. PICK a \in AnswerIds :
         /\ answer[a] = NoRow
         /\ answer' = [answer EXCEPT ![a] = [question |-> q, author |-> req[r].user]]
         /\ req' = [req EXCEPT ![r].pc = "refresh", ![r].aid = a]
  BY DEF InsertAnswer
<1>2. /\ UNCHANGED <<question, cut>> /\ answered' = answered \union {q}
      /\ req[r].pc = "reply" /\ q \in Questions
  BY DEF InsertAnswer
<1> DEFINE row == [question |-> q, author |-> req[r].user]
           n == [req[r] EXCEPT !.pc = "refresh", !.qid = q, !.aid = a]
<1>3. req[r] \in Request /\ row \in Answer /\ row.question = q
  BY <1>2 DEF IInv, TypeOK, Request, Answer, Questions
<1>4. /\ n \in Request /\ n.pc = "refresh" /\ n.qid = q /\ n.aid = a
      /\ n.op = req[r].op /\ n.code = req[r].code /\ n.flag = req[r].flag
  BY <1>3, NextRecord, ZenonT(60) DEF IInv, Request
<1>5. req' = [req EXCEPT ![r] = n] /\ req'[r] = n
  BY <1>1, <1>3 DEF IInv, TypeOK, Request
<1>6. /\ answer' \in [AnswerIds -> Answer \union {NoRow, Gone}] /\ answer'[a] = row
      /\ \A x \in AnswerIds \ {a} : answer'[x] = answer[x]
  BY <1>1, <1>3 DEF IInv, TypeOK
<1>7. row \notin {NoRow, Gone}
  BY <1>3, RowAssumption DEF Answer
<1>8. InHand(r) /\ n.op = "answer" /\ n.code = 0
  BY <1>2, <1>4 DEF IInv, InHand
<1> HIDE DEF row, n
<1>9. a \notin Answers /\ Answers' = Answers \union {a} /\ Questions' = Questions
  BY <1>1, <1>2, <1>6, <1>7 DEF Questions, Answers
<1>10. RowsKept
  BY <1>1, <1>2, <1>6 DEF RowsKept, Marked
<1>11. NoOrphan'
  BY <1>2, <1>3, <1>6, <1>9 DEF IInv, NoOrphan, Answers
<1>12. MarkedOrInFlight'
  <2> SUFFICES ASSUME NEW b \in Answers'
               PROVE  \/ question[answer'[b].question].is_answered
                      \/ b \in cut
                      \/ \E p \in Requests : /\ req'[p].op = "answer" /\ req'[p].aid = b
                                             /\ req'[p].pc \in {"refresh", "mark"}
    BY <1>2 DEF MarkedOrInFlight
  <2>1. CASE b = a
    BY <1>4, <1>5, <1>8, <2>1
  <2>2. CASE b # a
    <3>1. b \in Answers /\ answer'[b] = answer[b]
      BY <1>6, <1>9, <2>2 DEF Answers
    <3>2. \A p \in Requests : req[p].pc \in {"refresh", "mark"} => req'[p] = req[p]
      BY <1>1, <1>2 DEF IInv, TypeOK
    <3> QED
      BY <3>1, <3>2 DEF IInv, MarkedOrInFlight
  <2> QED
    BY <2>1, <2>2
<1>13. MarkHasAnswer'
  BY <1>2, <1>9 DEF IInv, MarkHasAnswer
<1>14. InHand(r)'
  <2>1. q \in QuestionIds /\ question[q] # NoRow /\ q \in answered'
    BY <1>2 DEF Questions
  <2>2. a \in AnswerIds /\ answer'[a] # NoRow /\ answer'[a].question = q
    BY <1>3, <1>6, <1>7
  <2>3. req'[r].flag => Marked(q)'
    <3>1. req[r].flag => Marked(q)
      BY <1>2, <1>8 DEF InHand
    <3>2. Marked(q)' <=> Marked(q)
      BY <1>2, <1>4, <1>5 DEF Marked
    <3>3. req'[r].flag = req[r].flag
      BY <1>4, <1>5
    <3> QED
      BY <3>1, <3>2, <3>3, Zenon
  <2>4. /\ req'[r].pc = "refresh" /\ req'[r].op = "answer" /\ req'[r].code = 0
        /\ req'[r].qid = q /\ req'[r].aid = a
    BY <1>4, <1>5, <1>8
  <2>5. /\ req'[r].pc \notin {"idle", "insert", "created", "drop", "delete", "marked"}
        /\ req'[r].qid \in QuestionIds /\ question'[req'[r].qid] # NoRow
        /\ req'[r].qid \in answered'
    BY <1>2, <2>1, <2>4
  <2>6. /\ req'[r].aid \in AnswerIds /\ answer'[req'[r].aid] # NoRow
        /\ answer'[req'[r].aid].question = req'[r].qid
    BY <2>2, <2>4
  <2> QED
    BY <2>3, <2>4, <2>5, <2>6 DEF InHand
<1>15. n.code # 201 /\ answered' \subseteq QuestionIds /\ cut' = cut
       /\ question' \in [QuestionIds -> Question \union {NoRow, Gone}]
  BY <1>2, <1>8 DEF IInv, TypeOK, Questions
<1>16. req' = [req EXCEPT ![r] = n] /\ n \in Request
       /\ answer' \in [AnswerIds -> Answer \union {NoRow, Gone}]
  BY <1>4, <1>5, <1>6
<1> QED
  BY <1>10, <1>11, <1>12, <1>13, <1>14, <1>15, <1>16, OneMoves, Zenon

LEMMA MarkAnsweredStep ==
    ASSUME IInv, NEW r \in Requests, MarkAnswered(r)
    PROVE  IInv'
<1> DEFINE q == req[r].qid
           n == [req[r] EXCEPT !.pc = "marked", !.qid = q, !.aid = req[r].aid]
<1>1. InHand(r) /\ req[r].pc = "mark" /\ UNCHANGED <<answer, answered, cut>>
  BY DEF IInv, MarkAnswered
<1>2. /\ req[r].code = 0 /\ req[r].op = "answer" /\ q \in QuestionIds /\ question[q] # NoRow
      /\ q \in answered /\ (req[r].aid \in Answers => answer[req[r].aid].question = q)
  BY <1>1 DEF InHand
<1>3. CASE q \notin Questions
  <2>1. req[r].aid \notin Answers
    BY <1>2, <1>3 DEF IInv, NoOrphan
  <2>2. Reply(r, 500) /\ UNCHANGED question
    BY <1>3 DEF MarkAnswered
  <2> QED
    BY <1>1, <2>1, <2>2, ReplyStep DEF Codes
<1>4. CASE q \in Questions
  <2>1. question' = [question EXCEPT ![q].is_answered = TRUE] /\ Goto(r, "marked")
    BY <1>4 DEF MarkAnswered
  <2>2. req[r] \in Request /\ question[q] \in Question
    BY <1>4 DEF IInv, TypeOK, Questions
  <2>3. /\ n \in Request /\ n.pc = "marked" /\ n.qid = q /\ n.op = req[r].op /\ n.code = req[r].code
    BY <2>2, NextRecord, ZenonT(60) DEF IInv, Request
  <2>4. req' = [req EXCEPT ![r] = n] /\ req'[r] = n
    BY <2>1, <2>2 DEF Goto, IInv, TypeOK, Request
  <2>5. /\ question'[q] \in Question /\ question'[q].author = question[q].author
        /\ question'[q].is_answered = TRUE
        /\ \A x \in QuestionIds \ {q} : question'[x] = question[x]
        /\ question' \in [QuestionIds -> Question \union {NoRow, Gone}]
    BY <1>2, <2>1, <2>2 DEF IInv, TypeOK, Question
  <2> HIDE DEF n
  <2>6. question'[q] \notin {NoRow, Gone}
    BY <2>5, RowAssumption DEF Question
  <2>7. Questions' = Questions /\ Answers' = Answers
    BY <1>1, <1>2, <1>4, <2>5, <2>6 DEF Questions, Answers
  <2>8. \A x \in QuestionIds : question[x].is_answered => question'[x].is_answered
    BY <2>5
  <2>9. RowsKept
    BY <1>1, <1>2, <1>4, <2>5, <2>6, <2>8 DEF RowsKept, Marked, Questions
  <2>10. NoOrphan'
    BY <1>1, <2>7 DEF IInv, NoOrphan
  <2>11. MarkedOrInFlight'
    <3> SUFFICES ASSUME NEW b \in Answers
                 PROVE  \/ question'[answer[b].question].is_answered
                        \/ b \in cut
                        \/ \E p \in Requests : /\ req'[p].op = "answer" /\ req'[p].aid = b
                                               /\ req'[p].pc \in {"refresh", "mark"}
      BY <1>1, <2>7 DEF MarkedOrInFlight
    <3>1. answer[b].question \in QuestionIds
      BY DEF IInv, NoOrphan, Questions
    <3>2. \A p \in Requests \ {r} : req'[p] = req[p]
      BY <2>4 DEF IInv, TypeOK
    <3>3. CASE req[r].aid = b
      BY <1>2, <2>5, <3>3
    <3>4. CASE req[r].aid # b
      BY <2>8, <3>1, <3>2, <3>4 DEF IInv, MarkedOrInFlight
    <3> QED
      BY <3>3, <3>4
  <2>12. MarkHasAnswer'
    BY <1>1, <1>2, <2>5, <2>7 DEF IInv, MarkHasAnswer, Questions
  <2>13. InHand(r)'
    <3>1. Marked(q)'
      BY <2>5, <2>3, <2>4 DEF Marked
    <3> QED
      BY <1>2, <2>3, <2>4, <2>6, <3>1 DEF InHand
  <2>14. n.code # 201 /\ answered' \subseteq QuestionIds /\ cut' = cut
         /\ answer' \in [AnswerIds -> Answer \union {NoRow, Gone}]
    BY <1>1, <1>2, <2>3 DEF IInv, TypeOK
  <2>15. req' = [req EXCEPT ![r] = n] /\ n \in Request
         /\ question' \in [QuestionIds -> Question \union {NoRow, Gone}]
    BY <2>3, <2>4, <2>5
  <2> QED
    BY <2>9, <2>10, <2>11, <2>12, <2>13, <2>14, <2>15, OneMoves, Zenon
<1> QED
  BY <1>3, <1>4

\* What a step that deletes leaves: rows that are gone, and the others as they were.
Deletes(qs, as) ==
    /\ question' = [q \in QuestionIds |-> IF q \in qs THEN Gone ELSE question[q]]
    /\ answer' = [a \in AnswerIds |-> IF a \in as THEN Gone ELSE answer[a]]
    /\ \A q \in qs : question[q] # NoRow /\ AnswersOf(q) \subseteq as
    /\ \A a \in as : a \in AnswerIds /\ answer[a] # NoRow
    /\ UNCHANGED <<answered, cut>>

LEMMA DeletingStep ==
    ASSUME IInv, NEW r \in Requests, NEW qs, NEW as, qs \subseteq QuestionIds, Deletes(qs, as),
           Reply(r, 200), req[r].pc \notin {"refresh", "mark"}
    PROVE  IInv'
<1>1. PICK n \in Request :
         req' = [req EXCEPT ![r] = n] /\ n.pc = "idle" /\ n.code = 200 /\ n.op = req[r].op
  BY ReplyRecord DEF IInv, Codes
<1>2. req'[r] = n /\ \A p \in Requests \ {r} : req'[p] = req[p]
  BY <1>1 DEF IInv, TypeOK
<1>3. /\ question' \in [QuestionIds -> Question \union {NoRow, Gone}]
      /\ answer' \in [AnswerIds -> Answer \union {NoRow, Gone}]
      /\ answered' \subseteq QuestionIds /\ cut' = cut
  BY DEF Deletes, IInv, TypeOK
<1>4. Questions' = Questions \ qs /\ Answers' = Answers \ as
  BY DEF Deletes, Questions, Answers
<1>5. /\ \A q \in Questions' : question'[q] = question[q]
      /\ \A a \in Answers' : answer'[a] = answer[a]
  BY <1>4 DEF Deletes, Questions, Answers
<1>6. RowsKept
  <2>1. ASSUME NEW q \in QuestionIds, question[q] # NoRow, question'[q] # Gone
        PROVE  question'[q] = question[q]
    BY <2>1 DEF Deletes
  <2>2. \A q \in QuestionIds : question[q] # NoRow => question'[q] # NoRow
    BY RowAssumption DEF Deletes
  <2>3. \A a \in AnswerIds : answer'[a] = Gone \/ answer'[a] = answer[a]
    BY DEF Deletes
  <2> QED
    BY <2>1, <2>2, <2>3 DEF RowsKept, Deletes, Marked
<1>7. NoOrphan'
  <2> SUFFICES ASSUME NEW b \in Answers'
               PROVE  answer'[b].question \in Questions'
    BY DEF NoOrphan
  <2>1. b \in Answers /\ b \notin as /\ answer'[b] = answer[b]
    BY <1>4, <1>5
  <2>2. answer[b].question \in Questions
    BY <2>1 DEF IInv, NoOrphan
  <2>3. answer[b].question \notin qs
    BY <2>1 DEF Deletes, AnswersOf
  <2> QED
    BY <1>4, <2>1, <2>2, <2>3
<1>8. MarkedOrInFlight'
  <2> SUFFICES ASSUME NEW b \in Answers'
               PROVE  \/ question'[answer'[b].question].is_answered
                      \/ b \in cut
                      \/ \E p \in Requests : /\ req'[p].op = "answer" /\ req'[p].aid = b
                                             /\ req'[p].pc \in {"refresh", "mark"}
    BY <1>3 DEF MarkedOrInFlight
  <2>1. b \in Answers /\ answer'[b] = answer[b] /\ answer[b].question \in Questions'
    BY <1>4, <1>5, <1>7 DEF NoOrphan
  <2>2. question'[answer[b].question] = question[answer[b].question]
    BY <1>5, <2>1
  <2> QED
    BY <1>2, <2>1, <2>2 DEF IInv, MarkedOrInFlight
<1>9. MarkHasAnswer'
  BY <1>4, <1>5 DEF IInv, MarkHasAnswer, Deletes
<1>10. InHand(r)'
  BY <1>1, <1>2 DEF InHand
<1>11. n.code # 201 /\ req' = [req EXCEPT ![r] = n]
  BY <1>1
<1> QED
  BY <1>3, <1>6, <1>7, <1>8, <1>9, <1>10, <1>11, OneMoves, Zenon

LEMMA RemoveQuestionStep ==
    ASSUME IInv, NEW r \in Requests, RemoveQuestion(r)
    PROVE  IInv'
<1> DEFINE q == req[r].qid
<1>1. InHand(r) /\ req[r].pc = "delete" /\ req[r] \in Request
  BY DEF IInv, TypeOK, RemoveQuestion
<1>2. CASE AnswersOf(q) \subseteq req[r].loaded
  <2>1. /\ question' = [question EXCEPT ![q] = Gone]
        /\ answer' = [a \in AnswerIds |-> IF a \in req[r].loaded THEN Gone ELSE answer[a]]
        /\ Reply(r, 200) /\ UNCHANGED <<answered, cut>>
    BY <1>2 DEF RemoveQuestion
  <2>2. q \in QuestionIds /\ question[q] # NoRow
        /\ \A a \in req[r].loaded : a \in AnswerIds /\ answer[a] # NoRow
    BY <1>1 DEF InHand, Request
  <2>3. question' = [x \in QuestionIds |-> IF x \in {q} THEN Gone ELSE question[x]]
    BY <2>1 DEF IInv, TypeOK
  <2>4. Deletes({q}, req[r].loaded)
    BY <1>2, <2>1, <2>2, <2>3 DEF Deletes
  <2> QED
    BY <1>1, <2>1, <2>2, <2>4, DeletingStep
<1>3. CASE ~(AnswersOf(q) \subseteq req[r].loaded)
  <2>1. Reply(r, 500) /\ UNCHANGED <<question, answer, answered, cut>>
    BY <1>3 DEF RemoveQuestion
  <2> QED
    BY <1>1, <2>1, ReplyStep DEF Codes
<1> QED
  BY <1>2, <1>3

LEMMA RemoveAnswerStep ==
    ASSUME IInv, NEW r \in Requests, RemoveAnswer(r)
    PROVE  IInv'
<1>1. InHand(r) /\ req[r].pc = "drop" /\ Reply(r, 200) /\ UNCHANGED <<question, answered, cut>>
  BY DEF IInv, RemoveAnswer
<1>2. req[r].aid \in AnswerIds /\ answer[req[r].aid] # NoRow
  BY <1>1 DEF InHand
<1>3. /\ answer' = [a \in AnswerIds |-> IF a \in {req[r].aid} THEN Gone ELSE answer[a]]
      /\ question' = [q \in QuestionIds |-> IF q \in {} THEN Gone ELSE question[q]]
  BY <1>1 DEF RemoveAnswer, IInv, TypeOK
<1>4. Deletes({}, {req[r].aid})
  BY <1>1, <1>2, <1>3 DEF Deletes
<1> QED
  BY <1>1, <1>4, DeletingStep

-----------------------------------------------------------------------------
(* The inductive invariant *)

LEMMA Initially == Init => IInv
<1> SUFFICES ASSUME Init PROVE IInv
  OBVIOUS
<1>1. \A r \in Requests : /\ req[r] \in Request /\ req[r].pc = "idle" /\ req[r].op = "none"
                          /\ req[r].code = 0
  <2> DEFINE First == [op : {"none"}, pc : {"idle"}, user : Users, admin : {FALSE}, qid : {NoId},
                       aid : {NoId}, flag : {FALSE}, loaded : {{}}, code : {0}]
  <2>1. \A r \in Requests : req[r] \in First
    BY DEF Init
  <2>2. \A n \in First : n \in Request /\ n.pc = "idle" /\ n.op = "none" /\ n.code = 0
    BY ZenonT(60) DEF Request, Codes
  <2> HIDE DEF First
  <2> QED
    BY <2>1, <2>2
<1>2. \A q \in QuestionIds : question[q] = NoRow
  BY DEF Init
<1>3. \A a \in AnswerIds : answer[a] = NoRow
  BY DEF Init
<1>4. TypeOK
  <2>1. question \in [QuestionIds -> Question \union {NoRow, Gone}] /\ answered \subseteq QuestionIds
    BY DEF Init
  <2>2. answer \in [AnswerIds -> Answer \union {NoRow, Gone}] /\ cut \subseteq AnswerIds
    BY DEF Init
  <2>3. req \in [Requests -> Request]
    BY <1>1 DEF Init
  <2> QED
    BY <2>1, <2>2, <2>3 DEF TypeOK
<1>5. Questions = {} /\ Answers = {}
  BY <1>2, <1>3 DEF Questions, Answers
<1>6. \A r \in Requests : InHand(r)
  BY <1>1 DEF InHand
<1> QED
  BY <1>1, <1>4, <1>5, <1>6
  DEF IInv, NoOrphan, MarkedOrInFlight, MarkHasAnswer, AcknowledgedIsMarked

\* A restart loses the requests; an answer one of them was to mark is remembered.
LEMMA RestartStep ==
    ASSUME IInv, Restart
    PROVE  IInv'
<1>1. /\ UNCHANGED <<question, answer, answered>>
      /\ cut' = cut \union {a \in Answers : \E r \in Requests :
                               req[r].aid = a /\ req[r].pc \in {"refresh", "mark"}}
  BY DEF Restart
<1>2. \A r \in Requests : /\ req'[r] \in Request /\ req'[r].pc = "idle" /\ req'[r].op = "none"
                          /\ req'[r].code = 0
  <2> SUFFICES ASSUME NEW r \in Requests
               PROVE  /\ req'[r] \in Request /\ req'[r].pc = "idle" /\ req'[r].op = "none"
                      /\ req'[r].code = 0
    OBVIOUS
  <2>1. req[r] \in Request
    BY DEF IInv, TypeOK
  <2> DEFINE n == [op |-> "none", pc |-> "idle", user |-> req[r].user, admin |-> FALSE, qid |-> NoId,
                   aid |-> NoId, flag |-> FALSE, loaded |-> {}, code |-> 0]
  <2>2. n \in Request /\ n.pc = "idle" /\ n.op = "none" /\ n.code = 0
    BY <2>1 DEF Request, Codes
  <2>3. req'[r] = n
    BY <2>1 DEF Restart, Request
  <2> HIDE DEF n
  <2> QED
    BY <2>2, <2>3
<1>3. req' \in [Requests -> Request]
  BY <1>2 DEF Restart
<1>4. TypeOK'
  <2>1. question' \in [QuestionIds -> Question \union {NoRow, Gone}] /\ answered' \subseteq QuestionIds
        /\ answer' \in [AnswerIds -> Answer \union {NoRow, Gone}]
    BY <1>1 DEF IInv, TypeOK
  <2>2. cut' \subseteq AnswerIds
    BY <1>1 DEF IInv, TypeOK, Answers
  <2> QED
    BY <1>3, <2>1, <2>2 DEF TypeOK
<1>5. Questions' = Questions /\ Answers' = Answers
  BY <1>1 DEF Questions, Answers
<1>6. NoOrphan' /\ MarkHasAnswer'
  BY <1>1, <1>5 DEF IInv, NoOrphan, MarkHasAnswer
<1>7. MarkedOrInFlight'
  <2> SUFFICES ASSUME NEW a \in Answers
               PROVE  question[answer[a].question].is_answered \/ a \in cut'
    BY <1>1, <1>5 DEF MarkedOrInFlight
  <2>1. \/ question[answer[a].question].is_answered
        \/ a \in cut
        \/ \E p \in Requests : /\ req[p].op = "answer" /\ req[p].aid = a
                               /\ req[p].pc \in {"refresh", "mark"}
    BY DEF IInv, MarkedOrInFlight
  <2> QED
    BY <1>1, <2>1
<1>8. AcknowledgedIsMarked' /\ \A r \in Requests : InHand(r)'
  BY <1>2 DEF AcknowledgedIsMarked, InHand
<1> QED
  BY <1>4, <1>6, <1>7, <1>8 DEF IInv

LEMMA Inductive ==
    ASSUME IInv, [Next]_vars
    PROVE  IInv'
<1>1. CASE Restart
  BY <1>1, RestartStep
<1>2. ASSUME NEW r \in Requests, Arrive(r)
      PROVE  IInv'
  BY <1>2, ArriveStep
<1>3. ASSUME NEW r \in Requests, Proceed(r)
      PROVE  IInv'
  <2>1. CASE InsertQuestion(r)
    BY <2>1, InsertQuestionStep
  <2>2. CASE LoadQuestion(r)
    BY <2>2, LoadQuestionStep
  <2>3. CASE RemoveQuestion(r)
    BY <2>3, RemoveQuestionStep
  <2>4. CASE InsertAnswer(r)
    BY <2>4, InsertAnswerStep
  <2>5. CASE MarkAnswered(r)
    BY <2>5, MarkAnsweredStep
  <2>6. CASE RemoveAnswer(r)
    BY <2>6, RemoveAnswerStep
  <2>7. CASE \/ QuestionCreated(r) \/ SaveQuestion(r) \/ QuestionSaved(r)
             \/ AnswerRejected(r) \/ RefreshAnswer(r) \/ AnswerMarked(r) \/ LoadAnswer(r)
    BY <2>7, ReadingStep
  <2> QED
    BY <1>3, <2>1, <2>2, <2>3, <2>4, <2>5, <2>6, <2>7 DEF Proceed
<1>4. CASE UNCHANGED vars
  BY <1>4 DEF vars, IInv, TypeOK, NoOrphan, MarkedOrInFlight, MarkHasAnswer,
              AcknowledgedIsMarked, InHand, Questions, Answers, AnswersOf, OwnerOrAdmin, Marked
<1> QED
  BY <1>1, <1>2, <1>3, <1>4 DEF Next

\* Every reachable state satisfies the inductive invariant: the tables hang together,
\* and every request in flight holds what its handler takes for granted.
THEOREM Invariance == Spec => []IInv
<1>1. IInv /\ [Next]_vars => IInv'
  BY Inductive
<1> QED
  BY Initially, <1>1, PTL DEF Spec

-----------------------------------------------------------------------------
(* The invariants *)

\* The tables keep their columns and the foreign key of faith_answers: no answer
\* outlives its question, although delete_question only deletes the answers it loaded.
THEOREM ForeignKeyHolds == Spec => []TablesOK
<1>1. IInv => TablesOK
  BY DEF IInv, TablesOK
<1> QED
  BY Invariance, <1>1, PTL

\* is_answered says whether the question was answered, except while add_answer is
\* between its two transactions, or was cut off there.
THEOREM MarksAreRight == Spec => []MarksAgree
<1>1. IInv => MarksAgree
  BY DEF IInv, MarksAgree
<1> QED
  BY Invariance, <1>1, PTL

\* An answer acknowledged with 201 leaves its question marked, or deleted since, also
\* where add_answer skipped the mark on the strength of is_answered as loaded at first.
THEOREM AcknowledgedAnswers == Spec => []AcknowledgedIsMarked
<1>1. IInv => AcknowledgedIsMarked
  BY DEF IInv
<1> QED
  BY Invariance, <1>1, PTL

-----------------------------------------------------------------------------
(* The action properties *)

\* The steps that leave the table of questions, or of answers, alone.
LEMMA QuestionsStay ==
    ASSUME Next,
           \A r \in Requests : ~InsertQuestion(r) /\ ~MarkAnswered(r) /\ ~RemoveQuestion(r)
    PROVE  question' = question
<1>1. CASE Restart
  BY <1>1 DEF Restart
<1>2. CASE \E r \in Requests : Arrive(r)
  BY <1>2 DEF Arrive, CreateQuestion, UpdateQuestion, DeleteQuestion, AddAnswer, DeleteAnswer, Begin
<1>3. CASE \E r \in Requests : Proceed(r)
  BY <1>3 DEF Proceed, QuestionCreated, LoadQuestion, SaveQuestion, QuestionSaved, InsertAnswer,
              AnswerRejected, RefreshAnswer, AnswerMarked, LoadAnswer, RemoveAnswer
<1> QED
  BY <1>1, <1>2, <1>3 DEF Next

LEMMA AnswersStay ==
    ASSUME Next,
           \A r \in Requests : ~InsertAnswer(r) /\ ~RemoveAnswer(r) /\ ~RemoveQuestion(r)
    PROVE  answer' = answer
<1>1. CASE Restart
  BY <1>1 DEF Restart
<1>2. CASE \E r \in Requests : Arrive(r)
  BY <1>2 DEF Arrive, CreateQuestion, UpdateQuestion, DeleteQuestion, AddAnswer, DeleteAnswer, Begin
<1>3. CASE \E r \in Requests : Proceed(r)
  BY <1>3, SMTT(60) DEF Proceed, InsertQuestion, InsertWith, QuestionCreated, LoadQuestion, SaveQuestion,
              QuestionSaved, AnswerRejected, RefreshAnswer, MarkAnswered, AnswerMarked, LoadAnswer
<1> QED
  BY <1>1, <1>2, <1>3 DEF Next

\* A question that is marked stays marked as long as it is there: update_question, which
\* loaded it earlier, only writes the text.
THEOREM MarksStay == Spec => MarkIsKept
<1> DEFINE Kept == \A q \in Questions :
                      question[q].is_answered /\ question'[q] # Gone => question'[q].is_answered
<1>1. IInv /\ [Next]_vars => Kept
  <2> SUFFICES ASSUME IInv, [Next]_vars, NEW q \in Questions,
                      question[q].is_answered, question'[q] # Gone
               PROVE  question'[q].is_answered
    OBVIOUS
  <2>1. q \in QuestionIds /\ question[q] # NoRow /\ question \in [QuestionIds -> Question \union {NoRow, Gone}]
    BY DEF Questions, IInv, TypeOK
  <2>2. ASSUME NEW r \in Requests, InsertQuestion(r)
        PROVE  question'[q] = question[q]
    BY <2>1, <2>2 DEF InsertQuestion, InsertWith
  <2>3. ASSUME NEW r \in Requests, MarkAnswered(r)
        PROVE  question'[q] = question[q] \/ question'[q] = [question[q] EXCEPT !.is_answered = TRUE]
    BY <2>1, <2>3 DEF MarkAnswered
  <2>4. question[q] \in Question
    BY <2>1 DEF Questions
  <2>5. ASSUME NEW r \in Requests, RemoveQuestion(r)
        PROVE  question'[q] = question[q]
    BY <2>1, <2>5 DEF RemoveQuestion
  <2>6. \/ question'[q] = question[q]
        \/ question'[q] = [question[q] EXCEPT !.is_answered = TRUE]
    BY <2>2, <2>3, <2>5, QuestionsStay DEF vars
  <2> QED
    BY <2>4, <2>6 DEF Question
<1>2. IInv /\ [Next]_vars => [Kept]_vars
  BY <1>1
<1> QED
  BY Invariance, <1>2, PTL DEF Spec, MarkIsKept

\* An answer disappears only by a deletion of it, or of its question, whose user wrote
\* what is deleted or is an administrator; with its question only if it was loaded.
THEOREM AnswersRemovedRightly == Spec => RemovedRightly
<1> DEFINE Rightly ==
      \A a \in Answers : answer'[a] = Gone =>
          \E r \in Requests :
             \/ req[r].pc = "drop" /\ req[r].aid = a /\ OwnerOrAdmin(r, answer[a].author)
             \/ /\ req[r].pc = "delete" /\ req[r].qid = answer[a].question
                /\ req'[r].code = 200 /\ a \in req[r].loaded
                /\ OwnerOrAdmin(r, question[answer[a].question].author)
<1>1. IInv /\ [Next]_vars => Rightly
  <2> SUFFICES ASSUME IInv, [Next]_vars, NEW a \in Answers, answer'[a] = Gone
               PROVE  \E r \in Requests :
                         \/ req[r].pc = "drop" /\ req[r].aid = a /\ OwnerOrAdmin(r, answer[a].author)
                         \/ /\ req[r].pc = "delete" /\ req[r].qid = answer[a].question
                            /\ req'[r].code = 200 /\ a \in req[r].loaded
                            /\ OwnerOrAdmin(r, question[answer[a].question].author)
    OBVIOUS
  <2>1. /\ a \in AnswerIds /\ answer[a] # NoRow /\ answer'[a] # answer[a]
        /\ answer \in [AnswerIds -> Answer \union {NoRow, Gone}]
        /\ answer[a].question \in Questions
    BY DEF Answers, IInv, TypeOK, NoOrphan
  <2>2. ASSUME NEW r \in Requests, InsertAnswer(r)
        PROVE  FALSE
    BY <2>1, <2>2 DEF InsertAnswer
  <2>3. ASSUME NEW r \in Requests, RemoveAnswer(r)
        PROVE  req[r].pc = "drop" /\ req[r].aid = a /\ OwnerOrAdmin(r, answer[a].author)
    <3>1. InHand(r) /\ req[r].pc = "drop"
      BY <2>3 DEF IInv, RemoveAnswer
    <3>2. req[r].aid = a
      BY <2>1, <2>3 DEF RemoveAnswer
    <3> QED
      BY <3>1, <3>2 DEF InHand
  <2>4. ASSUME NEW r \in Requests, RemoveQuestion(r)
        PROVE  /\ req[r].pc = "delete" /\ req[r].qid = answer[a].question
               /\ req'[r].code = 200 /\ a \in req[r].loaded
               /\ OwnerOrAdmin(r, question[answer[a].question].author)
    <3>1. InHand(r) /\ req[r].pc = "delete"
      BY <2>4 DEF IInv, RemoveQuestion
    <3>2. a \in req[r].loaded /\ Reply(r, 200)
      BY <2>1, <2>4 DEF RemoveQuestion
    <3>3. req'[r].code = 200
      BY <3>2, ReplyRecord DEF IInv, TypeOK, Codes
    <3>4. req[r].qid = answer[a].question
      BY <3>1, <3>2 DEF InHand
    <3> QED
      BY <2>1, <3>1, <3>2, <3>3, <3>4 DEF InHand
  <2> QED
    BY <2>1, <2>2, <2>3, <2>4, AnswersStay DEF vars
<1>2. IInv /\ [Next]_vars => [Rightly]_vars
  BY <1>1
<1> QED
  BY Invariance, <1>2, PTL DEF Spec, RemovedRightly
=============================================================================
