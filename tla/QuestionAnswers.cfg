SPECIFICATION Spec
SYMMETRY Symmetry
CONSTANTS
    Users = {ana, bob}
    Requests = {r1, r2}
    QuestionIds = {q1}
    AnswerIds = {a1, a2}
    NoRow = NoRow
    Gone = Gone
    NoId = NoId
INVARIANTS TablesOK MarksAgree AcknowledgedIsMarked
PROPERTIES MarkIsKept RemovedRightly
