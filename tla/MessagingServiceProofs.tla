----------------------- MODULE MessagingServiceProofs -----------------------
(***************************************************************************)
(* Theorems about MessagingService, for any users, conversations and        *)
(* bounds.  Thirteen requests leave only a handful of changes of the two   *)
(* groups of tables: Change says which, and every invariant is shown to     *)
(* survive each change, not each request.                                   *)
(***************************************************************************)
EXTENDS MessagingService, FiniteSetTheorems, TLAPS

\* A row is known by its conversation, its user and its copy.
OneRowEach ==
    \A s, t \in settings : s.conv = t.conv /\ s.user = t.user /\ s.copy = t.copy => s = t

\* Ids of messages grow and are not given twice.
Ids == \A m \in message : m.id =< last /\ \A n \in message : m.id = n.id => m = n

\* OneDirect without counting.
OnePerPair == \A u, w \in Users : u # w => \A v1, v2 \in Found(u, w) : v1 = v2

\* DirectIsSeen without counting: the rows of a direct conversation are two, and one
\* of them, here mine, is not deleted.
BothRows ==
    \A v \in Conversations :
       kind[v] = "direct"
       => \E mine, other \in settings :
             /\ mine # other /\ mine.conv = v /\ other.conv = v /\ mine.is_deleted = FALSE
             /\ \A s \in settings : s.conv = v => s = mine \/ s = other

\* A receipt is known by its message, its user and its copy.
OneReceiptEach ==
    \A k, n \in receipt : k.msg = n.msg /\ k.user = n.user /\ k.copy = n.copy => k = n

\* ReadClears without counting.
Cleared ==
    answer.op = "read" /\ answer.code = 200
    => \A m \in MessagesIn(answer.conv) :
          m.sender # answer.user /\ (\E k \in ReceiptsOf(m, answer.user) : Pending(k))
          => \E k, n \in ReceiptsOf(m, answer.user) : k # n

IInv ==
    /\ TypeOK /\ NoOrphan /\ AdminStays /\ BothRows /\ OneRowEach /\ Ids /\ OnePerPair
    /\ OneReceiptEach /\ Cleared

-----------------------------------------------------------------------------
(* The changes *)

\* The row s with another is_deleted.
Turned(s, d) == [s EXCEPT !.is_deleted = d]

\* One row of a direct conversation comes back to its own user, or is deleted from
\* his view while the other one still has his.
Turns(s, d) ==
    /\ s \in settings /\ d \in BOOLEAN
    /\ kind[s.conv] = "direct" /\ kind' = kind
    /\ settings' = (settings \ {s}) \union {Turned(s, d)}
    /\ d = TRUE => \E t \in settings : t.conv = s.conv /\ t.user # s.user /\ ~t.is_deleted
    /\ d = FALSE => answer'.op # "plain" /\ answer'.user = s.user

\* A direct conversation of u and w starts with a row of each, none deleted.
OpensDirect(u, w, v, mine, other) ==
    /\ mine \in Row /\ mine.conv = v /\ mine.user = u /\ ~mine.is_deleted
    /\ other \in Row /\ other.conv = v /\ other.user = w /\ ~other.is_deleted
    /\ u = w => mine.copy # other.copy
    /\ Found(u, w) = {} /\ kind[v] = "unused"
    /\ kind' = [kind EXCEPT ![v] = "direct"]
    /\ settings' = settings \union {mine, other}

\* A group starts with rows of its own that differ by their keys, one of an
\* administrator, none deleted.
OpensGroup(v, rows) ==
    /\ v \in Conversations /\ rows \subseteq Row
    /\ \A s \in rows : s.conv = v /\ ~s.is_deleted
    /\ \A s, t \in rows : s.user = t.user /\ s.copy = t.copy => s = t
    /\ \E s \in rows : s.role = "admin"
    /\ kind[v] = "unused"
    /\ kind' = [kind EXCEPT ![v] = "group"]
    /\ settings' = settings \union rows

Joins(s) ==
    /\ s \in Row
    /\ kind[s.conv] = "group" /\ kind' = kind
    /\ RowsOf(s.user, s.conv) = {} /\ ~s.is_deleted
    /\ settings' = settings \union {s}

Leaves(s) ==
    /\ s \in settings
    /\ kind[s.conv] = "group" /\ kind' = kind
    /\ s.role # "admin"
    /\ settings' = settings \ {s}

\* What the requests make of the conversations and their rows ...
ConvChange ==
    \/ kind' = kind /\ settings' = settings
    \/ \E s \in settings, d \in BOOLEAN : Turns(s, d)
    \/ \E u, w \in Users, v \in Conversations, mine, other \in Row : OpensDirect(u, w, v, mine, other)
    \/ \E v \in Conversations, rows \in SUBSET Row : OpensGroup(v, rows)
    \/ \E s \in Row : Joins(s)
    \/ \E s \in settings : Leaves(s)

\* A message in a conversation there is, with receipts of its own that differ by
\* their keys.
Posts(m) ==
    /\ m \in Message /\ kind'[m.conv] \in {"direct", "group"}
    /\ m.reply_to = 0 \/ \E n \in message : n.id = m.reply_to
    /\ m.id = last + 1 /\ last' = last + 1
    /\ message' = message \union {m}
    /\ receipt' \subseteq Receipt /\ receipt \subseteq receipt'
    /\ \A k \in receipt' \ receipt : k.msg = m.id
    /\ \A k, n \in receipt' \ receipt : k.user = n.user /\ k.copy = n.copy => k = n

\* Receipts go forward.
Marks(ks, status) ==
    /\ ks \subseteq receipt /\ status \in {"delivered", "read"}
    /\ \A k \in ks : Rank(k.status) =< Rank(status)
    /\ last' = last /\ message' = message
    /\ receipt' = Marked(ks, status)

\* ... and of the messages and their receipts.
MessageChange ==
    \/ last' = last /\ message' = message /\ receipt' = receipt
    \/ \E m \in Message : Posts(m)
    \/ \E ks \in SUBSET receipt, status \in {"delivered", "read"} : Marks(ks, status)

\* All of a conversation goes.
Vanishes(v) ==
    /\ v \in Conversations
    /\ ~RepliedFrom(v)
    /\ kind' = [kind EXCEPT ![v] = "gone"]
    /\ settings' = {s \in settings : s.conv # v}
    /\ last' = last
    /\ message' = message \ MessagesIn(v)
    /\ receipt' = {k \in receipt : \A m \in MessagesIn(v) : m.id # k.msg}

Change == (ConvChange /\ MessageChange) \/ \E v \in Conversations : Vanishes(v)

AnswerType ==
    {Plain} \union [op : {"view", "add", "read", "delete", "post"}, user : Users,
                    conv : Conversations, code : {200, 500}]

-----------------------------------------------------------------------------
(* Rows and receipts *)

LEMMA TurnedRow ==
    ASSUME NEW s \in Row, NEW d \in BOOLEAN
    PROVE  /\ Turned(s, d) \in Row
           /\ Turned(s, d).conv = s.conv /\ Turned(s, d).user = s.user
           /\ Turned(s, d).copy = s.copy /\ Turned(s, d).role = s.role
           /\ Turned(s, d).is_deleted = d
BY DEF Turned, Row

LEMMA MarkedReceipt ==
    ASSUME NEW k \in Receipt, NEW status \in {"sent", "delivered", "read"}
    PROVE  /\ WithStatus(k, status) \in Receipt
           /\ WithStatus(k, status).msg = k.msg /\ WithStatus(k, status).user = k.user
           /\ WithStatus(k, status).copy = k.copy /\ WithStatus(k, status).status = status
BY DEF WithStatus, Receipt

\* What Reopen does, of which all requests that show a conversation consist.
LEMMA ReopenTurns ==
    ASSUME TypeOK, NEW u \in Users, NEW v \in Conversations, NEW s \in RowsOf(u, v), Reopen(s),
           kind' = kind, answer'.op # "plain", answer'.user = u
    PROVE  ConvChange
<1>1. s \in settings /\ s.conv = v /\ s.user = u
  BY DEF RowsOf
<1>2. CASE kind[s.conv] = "direct"
  <2>1. settings' = (settings \ {s}) \union {Turned(s, FALSE)}
    BY <1>2 DEF Reopen, Turned
  <2> QED
    BY <1>1, <1>2, <2>1 DEF ConvChange, Turns
<1>3. CASE kind[s.conv] # "direct"
  BY <1>3 DEF Reopen, ConvChange
<1> QED
  BY <1>2, <1>3

\* What NewMessage does, with receipts of its own or none.
LEMMA NewPosts ==
    ASSUME TypeOK, NEW u \in Users, NEW v \in Conversations, NEW to \in 0 .. MaxMessages,
           NewMessage(u, v, to), kind'[v] \in {"direct", "group"}, to = 0 \/ \E n \in message : n.id = to,
           receipt' \subseteq Receipt, receipt \subseteq receipt',
           \A k \in receipt' \ receipt : k.msg = last + 1,
           \A k, n \in receipt' \ receipt : k.user = n.user /\ k.copy = n.copy => k = n
    PROVE  MessageChange
<1> DEFINE m == [id |-> last + 1, conv |-> v, sender |-> u, reply_to |-> to]
<1>1. m \in Message
  BY BoundAssumption DEF NewMessage, Message, TypeOK
<1>2. m.id = last + 1 /\ m.conv = v /\ m.reply_to = to
  OBVIOUS
<1>3. message' = message \union {m} /\ last' = last + 1
  BY DEF NewMessage
<1> HIDE DEF m
<1>4. Posts(m)
  BY <1>1, <1>2, <1>3 DEF Posts
<1> QED
  BY <1>1, <1>4 DEF MessageChange

-----------------------------------------------------------------------------
(* Every request is one of the changes *)

LEMMA ViewAnswer ==
    ASSUME NEW u \in Users, NEW v \in Conversations, Viewed(u, v)
    PROVE  /\ answer' \in AnswerType
           /\ answer'.op # "plain" /\ answer'.user = u
<1>1. ViewCodes(v) \subseteq {200, 500}
  BY DEF ViewCodes, AfterCommit
<1> QED
  BY <1>1 DEF Viewed, Answered, AnswerType

LEMMA AnsweredType ==
    ASSUME NEW u \in Users, NEW v \in Conversations, NEW op \in {"add", "read", "delete", "post"},
           NEW codes \in SUBSET {200, 500}, Answered(op, u, v, codes)
    PROVE  /\ answer' \in AnswerType
           /\ answer'.op # "plain" /\ answer'.user = u
BY DEF Answered, AnswerType

LEMMA CodesAfterCommit == AfterCommit \in SUBSET {200, 500}
BY DEF AfterCommit

LEMMA DoneType == Done => answer' \in AnswerType
BY DEF Done, AnswerType

LEMMA OpenDirectChanges ==
    ASSUME TypeOK, NEW u \in Users, NEW w \in Users, OpenDirect(u, w)
    PROVE  Change /\ answer' \in AnswerType
<1>1. PICK v \in Conversations :
         (\E s \in RowsOf(u, v) : Reopen(s)) /\ Viewed(u, v) /\ UNCHANGED <<kind, last, message, receipt>>
  BY DEF OpenDirect, Found
<1>2. answer' \in AnswerType /\ answer'.op # "plain" /\ answer'.user = u
  BY <1>1, ViewAnswer
<1>3. ConvChange
  BY <1>1, <1>2, ReopenTurns
<1> QED
  BY <1>1, <1>2, <1>3 DEF Change, MessageChange

LEMMA CreateDirectChanges ==
    ASSUME TypeOK, NEW u \in Users, NEW w \in Users, NEW v \in Conversations, CreateDirect(u, w, v)
    PROVE  Change /\ answer' \in AnswerType
<1> DEFINE mine == [conv |-> v, user |-> u, copy |-> 1, role |-> "admin", is_deleted |-> FALSE]
           other == [conv |-> v, user |-> w, copy |-> IF w = u THEN 2 ELSE 1, role |-> "member",
                     is_deleted |-> FALSE]
<1>a. mine \in Row /\ mine.conv = v /\ mine.user = u /\ ~mine.is_deleted /\ mine.copy = 1
  BY DEF Row
<1>b. other \in Row /\ other.conv = v /\ other.user = w /\ ~other.is_deleted /\ (u = w => other.copy = 2)
  BY DEF Row
<1>c. settings' = settings \union {mine, other}
  BY DEF CreateDirect
<1> HIDE DEF mine, other
<1>1. OpensDirect(u, w, v, mine, other) /\ Viewed(u, v)
  BY <1>a, <1>b, <1>c DEF CreateDirect, OpensDirect
<1>2. ConvChange /\ answer' \in AnswerType
  BY <1>1, <1>a, <1>b, ViewAnswer DEF ConvChange
<1>3. kind'[v] \in {"direct", "group"}
  BY <1>1 DEF OpensDirect, TypeOK
<1>4. receipt' = receipt /\ receipt \subseteq Receipt
  BY DEF CreateDirect, TypeOK
<1>5. CASE NewMessage(u, v, 0)
  BY <1>3, <1>4, <1>5, NewPosts, BoundAssumption, 0 \in 0 .. MaxMessages, <1>2 DEF Change
<1>6. CASE UNCHANGED <<last, message>>
  BY <1>2, <1>4, <1>6 DEF Change, MessageChange
<1> QED
  BY <1>5, <1>6 DEF CreateDirect

LEMMA OneMember ==
    ASSUME NEW v, NEW listed,
           NEW s \in [conv : {v}, user : listed, copy : {1}, role : {"member"}, is_deleted : {FALSE}]
    PROVE  s = [conv |-> v, user |-> s.user, copy |-> 1, role |-> "member", is_deleted |-> FALSE]
<1>1. s = [conv |-> s.conv, user |-> s.user, copy |-> s.copy, role |-> s.role,
           is_deleted |-> s.is_deleted]
  OBVIOUS
<1>2. s.conv = v /\ s.copy = 1 /\ s.role = "member" /\ s.is_deleted = FALSE
  OBVIOUS
<1> QED
  BY <1>1, <1>2

LEMMA CreateGroupChanges ==
    ASSUME TypeOK, NEW u \in Users, NEW listed \in SUBSET Users, NEW v \in Conversations,
           CreateGroup(u, listed, v)
    PROVE  Change /\ answer' \in AnswerType
<1> DEFINE members == [conv : {v}, user : listed, copy : {1}, role : {"member"}, is_deleted : {FALSE}]
           founder == [conv |-> v, user |-> u, copy |-> IF u \in listed THEN 2 ELSE 1,
                       role |-> "admin", is_deleted |-> FALSE]
           rows == members \union {founder}
<1>1. settings' = settings \union rows
  BY DEF CreateGroup
<1>2. founder \in Row /\ founder.conv = v /\ founder.user = u /\ ~founder.is_deleted
      /\ founder.role = "admin" /\ (u \in listed => founder.copy = 2)
  BY DEF Row
<1>3. \A s \in members : /\ s \in Row /\ s.conv = v /\ s.user \in listed /\ s.copy = 1 /\ ~s.is_deleted
                         /\ s.role = "member"
  BY DEF Row
<1>4. \A s, t \in members : s.user = t.user => s = t
  <2>1. \A s \in members :
           s = [conv |-> v, user |-> s.user, copy |-> 1, role |-> "member", is_deleted |-> FALSE]
    BY OneMember
  <2> HIDE DEF members
  <2> QED
    BY <2>1
<1> HIDE DEF members, founder
<1>5. rows \subseteq Row /\ \A s \in rows : s.conv = v /\ ~s.is_deleted
  BY <1>2, <1>3
<1>6. \E s \in rows : s.role = "admin"
  BY <1>2
<1>7. \A s, t \in rows : s.user = t.user /\ s.copy = t.copy => s = t
  <2>1. \A s \in members : s.user # founder.user \/ s.copy # founder.copy
    BY <1>2, <1>3
  <2> QED
    BY <2>1, <1>4
<1>8. OpensGroup(v, rows)
  BY <1>1, <1>5, <1>6, <1>7 DEF OpensGroup, CreateGroup
<1>9. ConvChange
  BY <1>5, <1>8 DEF ConvChange
<1> QED
  BY <1>9, DoneType DEF CreateGroup, Change, MessageChange

LEMMA GetConversationChanges ==
    ASSUME TypeOK, NEW u \in Users, NEW v \in Conversations, GetConversation(u, v)
    PROVE  Change /\ answer' \in AnswerType
<1>1. PICK s \in RowsOf(u, v) : Reopen(s)
  BY DEF GetConversation
<1>2. answer' \in AnswerType /\ answer'.op # "plain" /\ answer'.user = u
  BY ViewAnswer DEF GetConversation
<1>3. ConvChange
  BY <1>1, <1>2, ReopenTurns DEF GetConversation
<1> QED
  BY <1>2, <1>3 DEF GetConversation, Change, MessageChange

LEMMA AddMemberChanges ==
    ASSUME TypeOK, NoOrphan, NEW u \in Users, NEW v \in Conversations, NEW w \in Users,
           AddMember(u, v, w)
    PROVE  Change /\ answer' \in AnswerType
<1> DEFINE s == [conv |-> v, user |-> w, copy |-> 1, role |-> "member", is_deleted |-> FALSE]
<1>1. s \in Row /\ s.conv = v /\ s.user = w /\ ~s.is_deleted /\ settings' = settings \union {s}
  BY DEF AddMember, Row
<1> HIDE DEF s
<1>2. Joins(s)
  BY <1>1 DEF AddMember, Joins
<1>3. ConvChange
  BY <1>1, <1>2 DEF ConvChange
<1>4. kind'[v] \in {"direct", "group"} /\ NewMessage(u, v, 0)
  BY DEF AddMember
<1>5. receipt' = receipt /\ receipt \subseteq Receipt
  BY DEF AddMember, TypeOK
<1>6. MessageChange
  BY <1>4, <1>5, NewPosts, BoundAssumption, 0 \in 0 .. MaxMessages
<1>7. answer' \in AnswerType
  <2>1. Answered("add", u, v, {500})
    BY DEF AddMember
  <2> QED
    BY <2>1, AnsweredType
<1> QED
  BY <1>3, <1>6, <1>7 DEF Change

LEMMA HardDeleteChanges ==
    ASSUME TypeOK, NEW u \in Users, NEW v \in Conversations, HardDelete(u, v)
    PROVE  Change /\ answer' \in AnswerType
<1>1. CASE RepliedFrom(v)
  <2>1. Change
    BY <1>1 DEF HardDelete, tables, Change, ConvChange, MessageChange
  <2>2. Answered("delete", u, v, {500})
    BY <1>1 DEF HardDelete
  <2> QED
    BY <2>1, <2>2, AnsweredType
<1>2. CASE ~RepliedFrom(v)
  <2>1. Vanishes(v) /\ Answered("delete", u, v, IF kind[v] = "group" THEN AfterCommit ELSE {200})
    BY <1>2 DEF HardDelete, Vanishes
  <2> QED
    BY <2>1, AnsweredType, CodesAfterCommit DEF Change
<1> QED
  BY <1>1, <1>2

LEMMA DeleteDirectChanges ==
    ASSUME TypeOK, NEW u \in Users, NEW v \in Conversations, DeleteDirect(u, v)
    PROVE  Change /\ answer' \in AnswerType
<1>1. CASE HardDelete(u, v)
  BY <1>1, HardDeleteChanges
<1>2. CASE ~HardDelete(u, v)
  <2>1. PICK s \in RowsOf(u, v) :
           /\ ~(\A t \in settings : t.conv = v /\ t.user # u => t.is_deleted)
           /\ settings' = (settings \ {s}) \union {[s EXCEPT !.is_deleted = TRUE]}
           /\ UNCHANGED <<kind, last, message, receipt>>
           /\ Answered("delete", u, v, AfterCommit)
    BY <1>2, Zenon DEF DeleteDirect
  <2>2. s \in settings /\ s.conv = v /\ s.user = u /\ kind[s.conv] = "direct" /\ kind' = kind
    BY <2>1 DEF RowsOf, DeleteDirect
  <2>3. settings' = (settings \ {s}) \union {Turned(s, TRUE)}
    BY <2>1 DEF Turned
  <2>4. \E t \in settings : t.conv = s.conv /\ t.user # s.user /\ ~t.is_deleted
    BY <2>1, <2>2, Zenon
  <2>5. Turns(s, TRUE)
    BY <2>1, <2>2, <2>3, <2>4, TRUE # FALSE, Zenon DEF Turns
  <2>6. ConvChange
    BY <2>2, <2>5, TRUE \in BOOLEAN, Zenon DEF ConvChange
  <2>7. MessageChange
    BY <2>1 DEF MessageChange
  <2>8. answer' \in AnswerType
    BY <2>1, AnsweredType, CodesAfterCommit
  <2> QED
    BY <2>6, <2>7, <2>8 DEF Change
<1> QED
  BY <1>1, <1>2

LEMMA LeaveGroupChanges ==
    ASSUME TypeOK, NEW u \in Users, NEW v \in Conversations, LeaveGroup(u, v)
    PROVE  Change /\ answer' \in AnswerType
<1>1. PICK s \in RowsOf(u, v) : s.role # "admin" /\ settings' = settings \ {s}
  BY DEF LeaveGroup
<1>2. s \in settings /\ Leaves(s)
  BY <1>1 DEF LeaveGroup, Leaves, RowsOf
<1>3. ConvChange
  BY <1>2 DEF ConvChange
<1>4. kind'[v] \in {"direct", "group"} /\ NewMessage(u, v, 0)
  BY DEF LeaveGroup
<1>5. receipt' = receipt /\ receipt \subseteq Receipt
  BY DEF LeaveGroup, TypeOK
<1>6. MessageChange
  BY <1>4, <1>5, NewPosts, BoundAssumption, 0 \in 0 .. MaxMessages
<1>7. answer' \in AnswerType
  BY AnsweredType, CodesAfterCommit DEF LeaveGroup
<1> QED
  BY <1>3, <1>6, <1>7 DEF Change

\* Receipts that are marked as read, whatever they were, go forward.
LEMMA ReadMarks ==
    ASSUME TypeOK, NEW ks \in SUBSET receipt, receipt' = Marked(ks, "read"), last' = last, message' = message
    PROVE  MessageChange
<1>1. \A k \in ks : Rank(k.status) =< Rank("read")
  BY DEF TypeOK, Receipt, Rank
<1> QED
  BY <1>1 DEF Marks, MessageChange

LEMMA MarkReadChanges ==
    ASSUME TypeOK, NEW u \in Users, NEW v \in Conversations, MarkRead(u, v)
    PROVE  Change /\ answer' \in AnswerType
<1>1. CASE \E m \in UnreadIn(u, v) : ReceiptsOf(m, u) = {}
  <2>1. UNCHANGED tables /\ Answered("read", u, v, {500})
    BY <1>1 DEF MarkRead
  <2>2. Change
    BY <2>1 DEF tables, Change, ConvChange, MessageChange
  <2> QED
    BY <2>1, <2>2, AnsweredType
<1>2. CASE ~\E m \in UnreadIn(u, v) : ReceiptsOf(m, u) = {}
  <2>1. UNCHANGED settings \/ \E s \in RowsOf(u, v) : Reopen(s)
    BY <1>2 DEF MarkRead
  <2>2. PICK first \in [UnreadIn(u, v) -> receipt] :
           receipt' = Marked({first[m] : m \in UnreadIn(u, v)}, "read")
    BY <1>2 DEF MarkRead
  <2>3. UNCHANGED <<kind, last, message>> /\ \E codes \in SUBSET {200, 500} : Answered("read", u, v, codes)
    BY <1>2, CodesAfterCommit DEF MarkRead
  <2>4. answer' \in AnswerType /\ answer'.op # "plain" /\ answer'.user = u
    BY <2>3, AnsweredType
  <2>5. ConvChange
    <3>1. CASE UNCHANGED settings
      BY <2>3, <3>1 DEF ConvChange
    <3>2. CASE \E s \in RowsOf(u, v) : Reopen(s)
      BY <2>3, <2>4, <3>2, ReopenTurns
    <3> QED
      BY <2>1, <3>1, <3>2
  <2>6. {first[m] : m \in UnreadIn(u, v)} \in SUBSET receipt
    BY <2>2
  <2>7. MessageChange
    BY <2>2, <2>3, <2>6, ReadMarks
  <2> QED
    BY <2>4, <2>5, <2>7 DEF Change
<1> QED
  BY <1>1, <1>2

LEMMA CreateMessageChanges ==
    ASSUME TypeOK, NoOrphan, NEW u \in Users, NEW v \in Conversations, NEW to \in 0 .. last,
           CreateMessage(u, v, to)
    PROVE  Change /\ answer' \in AnswerType
<1> DEFINE new == {[msg |-> last + 1, user |-> s.user, copy |-> s.copy, status |-> "sent"]
                   : s \in {t \in settings : t.conv = v}}
<1>1. /\ receipt' = receipt \union new /\ NewMessage(u, v, to) /\ UNCHANGED <<kind, settings>>
      /\ Answered("post", u, v, AfterCommit)
  BY DEF CreateMessage
<1>2. last + 1 \in 1 .. MaxMessages /\ to \in 0 .. MaxMessages
  BY <1>1, BoundAssumption DEF NewMessage, TypeOK
<1>3. \A k \in new : k \in Receipt /\ k.msg = last + 1
  BY <1>2 DEF TypeOK, Row, Receipt
<1>8. \A k, n \in new : k.user = n.user /\ k.copy = n.copy => k = n
  OBVIOUS
<1> HIDE DEF new
<1>9. \A k, n \in receipt' \ receipt : k.user = n.user /\ k.copy = n.copy => k = n
  BY <1>1, <1>8
<1>4. receipt' \subseteq Receipt /\ receipt \subseteq receipt' /\ \A k \in receipt' \ receipt : k.msg = last + 1
  BY <1>1, <1>3 DEF TypeOK
<1>5. kind'[v] \in {"direct", "group"}
  BY <1>1 DEF CreateMessage, RowsOf, NoOrphan, Exists
<1>6. to = 0 \/ \E n \in message : n.id = to
  BY DEF CreateMessage
<1>7. MessageChange
  BY <1>1, <1>2, <1>4, <1>5, <1>6, <1>9, NewPosts
<1> QED
  BY <1>1, <1>7, AnsweredType, CodesAfterCommit DEF Change, ConvChange

LEMMA GetMessageChanges ==
    ASSUME TypeOK, NEW u \in Users, NEW m \in message, GetMessage(u, m)
    PROVE  Change /\ answer' \in AnswerType
<1>1. kind' = kind /\ settings' = settings /\ last' = last /\ message' = message /\ Done
  BY DEF GetMessage
<1>2. MessageChange
  <2>1. CASE receipt' = receipt
    BY <1>1, <2>1 DEF MessageChange
  <2>2. CASE \E k \in ReceiptsOf(m, u) : receipt' = Marked({k}, "read")
    BY <1>1, <2>2, ReadMarks DEF ReceiptsOf
  <2> QED
    BY <2>1, <2>2 DEF GetMessage
<1> QED
  BY <1>1, <1>2, DoneType DEF Change, ConvChange

LEMMA GetMessagesChanges ==
    ASSUME TypeOK, NEW u \in Users, NEW v \in Conversations, NEW from, NEW before,
           GetMessages(u, v, from, before)
    PROVE  Change /\ answer' \in AnswerType
<1>1. kind' = kind /\ settings' = settings /\ last' = last /\ message' = message /\ Done
  BY DEF GetMessages
<1> DEFINE page == {m \in MessagesIn(v) : from =< m.id /\ m.id < before /\ ReceiptsOf(m, u) # {}}
           ks(first) == {k \in {first[m] : m \in page} : k.status = "sent"}
<1>2. PICK first \in [page -> receipt] : receipt' = Marked(ks(first), "delivered")
  BY DEF GetMessages
<1>3. ks(first) \subseteq receipt /\ \A k \in ks(first) : k.status = "sent"
  BY <1>2
<1> HIDE DEF ks
<1>4. Marks(ks(first), "delivered")
  BY <1>1, <1>2, <1>3 DEF Marks, Rank
<1>5. MessageChange
  BY <1>3, <1>4 DEF MessageChange
<1> QED
  BY <1>1, <1>5, DoneType DEF Change, ConvChange

LEMMA MarkAllReadChanges ==
    ASSUME TypeOK, NEW u \in Users, NEW v \in Conversations, MarkAllRead(u, v)
    PROVE  Change /\ answer' \in AnswerType
<1>1. kind' = kind /\ settings' = settings /\ last' = last /\ message' = message /\ Done
  BY DEF MarkAllRead
<1> DEFINE ks == {k \in receipt : k.user = u /\ Pending(k) /\ \E m \in MessagesIn(v) : m.id = k.msg}
<1>2. receipt' = Marked(ks, "read") /\ ks \in SUBSET receipt
  BY DEF MarkAllRead
<1> HIDE DEF ks
<1>3. MessageChange
  BY <1>1, <1>2, ReadMarks
<1> QED
  BY <1>1, <1>3, DoneType DEF Change, ConvChange

\* Every request is a change.
LEMMA Changes ==
    ASSUME TypeOK, NoOrphan, Next
    PROVE  Change /\ answer' \in AnswerType
<1> PICK u \in Users :
       \/ \E w \in Users : OpenDirect(u, w)
       \/ \E v \in Conversations :
             \/ \E w \in Users : CreateDirect(u, w, v) \/ AddMember(u, v, w)
             \/ \E listed \in SUBSET Users : CreateGroup(u, listed, v)
             \/ GetConversation(u, v)
             \/ DeleteDirect(u, v) \/ DeleteGroup(u, v) \/ LeaveGroup(u, v)
             \/ MarkRead(u, v) \/ MarkAllRead(u, v)
             \/ \E to \in 0 .. last : CreateMessage(u, v, to)
             \/ \E from \in 1 .. last, before \in 2 .. last + 1 : GetMessages(u, v, from, before)
       \/ \E m \in message : GetMessage(u, m)
  BY Zenon DEF Next
<1>1. CASE \E w \in Users : OpenDirect(u, w)
  BY <1>1, OpenDirectChanges
<1>2. ASSUME NEW v \in Conversations, NEW w \in Users, CreateDirect(u, w, v) \/ AddMember(u, v, w)
      PROVE  Change /\ answer' \in AnswerType
  BY <1>2, CreateDirectChanges, AddMemberChanges
<1>3. ASSUME NEW v \in Conversations, NEW listed \in SUBSET Users, CreateGroup(u, listed, v)
      PROVE  Change /\ answer' \in AnswerType
  BY <1>3, CreateGroupChanges
<1>4. ASSUME NEW v \in Conversations, GetConversation(u, v) \/ MarkRead(u, v) \/ MarkAllRead(u, v)
      PROVE  Change /\ answer' \in AnswerType
  BY <1>4, GetConversationChanges, MarkReadChanges, MarkAllReadChanges
<1>5. ASSUME NEW v \in Conversations, DeleteDirect(u, v) \/ DeleteGroup(u, v) \/ LeaveGroup(u, v)
      PROVE  Change /\ answer' \in AnswerType
  BY <1>5, DeleteDirectChanges, HardDeleteChanges, LeaveGroupChanges DEF DeleteGroup
<1>6. ASSUME NEW v \in Conversations, NEW to \in 0 .. last, CreateMessage(u, v, to)
      PROVE  Change /\ answer' \in AnswerType
  BY <1>6, CreateMessageChanges
<1>7. ASSUME NEW v \in Conversations, NEW from, NEW before, GetMessages(u, v, from, before)
      PROVE  Change /\ answer' \in AnswerType
  BY <1>7, GetMessagesChanges
<1>8. CASE \E m \in message : GetMessage(u, m)
  BY <1>8, GetMessageChanges
<1> QED
  BY <1>1, <1>2, <1>3, <1>4, <1>5, <1>6, <1>7, <1>8, Zenon

-----------------------------------------------------------------------------
(* What the changes keep *)

LEMMA Initially == Init => IInv
<1> SUFFICES ASSUME Init PROVE IInv
  OBVIOUS
<1>1. TypeOK /\ NoOrphan /\ AdminStays /\ BothRows /\ OneRowEach /\ Ids
  BY BoundAssumption DEF Init, TypeOK, NoOrphan, AdminStays, BothRows, OneRowEach, Ids
<1>2. OnePerPair
  BY DEF Init, OnePerPair, Found
<1>3. OneReceiptEach /\ Cleared
  BY DEF Init, OneReceiptEach, Cleared, Plain
<1> QED
  BY <1>1, <1>2, <1>3 DEF IInv

\* A marked receipt is one that was there, with another status.
LEMMA MarkedOnes ==
    ASSUME TypeOK, NEW ks \in SUBSET receipt, NEW status \in {"delivered", "read"},
           NEW k \in Marked(ks, status)
    PROVE  k \in Receipt /\ \E n \in receipt : n.msg = k.msg
<1>1. CASE k \in receipt
  BY <1>1 DEF TypeOK
<1>2. CASE k \notin receipt
  <2>1. PICK n \in ks : k = WithStatus(n, status)
    BY <1>2 DEF Marked
  <2>2. n \in receipt /\ n \in Receipt
    BY DEF TypeOK
  <2> QED
    BY <2>1, <2>2, MarkedReceipt
<1> QED
  BY <1>1, <1>2

LEMMA TypesKept ==
    ASSUME IInv, Change, answer' \in AnswerType
    PROVE  TypeOK'
<1> USE DEF IInv
<1>1. answer' \in {Plain} \union [op : {"view", "add", "read", "delete", "post"}, user : Users,
                                  conv : Conversations, code : {200, 500}]
  BY DEF AnswerType
<1>2. ASSUME ConvChange
      PROVE  kind' \in [Conversations -> {"unused", "direct", "group", "gone"}] /\ settings' \subseteq Row
  <2>1. CASE kind' = kind /\ settings' = settings
    BY <2>1 DEF TypeOK
  <2>2. ASSUME NEW s \in settings, NEW d \in BOOLEAN, Turns(s, d)
        PROVE  kind' = kind /\ settings' \subseteq Row
    <3>1. s \in Row
      BY DEF TypeOK
    <3> QED
      BY <2>2, <3>1, TurnedRow DEF Turns, TypeOK
  <2>3. ASSUME NEW u \in Users, NEW w \in Users, NEW v \in Conversations, NEW mine \in Row,
               NEW other \in Row, OpensDirect(u, w, v, mine, other)
        PROVE  kind' \in [Conversations -> {"unused", "direct", "group", "gone"}] /\ settings' \subseteq Row
    BY <2>3 DEF OpensDirect, TypeOK
  <2>4. ASSUME NEW v \in Conversations, NEW rows \in SUBSET Row, OpensGroup(v, rows)
        PROVE  kind' \in [Conversations -> {"unused", "direct", "group", "gone"}] /\ settings' \subseteq Row
    BY <2>4 DEF OpensGroup, TypeOK
  <2>5. CASE (\E s \in Row : Joins(s)) \/ (\E s \in settings : Leaves(s))
    BY <2>5 DEF Joins, Leaves, TypeOK
  <2> QED
    BY <1>2, <2>1, <2>2, <2>3, <2>4, <2>5 DEF ConvChange, TypeOK
<1>3. ASSUME MessageChange
      PROVE  last' \in 0 .. MaxMessages /\ message' \subseteq Message /\ receipt' \subseteq Receipt
  <2>1. CASE last' = last /\ message' = message /\ receipt' = receipt
    BY <2>1 DEF TypeOK
  <2>2. ASSUME NEW m \in Message, Posts(m)
        PROVE  last' \in 0 .. MaxMessages /\ message' \subseteq Message /\ receipt' \subseteq Receipt
    <3>1. m.id \in 1 .. MaxMessages
      BY DEF Message
    <3> QED
      BY <2>2, <3>1, BoundAssumption DEF Posts, TypeOK
  <2>3. ASSUME NEW ks \in SUBSET receipt, NEW status \in {"delivered", "read"}, Marks(ks, status)
        PROVE  last' = last /\ message' = message /\ receipt' \subseteq Receipt
    BY <2>3, MarkedOnes DEF Marks
  <2> QED
    BY <1>3, <2>1, <2>2, <2>3 DEF MessageChange, TypeOK
<1>4. ASSUME NEW v \in Conversations, Vanishes(v)
      PROVE  /\ kind' \in [Conversations -> {"unused", "direct", "group", "gone"}]
             /\ settings' \subseteq Row /\ last' \in 0 .. MaxMessages
             /\ message' \subseteq Message /\ receipt' \subseteq Receipt
  BY <1>4 DEF Vanishes, TypeOK
<1> QED
  BY <1>1, <1>2, <1>3, <1>4 DEF Change, TypeOK

\* The rows of a conversation that is not there yet.
LEMMA UnusedIsEmpty ==
    ASSUME IInv, NEW v \in Conversations, kind[v] = "unused"
    PROVE  \A s \in settings : s.conv # v
BY DEF IInv, NoOrphan, Exists

\* The conversations there are stay what they are, and every row is of one of them.
LEMMA KindsKept ==
    ASSUME IInv, ConvChange
    PROVE  /\ \A v \in Conversations : Exists(v) => kind'[v] = kind[v]
           /\ \A s \in settings' : kind'[s.conv] \in {"direct", "group"}
<1>0. \A s \in settings : s \in Row /\ s.conv \in Conversations /\ kind[s.conv] \in {"direct", "group"}
  BY DEF IInv, TypeOK, Row, NoOrphan, Exists
<1>1. CASE kind' = kind /\ settings' = settings
  BY <1>0, <1>1 DEF IInv, NoOrphan, Exists
<1>2. ASSUME NEW s \in settings, NEW d \in BOOLEAN, Turns(s, d)
      PROVE  kind' = kind /\ \A t \in settings' : kind'[t.conv] \in {"direct", "group"}
  BY <1>0, <1>2, TurnedRow DEF Turns
<1>3. ASSUME NEW u \in Users, NEW w \in Users, NEW v \in Conversations, NEW mine \in Row,
             NEW other \in Row, OpensDirect(u, w, v, mine, other)
      PROVE  /\ \A x \in Conversations : Exists(x) => kind'[x] = kind[x]
             /\ \A s \in settings' : kind'[s.conv] \in {"direct", "group"}
  BY <1>0, <1>3 DEF OpensDirect, IInv, TypeOK, Exists
<1>4. ASSUME NEW v \in Conversations, NEW rows \in SUBSET Row, OpensGroup(v, rows)
      PROVE  /\ \A x \in Conversations : Exists(x) => kind'[x] = kind[x]
             /\ \A s \in settings' : kind'[s.conv] \in {"direct", "group"}
  BY <1>0, <1>4 DEF OpensGroup, IInv, TypeOK, Exists
<1>5. ASSUME NEW s \in Row, Joins(s)
      PROVE  kind' = kind /\ \A t \in settings' : kind'[t.conv] \in {"direct", "group"}
  BY <1>0, <1>5 DEF Joins
<1>6. ASSUME NEW s \in settings, Leaves(s)
      PROVE  kind' = kind /\ \A t \in settings' : kind'[t.conv] \in {"direct", "group"}
  BY <1>0, <1>6 DEF Leaves
<1> QED
  BY <1>1, <1>2, <1>3, <1>4, <1>5, <1>6 DEF ConvChange

LEMMA OrphansKept ==
    ASSUME IInv, Change
    PROVE  NoOrphan'
<1>0. \A m \in message : m \in Message /\ m.conv \in Conversations
  BY DEF IInv, TypeOK, Message
<1>1. ASSUME ConvChange, MessageChange
      PROVE  NoOrphan'
  <2>1. /\ \A v \in Conversations : Exists(v) => kind'[v] = kind[v]
        /\ \A s \in settings' : kind'[s.conv] \in {"direct", "group"}
    BY <1>1, KindsKept
  <2>2. \A m \in message : kind'[m.conv] \in {"direct", "group"}
    BY <1>0, <2>1 DEF IInv, NoOrphan, Exists
  <2>3. CASE last' = last /\ message' = message /\ receipt' = receipt
    BY <2>1, <2>2, <2>3 DEF IInv, NoOrphan, Exists
  <2>4. ASSUME NEW m \in Message, Posts(m)
        PROVE  NoOrphan'
    BY <2>1, <2>2, <2>4 DEF Posts, IInv, NoOrphan, Exists
  <2>5. ASSUME NEW ks \in SUBSET receipt, NEW status \in {"delivered", "read"}, Marks(ks, status)
        PROVE  NoOrphan'
    <3>1. \A k \in receipt' : \E n \in receipt : n.msg = k.msg
      BY <2>5, MarkedOnes DEF Marks, IInv
    <3> QED
      BY <2>1, <2>2, <2>5, <3>1 DEF Marks, IInv, NoOrphan, Exists
  <2> QED
    BY <1>1, <2>3, <2>4, <2>5 DEF MessageChange
<1>2. ASSUME NEW v \in Conversations, Vanishes(v)
      PROVE  NoOrphan'
  <2>1. \A x \in Conversations : x # v => kind'[x] = kind[x]
    BY <1>2 DEF Vanishes, IInv, TypeOK
  <2>2. \A s \in settings' : Exists(s.conv)'
    <3>1. \A s \in settings : s.conv \in Conversations
      BY DEF IInv, TypeOK, Row
    <3> QED
      BY <1>2, <2>1, <3>1 DEF Vanishes, IInv, NoOrphan, Exists
  <2>3. \A m \in message' : m \in message /\ m.conv # v
    BY <1>2 DEF Vanishes, MessagesIn
  <2>4. \A m \in message' : kind'[m.conv] \in {"direct", "group"}
    BY <1>0, <2>1, <2>3 DEF IInv, NoOrphan, Exists
  <2>5. \A m \in message' : m.reply_to = 0 \/ \E n \in message' : n.id = m.reply_to
    BY <1>2, <2>3 DEF Vanishes, RepliedFrom, IInv, NoOrphan
  <2>6. \A k \in receipt' : \E m \in message' : m.id = k.msg
    BY <1>2 DEF Vanishes, IInv, NoOrphan
  <2> QED
    BY <2>2, <2>4, <2>5, <2>6 DEF NoOrphan, Exists
<1> QED
  BY <1>1, <1>2 DEF Change

LEMMA IdsKept ==
    ASSUME IInv, Change
    PROVE  Ids'
<1>0. last \in Nat /\ \A m \in message : m.id \in Nat
  BY BoundAssumption DEF IInv, TypeOK, Message
<1>1. ASSUME MessageChange
      PROVE  Ids'
  <2>1. CASE \E m \in Message : Posts(m)
    BY <1>0, <2>1 DEF Posts, IInv, Ids
  <2>2. CASE last' = last /\ message' = message
    BY <2>2 DEF IInv, Ids
  <2> QED
    BY <1>1, <2>1, <2>2 DEF MessageChange, Marks
<1>2. CASE \E v \in Conversations : Vanishes(v)
  BY <1>2 DEF Vanishes, IInv, Ids
<1> QED
  BY <1>1, <1>2 DEF Change

LEMMA RowsDiffer ==
    ASSUME IInv, Change
    PROVE  OneRowEach'
<1>0. \A s \in settings : s \in Row
  BY DEF IInv, TypeOK
<1>1. CASE kind' = kind /\ settings' = settings
  BY <1>1 DEF IInv, OneRowEach
<1>2. ASSUME NEW s \in settings, NEW d \in BOOLEAN, Turns(s, d)
      PROVE  OneRowEach'
  <2>1. /\ Turned(s, d).conv = s.conv /\ Turned(s, d).user = s.user /\ Turned(s, d).copy = s.copy
        /\ settings' = (settings \ {s}) \union {Turned(s, d)}
    BY <1>0, <1>2, TurnedRow DEF Turns
  <2> QED
    BY <2>1 DEF IInv, OneRowEach
<1>3. ASSUME NEW u \in Users, NEW w \in Users, NEW v \in Conversations, NEW mine \in Row,
             NEW other \in Row, OpensDirect(u, w, v, mine, other)
      PROVE  OneRowEach'
  BY <1>3, UnusedIsEmpty DEF OpensDirect, IInv, OneRowEach
<1>4. ASSUME NEW v \in Conversations, NEW rows \in SUBSET Row, OpensGroup(v, rows)
      PROVE  OneRowEach'
  BY <1>4, UnusedIsEmpty DEF OpensGroup, IInv, OneRowEach
<1>5. ASSUME NEW s \in Row, Joins(s)
      PROVE  OneRowEach'
  BY <1>5 DEF Joins, RowsOf, IInv, OneRowEach
<1>6. CASE settings' \subseteq settings
  BY <1>6 DEF IInv, OneRowEach
<1>7. CASE (\E s \in settings : Leaves(s)) \/ \E v \in Conversations : Vanishes(v)
  BY <1>6, <1>7 DEF Leaves, Vanishes
<1> QED
  BY <1>1, <1>2, <1>3, <1>4, <1>5, <1>7 DEF Change, ConvChange

LEMMA AdminsKept ==
    ASSUME IInv, Change
    PROVE  AdminStays'
<1>0. \A s \in settings : s \in Row
  BY DEF IInv, TypeOK
<1>1. CASE kind' = kind /\ settings' = settings
  BY <1>1 DEF IInv, AdminStays
<1>2. ASSUME NEW s \in settings, NEW d \in BOOLEAN, Turns(s, d)
      PROVE  AdminStays'
  BY <1>2 DEF Turns, IInv, AdminStays
<1>3. ASSUME NEW u \in Users, NEW w \in Users, NEW v \in Conversations, NEW mine \in Row,
             NEW other \in Row, OpensDirect(u, w, v, mine, other)
      PROVE  AdminStays'
  BY <1>3 DEF OpensDirect, IInv, TypeOK, AdminStays
<1>4. ASSUME NEW v \in Conversations, NEW rows \in SUBSET Row, OpensGroup(v, rows)
      PROVE  AdminStays'
  BY <1>4 DEF OpensGroup, IInv, TypeOK, AdminStays
<1>5. CASE (\E s \in Row : Joins(s)) \/ \E s \in settings : Leaves(s)
  BY <1>5 DEF Joins, Leaves, IInv, AdminStays
<1>6. ASSUME NEW v \in Conversations, Vanishes(v)
      PROVE  AdminStays'
  BY <1>6 DEF Vanishes, IInv, TypeOK, AdminStays
<1> QED
  BY <1>1, <1>2, <1>3, <1>4, <1>5, <1>6 DEF Change, ConvChange

\* The users of a direct conversation never change.
LEMMA PairsKept ==
    ASSUME IInv, Change
    PROVE  OnePerPair'
<1>0. \A s \in settings : s \in Row /\ s.conv \in Conversations
  BY DEF IInv, TypeOK, Row
<1> SUFFICES ASSUME NEW a \in Users, NEW b \in Users, a # b,
                    NEW v1 \in Conversations, NEW v2 \in Conversations,
                    kind'[v1] = "direct", kind'[v2] = "direct",
                    NEW s1 \in settings', s1.user = a, s1.conv = v1,
                    NEW t1 \in settings', t1.user = b, t1.conv = v1,
                    NEW s2 \in settings', s2.user = a, s2.conv = v2,
                    NEW t2 \in settings', t2.user = b, t2.conv = v2
             PROVE  v1 = v2
  BY DEF OnePerPair, Found, RowsOf
<1>a. ASSUME NEW v \in Conversations, kind[v] = "direct",
             NEW s \in settings, s.user = a, s.conv = v, NEW t \in settings, t.user = b, t.conv = v
      PROVE  v \in Found(a, b)
  BY <1>a DEF Found, RowsOf
<1>b. \A x, y \in Found(a, b) : x = y
  BY DEF IInv, OnePerPair
<1>c. CASE settings' \subseteq settings /\ (kind'[v1] = "direct" => kind[v1] = "direct")
           /\ (kind'[v2] = "direct" => kind[v2] = "direct")
  BY <1>a, <1>b, <1>c
<1>1. CASE kind' = kind /\ settings' = settings
  BY <1>1, <1>c
<1>2. ASSUME NEW s \in settings, NEW d \in BOOLEAN, Turns(s, d)
      PROVE  v1 = v2
  <2>1. \A x \in settings' : \E y \in settings : y.conv = x.conv /\ y.user = x.user
    BY <1>0, <1>2, TurnedRow DEF Turns
  <2>2. v1 \in Found(a, b)
    <3>1. PICK y \in settings : y.conv = v1 /\ y.user = a
      BY <2>1
    <3>2. PICK z \in settings : z.conv = v1 /\ z.user = b
      BY <2>1
    <3> QED
      BY <1>2, <1>a, <3>1, <3>2 DEF Turns
  <2>3. v2 \in Found(a, b)
    <3>1. PICK y \in settings : y.conv = v2 /\ y.user = a
      BY <2>1
    <3>2. PICK z \in settings : z.conv = v2 /\ z.user = b
      BY <2>1
    <3> QED
      BY <1>2, <1>a, <3>1, <3>2 DEF Turns
  <2> QED
    BY <1>b, <2>2, <2>3
<1>3. ASSUME NEW u \in Users, NEW w \in Users, NEW v \in Conversations, NEW mine \in Row,
             NEW other \in Row, OpensDirect(u, w, v, mine, other)
      PROVE  v1 = v2
  <2>1. \A s \in settings : s.conv # v
    BY <1>3, UnusedIsEmpty DEF OpensDirect
  <2>2. \A s \in settings' : s \in settings \/ s = mine \/ s = other
    BY <1>3 DEF OpensDirect
  <2>3. mine.conv = v /\ other.conv = v /\ mine.user = u /\ other.user = w /\ Found(u, w) = {}
    BY <1>3 DEF OpensDirect
  <2>4. \A x \in Conversations : x # v => kind'[x] = kind[x]
    BY <1>3 DEF OpensDirect, IInv, TypeOK
  <2>5. ASSUME NEW x \in Conversations, x # v, kind'[x] = "direct",
               NEW s \in settings', s.user = a, s.conv = x, NEW t \in settings', t.user = b, t.conv = x
        PROVE  x \in Found(a, b)
    BY <1>a, <2>2, <2>3, <2>4, <2>5
  <2>6. ASSUME NEW s \in settings', s.user = a, s.conv = v, NEW t \in settings', t.user = b, t.conv = v
        PROVE  Found(a, b) = {}
    <3>1. (a = u /\ b = w) \/ (a = w /\ b = u)
      BY <2>1, <2>2, <2>3, <2>6
    <3> QED
      BY <2>3, <3>1 DEF Found
  <2> QED
    BY <1>b, <2>5, <2>6
<1>4. ASSUME NEW v \in Conversations, NEW rows \in SUBSET Row, OpensGroup(v, rows)
      PROVE  v1 = v2
  <2>1. kind'[v] = "group" /\ \A x \in Conversations : x # v => kind'[x] = kind[x]
    BY <1>4 DEF OpensGroup, IInv, TypeOK
  <2>2. \A s \in settings' : s.conv # v => s \in settings
    BY <1>4 DEF OpensGroup
  <2> QED
    BY <1>a, <1>b, <2>1, <2>2
<1>5. ASSUME NEW s \in Row, Joins(s)
      PROVE  v1 = v2
  <2>1. kind' = kind /\ \A x \in settings' : kind[x.conv] = "direct" => x \in settings
    BY <1>5 DEF Joins
  <2> QED
    BY <1>a, <1>b, <2>1
<1>6. CASE \E s \in settings : Leaves(s)
  BY <1>6, <1>c DEF Leaves
<1>7. ASSUME NEW v \in Conversations, Vanishes(v)
      PROVE  v1 = v2
  BY <1>7, <1>c DEF Vanishes, IInv, TypeOK
<1> QED
  BY <1>1, <1>2, <1>3, <1>4, <1>5, <1>6, <1>7 DEF Change, ConvChange

\* Both rows stay, since they differ by their keys and only is_deleted is assigned, and
\* a view is deleted only beside one that is not.
LEMMA SeenKept ==
    ASSUME IInv, Change
    PROVE  BothRows'
<1>0. \A s \in settings : s \in Row
  BY DEF IInv, TypeOK
<1>1. CASE kind' = kind /\ settings' = settings
  BY <1>1 DEF IInv, BothRows
<1>2. ASSUME NEW s \in settings, NEW d \in BOOLEAN, Turns(s, d)
      PROVE  BothRows'
  <2> DEFINE r == Turned(s, d)
  <2>1. r.conv = s.conv /\ r.user = s.user /\ r.copy = s.copy /\ r.is_deleted = d
    BY <1>0, TurnedRow
  <2>2. settings' = (settings \ {s}) \union {r} /\ kind' = kind /\ kind[s.conv] = "direct"
    BY <1>2 DEF Turns
  <2>3. d = TRUE => \E t \in settings : t.conv = s.conv /\ t.user # s.user /\ t.is_deleted = FALSE
    <3>1. ASSUME d = TRUE
          PROVE  \E t \in settings : t.conv = s.conv /\ t.user # s.user /\ ~t.is_deleted
      BY <1>2, <3>1, Zenon DEF Turns
    <3>2. \A t \in settings : t.is_deleted \in BOOLEAN
      BY <1>0 DEF Row
    <3> QED
      BY <3>1, <3>2, Zenon
  <2> HIDE DEF r
  <2>4. SUFFICES ASSUME NEW v \in Conversations, kind[v] = "direct"
                 PROVE  \E mine, other \in settings' :
                           /\ mine # other /\ mine.conv = v /\ other.conv = v /\ mine.is_deleted = FALSE
                           /\ \A t \in settings' : t.conv = v => t = mine \/ t = other
    BY <2>2 DEF BothRows
  <2>5. PICK a \in settings, b \in settings :
           /\ a # b /\ a.conv = v /\ b.conv = v /\ a.is_deleted = FALSE
           /\ \A t \in settings : t.conv = v => t = a \/ t = b
    BY <2>4 DEF IInv, BothRows
  <2>6. CASE v # s.conv
    BY <2>1, <2>2, <2>5, <2>6
  <2>7. CASE v = s.conv
    <3>1. PICK o \in settings : o # s /\ o.conv = v /\ \A t \in settings : t.conv = v => t = s \/ t = o
      BY <2>5, <2>7
    <3>2. o # r
      BY <2>1, <2>7, <3>1 DEF IInv, OneRowEach
    <3>3. o \in settings' /\ r \in settings' /\ r.conv = v
      BY <2>1, <2>2, <2>7, <3>1
    <3>4. \A t \in settings' : t.conv = v => t = r \/ t = o
      BY <2>2, <3>1
    <3>5. CASE d = FALSE
      BY <2>1, <3>1, <3>2, <3>3, <3>4, <3>5
    <3>6. CASE d = TRUE
      <4>1. o.is_deleted = FALSE
        BY <2>3, <2>7, <3>1, <3>6
      <4> QED
        BY <3>1, <3>2, <3>3, <3>4, <4>1
    <3> QED
      BY <3>5, <3>6
  <2> QED
    BY <2>6, <2>7
<1>3. ASSUME NEW u \in Users, NEW w \in Users, NEW v \in Conversations, NEW mine \in Row,
             NEW other \in Row, OpensDirect(u, w, v, mine, other)
      PROVE  BothRows'
  <2>1. \A s \in settings : s.conv # v
    BY <1>3, UnusedIsEmpty DEF OpensDirect
  <2>2. /\ mine # other /\ mine.conv = v /\ other.conv = v
        /\ settings' = settings \union {mine, other}
    BY <1>3 DEF OpensDirect
  <2>3. mine.is_deleted = FALSE
    BY <1>3 DEF OpensDirect, Row
  <2>4. \A x \in Conversations : x # v => kind'[x] = kind[x]
    BY <1>3 DEF OpensDirect, IInv, TypeOK
  <2>5. ASSUME NEW x \in Conversations, kind'[x] = "direct"
        PROVE  \E m, o \in settings' :
                  /\ m # o /\ m.conv = x /\ o.conv = x /\ m.is_deleted = FALSE
                  /\ \A s \in settings' : s.conv = x => s = m \/ s = o
    <3>1. CASE x = v
      BY <2>1, <2>2, <2>3, <3>1
    <3>2. CASE x # v
      BY <2>2, <2>4, <2>5, <3>2 DEF IInv, BothRows
    <3> QED
      BY <3>1, <3>2
  <2> QED
    BY <2>5 DEF BothRows
<1>4. ASSUME NEW v \in Conversations, NEW rows \in SUBSET Row, OpensGroup(v, rows)
      PROVE  BothRows'
  <2>1. /\ kind'[v] = "group" /\ \A x \in Conversations : x # v => kind'[x] = kind[x]
        /\ settings' = settings \union rows /\ \A s \in rows : s.conv = v
    BY <1>4 DEF OpensGroup, IInv, TypeOK
  <2> QED
    BY <2>1 DEF IInv, BothRows
<1>5. ASSUME NEW s \in Row, Joins(s)
      PROVE  BothRows'
  BY <1>5 DEF Joins, IInv, BothRows
<1>6. ASSUME NEW s \in settings, Leaves(s)
      PROVE  BothRows'
  BY <1>6 DEF Leaves, IInv, BothRows
<1>7. ASSUME NEW v \in Conversations, Vanishes(v)
      PROVE  BothRows'
  BY <1>7 DEF Vanishes, IInv, TypeOK, BothRows
<1> QED
  BY <1>1, <1>2, <1>3, <1>4, <1>5, <1>6, <1>7 DEF Change, ConvChange

\* Receipts that are marked keep their keys, and new ones are of a new message.
LEMMA ReceiptsDiffer ==
    ASSUME IInv, Change
    PROVE  OneReceiptEach'
<1>0. receipt \subseteq Receipt /\ \A k \in receipt : k.msg # last + 1
  <2>1. \A m \in message : m.id \in Nat /\ m.id =< last
    BY DEF IInv, TypeOK, Message, Ids
  <2>2. last \in Nat
    BY BoundAssumption DEF IInv, TypeOK
  <2> QED
    BY <2>1, <2>2 DEF IInv, TypeOK, NoOrphan
<1>1. CASE receipt' \subseteq receipt
  BY <1>1 DEF IInv, OneReceiptEach
<1>2. ASSUME NEW m \in Message, Posts(m)
      PROVE  OneReceiptEach'
  BY <1>0, <1>2 DEF Posts, IInv, OneReceiptEach
<1>3. ASSUME NEW ks \in SUBSET receipt, NEW status \in {"delivered", "read"}, Marks(ks, status)
      PROVE  OneReceiptEach'
  <2>1. \A k \in receipt' :
           \/ k \in receipt \ ks
           \/ \E n \in ks : /\ k = WithStatus(n, status)
                            /\ n.msg = k.msg /\ n.user = k.user /\ n.copy = k.copy
    <3>1. \A n \in ks : /\ WithStatus(n, status).msg = n.msg /\ WithStatus(n, status).user = n.user
                         /\ WithStatus(n, status).copy = n.copy
      BY <1>0, MarkedReceipt
    <3> QED
      BY <1>3, <3>1 DEF Marks, Marked
  <2> SUFFICES ASSUME NEW k \in receipt', NEW n \in receipt',
                      k.msg = n.msg, k.user = n.user, k.copy = n.copy
               PROVE  k = n
    BY DEF OneReceiptEach
  <2>2. PICK k0 \in receipt :
           /\ k0.msg = k.msg /\ k0.user = k.user /\ k0.copy = k.copy
           /\ k0 \in ks => k = WithStatus(k0, status)
           /\ k0 \notin ks => k = k0
    BY <2>1
  <2>3. PICK n0 \in receipt :
           /\ n0.msg = n.msg /\ n0.user = n.user /\ n0.copy = n.copy
           /\ n0 \in ks => n = WithStatus(n0, status)
           /\ n0 \notin ks => n = n0
    BY <2>1
  <2>4. k0 = n0
    BY <2>2, <2>3 DEF IInv, OneReceiptEach
  <2> QED
    BY <2>2, <2>3, <2>4
<1>4. CASE \E v \in Conversations : Vanishes(v)
  BY <1>1, <1>4 DEF Vanishes
<1> QED
  BY <1>1, <1>2, <1>3, <1>4 DEF Change, MessageChange

\* What a request with an answer of its own leaves in answer.
LEMMA AnswerOf ==
    ASSUME NEW op, NEW u, NEW v, NEW codes, Answered(op, u, v, codes)
    PROVE  answer'.op = op /\ answer'.user = u /\ answer'.conv = v /\ answer'.code \in codes
BY DEF Answered

LEMMA ViewOf ==
    ASSUME NEW u, NEW v, Viewed(u, v)
    PROVE  answer'.op = "view" /\ answer'.user = u /\ answer'.conv = v
BY AnswerOf DEF Viewed

\* Only POST .../read is answered as one.
LEMMA ReadIsMarkRead ==
    ASSUME Next, answer'.op = "read"
    PROVE  \E u \in Users, v \in Conversations : MarkRead(u, v)
<1>1. ASSUME Done PROVE FALSE
  BY <1>1 DEF Done, Plain
<1>2. ASSUME NEW u, NEW v, Viewed(u, v) PROVE FALSE
  BY <1>2, ViewOf
<1>3. ASSUME NEW u, NEW v, NEW op \in {"add", "delete", "post"}, NEW codes, Answered(op, u, v, codes)
      PROVE  FALSE
  BY <1>3, AnswerOf
<1>4. ASSUME NEW u, NEW v, HardDelete(u, v) PROVE FALSE
  <2>1. \E codes : Answered("delete", u, v, codes)
    BY <1>4 DEF HardDelete
  <2> QED
    BY <2>1, <1>3
<1>5. ASSUME NEW u, NEW w, OpenDirect(u, w) PROVE FALSE
  BY <1>2, <1>5, Zenon DEF OpenDirect
<1>6. ASSUME NEW u, NEW v, NEW w, CreateDirect(u, w, v) PROVE FALSE
  BY <1>2, <1>6, Zenon DEF CreateDirect
<1>7. ASSUME NEW u, NEW v, NEW w, AddMember(u, v, w) PROVE FALSE
  <2>1. Answered("add", u, v, {500})
    BY <1>7 DEF AddMember
  <2> QED
    BY <2>1, <1>3
<1>8. ASSUME NEW u, NEW v, GetConversation(u, v) PROVE FALSE
  BY <1>2, <1>8, Zenon DEF GetConversation
<1>9. ASSUME NEW u, NEW v, DeleteDirect(u, v) \/ DeleteGroup(u, v) \/ LeaveGroup(u, v) PROVE FALSE
  <2>1. HardDelete(u, v) \/ Answered("delete", u, v, AfterCommit)
    BY <1>9 DEF DeleteDirect, DeleteGroup, LeaveGroup
  <2> QED
    BY <2>1, <1>3, <1>4
<1>10. ASSUME NEW u, NEW v, MarkAllRead(u, v) PROVE FALSE
  BY <1>1, <1>10, Zenon DEF MarkAllRead
<1>11. ASSUME NEW u, NEW v, NEW listed, CreateGroup(u, listed, v) PROVE FALSE
  BY <1>1, <1>11, Zenon DEF CreateGroup
<1>12. ASSUME NEW u, NEW v, NEW to, CreateMessage(u, v, to) PROVE FALSE
  <2>1. Answered("post", u, v, AfterCommit)
    BY <1>12 DEF CreateMessage
  <2> QED
    BY <2>1, <1>3
<1>13. ASSUME NEW u, NEW v, NEW from, NEW before, GetMessages(u, v, from, before) PROVE FALSE
  BY <1>1, <1>13, Zenon DEF GetMessages
<1>14. ASSUME NEW u, NEW m, GetMessage(u, m) PROVE FALSE
  BY <1>1, <1>14, Zenon DEF GetMessage
<1> QED
  BY <1>5, <1>6, <1>7, <1>8, <1>9, <1>10, <1>11, <1>12, <1>13, <1>14, Zenon DEF Next

\* POST .../read either fails before it commits anything or has marked the receipts,
\* whatever it answers.
LEMMA MarkReadEither ==
    ASSUME NEW u, NEW v, MarkRead(u, v)
    PROVE  /\ answer'.op = "read" /\ answer'.user = u /\ answer'.conv = v /\ message' = message
           /\ \/ tables' = tables /\ answer'.code = 500
              \/ \A m \in UnreadIn(u, v) : ReceiptsOf(m, u) # {}
<1>1. \E codes : Answered("read", u, v, codes)
  BY DEF MarkRead
<1>2. message' = message
  BY DEF MarkRead, tables
<1>3. CASE \E m \in UnreadIn(u, v) : ReceiptsOf(m, u) = {}
  <2>1. UNCHANGED tables /\ Answered("read", u, v, {500})
    BY <1>3 DEF MarkRead
  <2> QED
    BY <1>1, <1>2, <2>1, AnswerOf
<1>4. CASE ~\E m \in UnreadIn(u, v) : ReceiptsOf(m, u) = {}
  BY <1>1, <1>2, <1>4, AnswerOf
<1> QED
  BY <1>3, <1>4

\* Marking leaves a user who had a receipt of a message with one.
LEMMA MarkedStay ==
    ASSUME receipt \subseteq Receipt, NEW ks \in SUBSET receipt, receipt' = Marked(ks, "read"),
           NEW m, NEW u, NEW k \in ReceiptsOf(m, u)
    PROVE  \E n \in receipt' : n.msg = m.id /\ n.user = u
<1>1. k \in receipt /\ k \in Receipt /\ k.msg = m.id /\ k.user = u
  BY DEF ReceiptsOf
<1>2. WithStatus(k, "read").msg = m.id /\ WithStatus(k, "read").user = u
  BY <1>1, MarkedReceipt
<1> QED
  BY <1>1, <1>2 DEF Marked

\* When POST .../read has marked the receipts, everything has one, and what is pending
\* is the second receipt of a message whose first one has been marked.
LEMMA ClearedByMarkRead ==
    ASSUME IInv, NEW u \in Users, NEW v \in Conversations, MarkRead(u, v),
           \A m \in UnreadIn(u, v) : ReceiptsOf(m, u) # {},
           NEW m \in message, m.conv = v, m.sender # u
    PROVE  /\ \E n \in receipt' : n.msg = m.id /\ n.user = u
           /\ \A k \in receipt' :
                 k.msg = m.id /\ k.user = u /\ Pending(k)
                 => \E n \in receipt' : n.msg = m.id /\ n.user = u /\ n # k
<1>1. ~\E x \in UnreadIn(u, v) : ReceiptsOf(x, u) = {}
  OBVIOUS
<1>2. PICK first \in [UnreadIn(u, v) -> receipt] :
         /\ \A x \in UnreadIn(u, v) : first[x] \in ReceiptsOf(x, u)
         /\ receipt' = Marked({first[x] : x \in UnreadIn(u, v)}, "read")
  BY <1>1 DEF MarkRead
<1> DEFINE ks == {first[x] : x \in UnreadIn(u, v)}
<1>3. ks \subseteq receipt /\ receipt \subseteq Receipt
  BY <1>2 DEF IInv, TypeOK
<1>4. ReceiptsOf(m, u) # {}
  BY DEF UnreadIn, MessagesIn
<1>5. \E n \in receipt' : n.msg = m.id /\ n.user = u
  <2>1. receipt' = Marked(ks, "read")
    BY <1>2
  <2> HIDE DEF ks
  <2> QED
    BY <1>3, <1>4, <2>1, MarkedStay
<1>6. ASSUME NEW k \in receipt', k.msg = m.id, k.user = u, Pending(k)
      PROVE  \E n \in receipt' : n.msg = m.id /\ n.user = u /\ n # k
  <2>1. \A n \in ks : /\ WithStatus(n, "read").status = "read" /\ WithStatus(n, "read").msg = n.msg
                      /\ WithStatus(n, "read").user = n.user
    BY <1>3, MarkedReceipt
  <2>2. k \in receipt \ ks
    BY <1>2, <1>6, <2>1 DEF Marked, Pending
  <2>3. m \in UnreadIn(u, v)
    BY <1>6, <2>2 DEF UnreadIn, MessagesIn, ReceiptsOf
  <2>4. first[m] \in ks /\ first[m].msg = m.id /\ first[m].user = u
    BY <1>2, <2>3 DEF ReceiptsOf
  <2>5. WithStatus(first[m], "read") \in receipt'
    BY <1>2, <2>4 DEF Marked
  <2> HIDE DEF ks
  <2>6. WithStatus(first[m], "read") # k
    BY <1>6, <2>1, <2>4 DEF Pending
  <2> QED
    BY <2>1, <2>4, <2>5, <2>6
<1> QED
  BY <1>5, <1>6

LEMMA ClearedKept ==
    ASSUME IInv, Next
    PROVE  Cleared'
<1> SUFFICES ASSUME answer'.op = "read", answer'.code = 200,
                    NEW m \in message', m.conv = answer'.conv, m.sender # answer'.user,
                    NEW k \in receipt', k.msg = m.id, k.user = answer'.user, Pending(k)
             PROVE  \E n \in receipt' : n.msg = m.id /\ n.user = answer'.user /\ n # k
  BY DEF Cleared, MessagesIn, ReceiptsOf
<1>1. PICK u \in Users, v \in Conversations : MarkRead(u, v)
  BY ReadIsMarkRead
<1>2. /\ answer'.user = u /\ answer'.conv = v /\ message' = message
      /\ \A x \in UnreadIn(u, v) : ReceiptsOf(x, u) # {}
  BY <1>1, MarkReadEither
<1> QED
  BY <1>1, <1>2, ClearedByMarkRead

LEMMA StepKeeps == IInv /\ [Next]_vars => IInv'
<1> SUFFICES ASSUME IInv, [Next]_vars PROVE IInv'
  OBVIOUS
<1>1. CASE Next
  <2>1. Change /\ answer' \in AnswerType
    BY <1>1, Changes DEF IInv
  <2> QED
    BY <2>1, TypesKept, OrphansKept, AdminsKept, SeenKept, RowsDiffer, IdsKept, PairsKept,
       ReceiptsDiffer, ClearedKept, <1>1 DEF IInv
<1>2. CASE UNCHANGED vars
  <2>1. TypeOK' /\ NoOrphan' /\ AdminStays'
    BY <1>2 DEF IInv, vars, tables, TypeOK, NoOrphan, Exists, AdminStays
  <2>2. BothRows' /\ OneRowEach' /\ Ids'
    BY <1>2 DEF IInv, vars, tables, BothRows, OneRowEach, Ids
  <2>3. OnePerPair'
    BY <1>2 DEF IInv, vars, tables, OnePerPair, Found, RowsOf
  <2>4. OneReceiptEach' /\ Cleared'
    BY <1>2 DEF IInv, vars, tables, OneReceiptEach, Cleared, MessagesIn, ReceiptsOf
  <2> QED
    BY <2>1, <2>2, <2>3, <2>4 DEF IInv
<1> QED
  BY <1>1, <1>2

-----------------------------------------------------------------------------
(* Theorems *)

\* Whatever requests come in whatever order, the tables hold what IInv says.
THEOREM Invariance == Spec => []IInv
<1>1. Init => IInv
  BY Initially
<1>2. IInv /\ [Next]_vars => IInv'
  BY StepKeeps
<1> QED
  BY <1>1, <1>2, PTL DEF Spec

\* Rows stay of their kind, and deleting a conversation, a group member leaving or a
\* deletion that fails leaves no row without the conversation or message it refers to.
THEOREM TablesKept == Spec => []TablesOK
<1>1. IInv => TablesOK
  BY DEF IInv, TablesOK
<1> QED
  BY <1>1, Invariance, PTL

\* A group has an administrator as long as it exists, whoever leaves or is added.
THEOREM AdminNeverGone == Spec => []AdminStays
<1>1. IInv => AdminStays
  BY DEF IInv
<1> QED
  BY <1>1, Invariance, PTL

\* Two users have at most one direct conversation and one of its users sees it, by
\* whatever creating, opening and deleting of either.
THEOREM OneDirectSeen == Spec => []DirectOK
<1>1. ASSUME IInv PROVE OneDirect
  <2> SUFFICES ASSUME NEW u \in Users, NEW w \in Users, u # w
               PROVE  Cardinality(Found(u, w)) =< 1
    BY DEF OneDirect
  <2>1. \A v1, v2 \in Found(u, w) : v1 = v2
    BY <1>1 DEF IInv, OnePerPair
  <2>2. CASE Found(u, w) = {}
    BY <2>2, FS_EmptySet
  <2>3. CASE Found(u, w) # {}
    <3>1. PICK v : Found(u, w) = {v}
      BY <2>1, <2>3
    <3>2. Cardinality({v}) = 1
      BY FS_Singleton
    <3> QED
      BY <3>1, <3>2
  <2> QED
    BY <2>2, <2>3
<1>2. ASSUME IInv PROVE DirectIsSeen
  <2> SUFFICES ASSUME NEW v \in Conversations, kind[v] = "direct"
               PROVE  LET rows == {s \in settings : s.conv = v} IN
                      Cardinality(rows) = 2 /\ \E s \in rows : ~s.is_deleted
    BY DEF DirectIsSeen
  <2>1. PICK a \in settings, b \in settings :
           /\ a # b /\ a.conv = v /\ b.conv = v /\ a.is_deleted = FALSE
           /\ \A s \in settings : s.conv = v => s = a \/ s = b
    BY <1>2 DEF IInv, BothRows
  <2>2. {s \in settings : s.conv = v} = {a} \union {b}
    BY <2>1
  <2>3. Cardinality({a} \union {b}) = 2
    <3>1. IsFiniteSet({a}) /\ Cardinality({a}) = 1
      BY FS_Singleton
    <3>2. Cardinality({a} \union {b}) = Cardinality({a}) + 1
      BY <2>1, <3>1, FS_AddElement
    <3> QED
      BY <3>1, <3>2
  <2> QED
    BY <2>1, <2>2, <2>3
<1>3. IInv => DirectOK
  BY <1>1, <1>2 DEF DirectOK
<1> QED
  BY <1>3, Invariance, PTL

LEMMA ForwardStep ==
    ASSUME IInv, Change
    PROVE  \A k \in receipt :
              (\E m \in message' : m.id = k.msg)
              => \E n \in receipt' : /\ <<n.msg, n.user, n.copy>> = <<k.msg, k.user, k.copy>>
                                     /\ Rank(n.status) >= Rank(k.status)
<1> SUFFICES ASSUME NEW k \in receipt, NEW m \in message', m.id = k.msg
             PROVE  \E n \in receipt' : /\ <<n.msg, n.user, n.copy>> = <<k.msg, k.user, k.copy>>
                                        /\ Rank(n.status) >= Rank(k.status)
  OBVIOUS
<1>1. k \in Receipt /\ k.status \in {"sent", "delivered", "read"}
  BY DEF IInv, TypeOK, Receipt
<1>2. \A status \in {"sent", "delivered", "read"} : Rank(status) \in Nat
  BY DEF Rank
<1>3. CASE k \in receipt'
  BY <1>1, <1>2, <1>3
<1>4. CASE MessageChange
  <2>1. CASE receipt' = receipt \/ \E x \in Message : Posts(x)
    BY <1>3, <2>1 DEF Posts
  <2>2. ASSUME NEW ks \in SUBSET receipt, NEW status \in {"delivered", "read"}, Marks(ks, status)
        PROVE  \E n \in receipt' : /\ <<n.msg, n.user, n.copy>> = <<k.msg, k.user, k.copy>>
                                   /\ Rank(n.status) >= Rank(k.status)
    <3>1. CASE k \in ks
      <4>1. WithStatus(k, status) \in receipt' /\ Rank(k.status) =< Rank(status)
        BY <2>2, <3>1 DEF Marks, Marked
      <4>2. /\ WithStatus(k, status).msg = k.msg /\ WithStatus(k, status).user = k.user
            /\ WithStatus(k, status).copy = k.copy /\ WithStatus(k, status).status = status
        BY <1>1, MarkedReceipt
      <4> QED
        BY <1>1, <1>2, <4>1, <4>2
    <3>2. CASE k \notin ks
      BY <1>3, <2>2, <3>2 DEF Marks, Marked
    <3> QED
      BY <3>1, <3>2
  <2> QED
    BY <1>4, <2>1, <2>2 DEF MessageChange
<1>5. ASSUME NEW v \in Conversations, Vanishes(v)
      PROVE  k \in receipt'
  <2>1. m \in message /\ m \notin MessagesIn(v)
    BY <1>5 DEF Vanishes
  <2>2. \A x \in MessagesIn(v) : x.id # k.msg
    BY <2>1 DEF MessagesIn, IInv, Ids
  <2> QED
    BY <1>5, <2>2 DEF Vanishes
<1> QED
  BY <1>3, <1>4, <1>5 DEF Change

\* No request, by whichever of the four handlers that mark receipts, takes a receipt
\* back to an earlier status or away before its message.
THEOREM ForwardOnly == Spec => ReceiptsForward
<1>1. ASSUME IInv, [Next]_vars
      PROVE  [\A k \in receipt :
                 (\E m \in message' : m.id = k.msg)
                 => \E n \in receipt' : /\ <<n.msg, n.user, n.copy>> = <<k.msg, k.user, k.copy>>
                                        /\ Rank(n.status) >= Rank(k.status)]_vars
  <2>1. CASE Next
    <3>1. Change
      BY <1>1, <2>1, Changes DEF IInv
    <3> QED
      BY <1>1, <3>1, ForwardStep
  <2> QED
    BY <1>1, <2>1
<1> QED
  BY <1>1, Invariance, PTL DEF Spec, ReceiptsForward

LEMMA OwnStep ==
    ASSUME IInv, Change, NEW s \in settings, s.is_deleted = TRUE, Turned(s, FALSE) \in settings'
    PROVE  answer'.op # "plain" /\ answer'.user = s.user
<1> DEFINE r == Turned(s, FALSE)
<1>1. \A t \in settings : t \in Row
  BY DEF IInv, TypeOK
<1>2. r.conv = s.conv /\ r.user = s.user /\ r.copy = s.copy /\ r.is_deleted = FALSE
  BY <1>1, FALSE \in BOOLEAN, TurnedRow
<1>3. r \in settings'
  OBVIOUS
<1> HIDE DEF r
<1>4. r \notin settings
  BY <1>2, TRUE # FALSE DEF IInv, OneRowEach
<1>5. ASSUME NEW t \in settings, NEW d \in BOOLEAN, Turns(t, d)
      PROVE  answer'.op # "plain" /\ answer'.user = s.user
  <2>1. r = Turned(t, d)
    BY <1>3, <1>4, <1>5 DEF Turns
  <2>2. t.user = s.user /\ d = FALSE
    BY <1>1, <1>2, <2>1, TurnedRow
  <2> QED
    BY <1>5, <2>2 DEF Turns
<1>6. ASSUME NEW u \in Users, NEW w \in Users, NEW v \in Conversations, NEW mine \in Row,
             NEW other \in Row, OpensDirect(u, w, v, mine, other)
      PROVE  FALSE
  <2>1. s.conv # v
    BY <1>6, UnusedIsEmpty DEF OpensDirect
  <2> QED
    BY <1>2, <1>3, <1>4, <1>6, <2>1 DEF OpensDirect
<1>7. ASSUME NEW v \in Conversations, NEW rows \in SUBSET Row, OpensGroup(v, rows)
      PROVE  FALSE
  <2>1. s.conv # v
    BY <1>7, UnusedIsEmpty DEF OpensGroup
  <2> QED
    BY <1>2, <1>3, <1>4, <1>7, <2>1 DEF OpensGroup
<1>8. ASSUME NEW x \in Row, Joins(x)
      PROVE  FALSE
  BY <1>2, <1>3, <1>4, <1>8 DEF Joins, RowsOf
<1>9. CASE \/ settings' = settings \/ \E t \in settings : Leaves(t)
           \/ \E v \in Conversations : Vanishes(v)
  BY <1>3, <1>4, <1>9 DEF Leaves, Vanishes
<1> QED
  BY <1>5, <1>6, <1>7, <1>8, <1>9 DEF Change, ConvChange

\* A conversation deleted from somebody's view comes back to it by a request of his
\* own, never by what the other does.
THEOREM BackByOwn == Spec => ComesBackByOwn
<1>1. ASSUME IInv, [Next]_vars
      PROVE  [\A s \in settings :
                 s.is_deleted /\ [s EXCEPT !.is_deleted = FALSE] \in settings'
                 => answer'.op # "plain" /\ answer'.user = s.user]_vars
  <2>1. CASE Next
    <3>1. Change
      BY <1>1, <2>1, Changes DEF IInv
    <3>2. \A s \in settings : s.is_deleted \in BOOLEAN
      BY <1>1 DEF IInv, TypeOK, Row
    <3>3. ASSUME NEW s \in settings, s.is_deleted, Turned(s, FALSE) \in settings'
          PROVE  answer'.op # "plain" /\ answer'.user = s.user
      <4>1. s.is_deleted = TRUE
        BY <3>2, <3>3, Zenon
      <4> QED
        BY <1>1, <3>1, <3>3, <4>1, OwnStep
    <3> QED
      BY <3>3, Zenon DEF Turned
  <2> QED
    BY <1>1, <2>1
<1> QED
  BY <1>1, Invariance, PTL DEF Spec, ComesBackByOwn

\* A set of two at least, known by their copies 1 and 2.
LEMMA TwoCopies ==
    ASSUME NEW R, NEW k \in R, NEW n \in R, k # n,
           \A x, y \in R : x.copy = y.copy => x = y, \A x \in R : x.copy \in {1, 2}
    PROVE  Cardinality(R) = 2
<1>1. R = {k} \union {n}
  <2>1. k.copy # n.copy
    OBVIOUS
  <2>2. \A x \in R : x.copy = k.copy \/ x.copy = n.copy
    BY <2>1
  <2> QED
    BY <2>2
<1>2. IsFiniteSet({k}) /\ Cardinality({k}) = 1
  BY FS_Singleton
<1>3. Cardinality({k} \union {n}) = 2
  <2>1. Cardinality({k} \union {n}) = Cardinality({k}) + 1
    <3>1. n \notin {k}
      OBVIOUS
    <3> QED
      BY <1>2, <3>1, FS_AddElement, Zenon
  <2> QED
    BY <1>2, <2>1
<1> QED
  BY <1>1, <1>3

\* A view: his own row is in settings, not deleted.
LEMMA ViewDone ==
    ASSUME NEW u, NEW v, Viewed(u, v),
           kind'[v] = "direct" => \E s \in settings' : s.conv = v /\ s.user = u /\ ~s.is_deleted
    PROVE  Accomplished'
BY ViewOf DEF Accomplished, RowsOf

LEMMA ReopenDone ==
    ASSUME TypeOK, NEW u, NEW v, Viewed(u, v), NEW s \in RowsOf(u, v), Reopen(s), kind' = kind
    PROVE  Accomplished'
<1>1. s \in settings /\ s \in Row /\ s.conv = v /\ s.user = u
  BY DEF RowsOf, TypeOK
<1>2. Turned(s, FALSE).conv = v /\ Turned(s, FALSE).user = u /\ ~Turned(s, FALSE).is_deleted
  BY <1>1, FALSE \in BOOLEAN, TurnedRow
<1>3. kind'[v] = "direct" => Turned(s, FALSE) \in settings'
  BY <1>1 DEF Reopen, Turned
<1> HIDE DEF Turned
<1> QED
  BY <1>2, <1>3, ViewDone

LEMMA CreateDone ==
    ASSUME NEW u, NEW w, NEW v, CreateDirect(u, w, v)
    PROVE  Accomplished'
<1> DEFINE mine == [conv |-> v, user |-> u, copy |-> 1, role |-> "admin", is_deleted |-> FALSE]
<1>1. mine \in settings' /\ Viewed(u, v)
  BY DEF CreateDirect
<1>2. mine.conv = v /\ mine.user = u /\ ~mine.is_deleted
  OBVIOUS
<1> HIDE DEF mine
<1> QED
  BY <1>1, <1>2, ViewDone

\* NewMessage leaves the message that is the last one.
LEMMA NewIsLast ==
    ASSUME NEW u, NEW v, NEW to, NewMessage(u, v, to)
    PROVE  \E m \in message' : m.conv = v /\ m.id = last' /\ m.sender = u
<1> DEFINE m == [id |-> last + 1, conv |-> v, sender |-> u, reply_to |-> to]
<1>1. m \in message' /\ last' = last + 1
  BY DEF NewMessage
<1>2. m.conv = v /\ m.id = last + 1 /\ m.sender = u
  OBVIOUS
<1> HIDE DEF m
<1> QED
  BY <1>1, <1>2

LEMMA SaidDone ==
    ASSUME TypeOK, NEW u, NEW v, NewMessage(u, v, 0),
           \/ Answered("add", u, v, {500})
           \/ Answered("delete", u, v, AfterCommit) /\ kind'[v] = "group"
    PROVE  Accomplished'
<1>1. \E m \in message' : m.conv = v /\ m.id = last' /\ m.sender = u
  BY NewIsLast
<1>2. /\ answer'.user = u /\ answer'.conv = v
      /\ answer'.op = "add" \/ (answer'.op = "delete" /\ kind'[v] = "group")
  BY AnswerOf
<1> QED
  BY <1>1, <1>2 DEF Accomplished, MessagesIn

LEMMA PostDone ==
    ASSUME NEW u, NEW v, NEW to, CreateMessage(u, v, to)
    PROVE  Accomplished'
<1>1. PICK m \in message' : m.conv = v /\ m.id = last' /\ m.sender = u
  BY NewIsLast DEF CreateMessage
<1>2. answer'.op = "post" /\ answer'.user = u /\ answer'.conv = v
  BY AnswerOf DEF CreateMessage
<1>3. last' = last + 1 /\ settings' = settings
  BY DEF CreateMessage, NewMessage
<1>4. ASSUME NEW s \in settings', s.conv = v
      PROVE  \E k \in receipt' : k.msg = m.id /\ k.user = s.user /\ k.copy = s.copy
  <2> DEFINE k == [msg |-> last + 1, user |-> s.user, copy |-> s.copy, status |-> "sent"]
  <2>1. k \in receipt'
    BY <1>3, <1>4 DEF CreateMessage
  <2>2. k.msg = m.id /\ k.user = s.user /\ k.copy = s.copy
    BY <1>1, <1>3
  <2> HIDE DEF k
  <2> QED
    BY <2>1, <2>2
<1> QED
  BY <1>1, <1>2, <1>4 DEF Accomplished, MessagesIn, ReceiptsOf

LEMMA HardDone ==
    ASSUME TypeOK, NEW u, NEW v \in Conversations, HardDelete(u, v), answer'.code = 200 \/ tables' # tables
    PROVE  Accomplished'
<1>1. \E codes : Answered("delete", u, v, codes)
  BY DEF HardDelete
<1>2. answer'.op = "delete" /\ answer'.user = u /\ answer'.conv = v
  BY <1>1, AnswerOf
<1>3. ~RepliedFrom(v)
  <2>1. ASSUME RepliedFrom(v) PROVE FALSE
    <3>1. UNCHANGED tables /\ Answered("delete", u, v, {500})
      BY <2>1 DEF HardDelete
    <3> QED
      BY <3>1, AnswerOf
  <2> QED
    BY <2>1
<1>4. /\ kind' = [kind EXCEPT ![v] = "gone"] /\ settings' = {s \in settings : s.conv # v}
      /\ message' = message \ MessagesIn(v)
  BY <1>3 DEF HardDelete
<1>5. kind'[v] = "gone" /\ {m \in message' : m.conv = v} = {} /\ \A s \in settings' : s.conv # v
  BY <1>4 DEF TypeOK, MessagesIn
<1> QED
  BY <1>2, <1>5 DEF Accomplished, MessagesIn

\* The row that is deleted is the only one of its user: the other one, not deleted, is
\* somebody else's.
LEMMA SoftDone ==
    ASSUME IInv, NEW u \in Users, NEW v \in Conversations, kind[v] = "direct", kind' = kind,
           NEW s \in RowsOf(u, v), NEW t \in settings, t.conv = v, t.user # u,
           settings' = (settings \ {s}) \union {Turned(s, TRUE)}, Answered("delete", u, v, AfterCommit)
    PROVE  Accomplished'
<1>1. answer'.op = "delete" /\ answer'.user = u /\ answer'.conv = v
  BY AnswerOf
<1>2. s \in settings /\ s \in Row /\ s.conv = v /\ s.user = u
  BY DEF RowsOf, IInv, TypeOK
<1>3. PICK a \in settings, b \in settings :
         /\ a # b /\ a.conv = v /\ b.conv = v /\ a.is_deleted = FALSE
         /\ \A x \in settings : x.conv = v => x = a \/ x = b
  BY DEF IInv, BothRows
<1>4. \A x \in settings : x.conv = v /\ x.user = u => x = s
  BY <1>2, <1>3
<1>5. Turned(s, TRUE).is_deleted
  BY <1>2, TRUE \in BOOLEAN, TurnedRow
<1>6. \A x \in settings' : x.conv = v /\ x.user = u => x.is_deleted
  BY <1>4, <1>5
<1>7. kind'[v] = "direct"
  OBVIOUS
<1> QED
  BY <1>1, <1>6, <1>7 DEF Accomplished, RowsOf

LEMMA DeleteDone ==
    ASSUME IInv, NEW u \in Users, NEW v \in Conversations, DeleteDirect(u, v) \/ DeleteGroup(u, v),
           answer'.code = 200 \/ tables' # tables
    PROVE  Accomplished'
<1>1. CASE HardDelete(u, v)
  BY <1>1, HardDone DEF IInv
<1>2. CASE ~HardDelete(u, v)
  <2>1. DeleteDirect(u, v)
    BY <1>2 DEF DeleteGroup
  <2>2. PICK s \in RowsOf(u, v) :
           /\ ~(\A t \in settings : t.conv = v /\ t.user # u => t.is_deleted)
           /\ settings' = (settings \ {s}) \union {[s EXCEPT !.is_deleted = TRUE]}
           /\ UNCHANGED <<kind, last, message, receipt>>
           /\ Answered("delete", u, v, AfterCommit)
    BY <1>2, <2>1, Zenon DEF DeleteDirect
  <2>3. PICK t \in settings : t.conv = v /\ t.user # u
    BY <2>2, Zenon
  <2>4. settings' = (settings \ {s}) \union {Turned(s, TRUE)} /\ kind' = kind /\ kind[v] = "direct"
    BY <2>1, <2>2 DEF Turned, DeleteDirect
  <2> QED
    BY <2>2, <2>3, <2>4, SoftDone
<1> QED
  BY <1>1, <1>2

LEMMA LeaveDone ==
    ASSUME TypeOK, NEW u, NEW v, LeaveGroup(u, v)
    PROVE  Accomplished'
<1>1. NewMessage(u, v, 0) /\ Answered("delete", u, v, AfterCommit) /\ kind'[v] = "group"
  BY DEF LeaveGroup
<1> QED
  BY <1>1, SaidDone

LEMMA ReadDone ==
    ASSUME IInv, IInv', NEW u \in Users, NEW v \in Conversations, MarkRead(u, v),
           answer'.code = 200 \/ tables' # tables
    PROVE  Accomplished'
<1>1. /\ answer'.op = "read" /\ answer'.user = u /\ answer'.conv = v /\ message' = message
      /\ \A m \in UnreadIn(u, v) : ReceiptsOf(m, u) # {}
  BY MarkReadEither
<1>2. ASSUME NEW m \in message', m.conv = v, m.sender # u,
             \/ {k \in receipt' : k.msg = m.id /\ k.user = u} = {}
             \/ \E k \in receipt' : k.msg = m.id /\ k.user = u /\ Pending(k)
      PROVE  Cardinality({k \in receipt' : k.msg = m.id /\ k.user = u}) = 2
  <2> DEFINE R == {k \in receipt' : k.msg = m.id /\ k.user = u}
  <2>1. PICK k \in R, n \in R : k # n
    BY <1>1, <1>2, ClearedByMarkRead
  <2>2. \A x, y \in R : x.copy = y.copy => x = y
    BY DEF IInv, OneReceiptEach
  <2>3. \A x \in R : x.copy \in {1, 2}
    BY DEF IInv, TypeOK, Receipt
  <2> HIDE DEF R
  <2>4. Cardinality(R) = 2
    BY <2>1, <2>2, <2>3, TwoCopies
  <2> QED
    BY <2>4 DEF R
<1> QED
  BY <1>1, <1>2 DEF Accomplished, UnreadIn, MessagesIn, ReceiptsOf

LEMMA WholeStep ==
    ASSUME IInv, IInv', Next, answer'.op # "plain", answer'.code = 200 \/ tables' # tables
    PROVE  Accomplished'
<1>1. ASSUME Done PROVE FALSE
  BY <1>1 DEF Done, Plain
<1>2. ASSUME NEW u \in Users, NEW w \in Users, OpenDirect(u, w) PROVE Accomplished'
  BY <1>2, ReopenDone DEF OpenDirect, IInv
<1>3. ASSUME NEW u \in Users, NEW v \in Conversations, NEW w \in Users, CreateDirect(u, w, v)
      PROVE  Accomplished'
  BY <1>3, CreateDone
<1>4. ASSUME NEW u \in Users, NEW v \in Conversations, NEW w \in Users, AddMember(u, v, w)
      PROVE  Accomplished'
  BY <1>4, SaidDone DEF AddMember, IInv
<1>5. ASSUME NEW u \in Users, NEW v \in Conversations, GetConversation(u, v) PROVE Accomplished'
  BY <1>5, ReopenDone DEF GetConversation, IInv
<1>6. ASSUME NEW u \in Users, NEW v \in Conversations,
             DeleteDirect(u, v) \/ DeleteGroup(u, v) \/ LeaveGroup(u, v)
      PROVE  Accomplished'
  BY <1>6, DeleteDone, LeaveDone DEF IInv
<1>7. ASSUME NEW u \in Users, NEW v \in Conversations, MarkRead(u, v) PROVE Accomplished'
  BY <1>7, ReadDone
<1>8. ASSUME NEW u \in Users, NEW v \in Conversations, NEW to, CreateMessage(u, v, to)
      PROVE  Accomplished'
  BY <1>8, PostDone
<1>9. ASSUME NEW u, NEW v, MarkAllRead(u, v) PROVE FALSE
  BY <1>1, <1>9, Zenon DEF MarkAllRead
<1>10. ASSUME NEW u, NEW v, NEW listed, CreateGroup(u, listed, v) PROVE FALSE
  BY <1>1, <1>10, Zenon DEF CreateGroup
<1>11. ASSUME NEW u, NEW v, NEW from, NEW before, GetMessages(u, v, from, before) PROVE FALSE
  BY <1>1, <1>11, Zenon DEF GetMessages
<1>12. ASSUME NEW u, NEW m, GetMessage(u, m) PROVE FALSE
  BY <1>1, <1>12, Zenon DEF GetMessage
<1> QED
  BY <1>2, <1>3, <1>4, <1>5, <1>6, <1>7, <1>8, <1>9, <1>10, <1>11, <1>12, Zenon DEF Next

\* A request answered with success, or that has changed any table whatever its answer,
\* is done completely: no deletion, marking or message is left halfway by an error,
\* before, between or after the commits.
THEOREM NothingHalfDone == Spec => AllOrNothing
<1>1. ASSUME IInv, [Next]_vars
      PROVE  [answer'.op # "plain" /\ (answer'.code = 200 \/ tables' # tables) => Accomplished']_vars
  <2>1. IInv'
    BY <1>1, StepKeeps
  <2> QED
    BY <1>1, <2>1, WholeStep
<1> QED
  BY <1>1, Invariance, PTL DEF Spec, AllOrNothing

LEMMA MessagesFinite == ASSUME IInv PROVE IsFiniteSet(message)
<1> DEFINE f == [m \in message |-> m.id]
<1>1. \A m \in message : m.id \in 1 .. MaxMessages
  BY DEF IInv, TypeOK, Message
<1>2. f \in Injection(message, 1 .. MaxMessages)
  BY <1>1 DEF IInv, Ids, Injection, IsInjective
<1>3. IsFiniteSet(1 .. MaxMessages)
  BY FS_Interval, BoundAssumption
<1> HIDE DEF f
<1> QED
  BY <1>2, <1>3, FS_Injection

\* A user has at most the receipts 1 and 2 of a message.
LEMMA BothReceipts ==
    ASSUME IInv, NEW m \in message, NEW u, NEW k \in ReceiptsOf(m, u), NEW n \in ReceiptsOf(m, u), k # n
    PROVE  Cardinality(ReceiptsOf(m, u)) = 2
<1>1. \A x, y \in ReceiptsOf(m, u) : x.copy = y.copy => x = y
  BY DEF IInv, OneReceiptEach, ReceiptsOf
<1>2. \A x \in ReceiptsOf(m, u) : x.copy \in {1, 2}
  BY DEF IInv, TypeOK, ReceiptsOf, Receipt
<1> QED
  BY <1>1, <1>2, TwoCopies

\* After a successful POST .../read a message is counted as unread only where the user
\* has two receipts of it, having been in the group twice.
THEOREM ReadingClears == Spec => []ReadClears
<1>1. ASSUME IInv PROVE ReadClears
  <2> SUFFICES ASSUME answer.op = "read", answer.code = 200
               PROVE  UnreadShown(answer.user, answer.conv)
                        =< Cardinality({m \in MessagesIn(answer.conv) :
                                          Cardinality(ReceiptsOf(m, answer.user)) = 2})
    BY DEF ReadClears
  <2> DEFINE unread == {m \in MessagesIn(answer.conv) :
                          m.sender # answer.user /\ \E k \in ReceiptsOf(m, answer.user) : Pending(k)}
             twice == {m \in MessagesIn(answer.conv) : Cardinality(ReceiptsOf(m, answer.user)) = 2}
  <2>1. unread \in SUBSET twice
    <3> SUFFICES ASSUME NEW m \in unread PROVE Cardinality(ReceiptsOf(m, answer.user)) = 2
      OBVIOUS
    <3>1. m \in message
      BY DEF MessagesIn
    <3>2. \E k, n \in ReceiptsOf(m, answer.user) : k # n
      BY <1>1 DEF IInv, Cleared
    <3> QED
      BY <1>1, <3>1, <3>2, BothReceipts
  <2>2. IsFiniteSet(twice)
    <3>1. twice \in SUBSET message
      BY DEF MessagesIn
    <3> QED
      BY <1>1, <3>1, MessagesFinite, FS_Subset
  <2>3. Cardinality(unread) =< Cardinality(twice)
    BY <2>1, <2>2, FS_Subset
  <2> QED
    BY <2>3 DEF UnreadShown
<1>2. IInv => ReadClears
  BY <1>1
<1> QED
  BY <1>2, Invariance, PTL
=============================================================================
