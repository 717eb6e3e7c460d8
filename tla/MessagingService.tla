-------------------------- MODULE MessagingService --------------------------
(***************************************************************************)
(* The HTTP side of the messaging service: conversations, their members,    *)
(* messages and receipts (src/app/plugins/messaging_service, services and   *)
(* routes).  Every handler works on a synchronous session and gives way     *)
(* only after its last commit, so each is one action; what goes wrong takes *)
(* several requests of several users, or happens after the commit.  A       *)
(* request that is refused (400, 403, 404), or fails before its first       *)
(* commit, changes nothing; only two such failures are steps.               *)
(***************************************************************************)
EXTENDS Naturals, FiniteSets

CONSTANTS
    Users,           \* the accounts
    Conversations,   \* conversation ids; none is used twice (uuid4)
    MaxMessages,     \* bound on the messages ever stored
    MaxPosted,       \* bound on those that have receipts at one time
    MaxParticipants  \* bound on the rows a new group may have

ASSUME BoundAssumption == MaxMessages \in Nat /\ MaxPosted \in Nat /\ MaxParticipants \in Nat

VARIABLES
    kind,      \* kind[v]: conversation_type, or whether there is no such row
    settings,  \* rows of messaging_user_conversation_settings
    last,      \* the number of messages stored so far; ids follow created_at
    message,   \* rows of messaging_messages
    receipt,   \* rows of messaging_receipts
    answer     \* the last request and its answer, if a property looks at them

tables == <<kind, settings, last, message, receipt>>
vars == <<tables, answer>>

\* copy: the first or the second row of one user in one conversation.
Row == [conv : Conversations, user : Users, copy : {1, 2}, role : {"admin", "member"},
        is_deleted : BOOLEAN]
\* reply_to: a message of whatever conversation, 0 for none.
Message == [id : 1 .. MaxMessages, conv : Conversations, sender : Users, reply_to : 0 .. MaxMessages]
Receipt == [msg : 1 .. MaxMessages, user : Users, copy : {1, 2},
            status : {"sent", "delivered", "read"}]

Rank(status) == CASE status = "sent" -> 1 [] status = "delivered" -> 2 [] status = "read" -> 3

Exists(v) == kind[v] \in {"direct", "group"}
RowsOf(u, v) == {s \in settings : s.user = u /\ s.conv = v}
MessagesIn(v) == {m \in message : m.conv = v}
ReceiptsOf(m, u) == {k \in receipt : k.msg = m.id /\ k.user = u}
Pending(k) == k.status \in {"sent", "delivered"}
WithStatus(k, status) == [k EXCEPT !.status = status]

\* The answer is one of codes.  It is the request's own as of its last commit, though
\* broadcasts may still hold it up.
Answered(op, u, v, codes) ==
    \E code \in codes : answer' = [op |-> op, user |-> u, conv |-> v, code |-> code]

\* The other requests, whatever their answer.
Plain == [op |-> "plain"]
Done == answer' = Plain

\* A commit gives the connection back, and the queries that follow ask for one again:
\* if they get none (SyncSessions), all is done and the answer is an error.
AfterCommit == {200, 500}

\* The answer holds the last message without fields its schema requires, so that
\* it cannot be built if there is one; by then everything is committed.
ViewCodes(v) ==
    IF \E m \in message' : m.conv = v THEN {500} ELSE IF tables' = tables THEN {200} ELSE AfterCommit
Viewed(u, v) == Answered("view", u, v, ViewCodes(v))

NewMessage(u, v, to) ==
    /\ last < MaxMessages
    /\ last' = last + 1
    /\ message' = message \union {[id |-> last + 1, conv |-> v, sender |-> u, reply_to |-> to]}

-----------------------------------------------------------------------------
(* conversation_service.py *)

\* Mutant: it comes back to both views.
ReopenAll(s) ==
    settings' = IF kind[s.conv] = "direct"
                THEN {IF t.conv = s.conv THEN [t EXCEPT !.is_deleted = FALSE] ELSE t : t \in settings}
                ELSE settings

\* get_conversation reopens a direct conversation for a user who has deleted it.
\* s is the row of his that first() returns.
Reopen(s) ==
    settings' = IF kind[s.conv] = "direct"
                THEN (settings \ {s}) \union {[s EXCEPT !.is_deleted = FALSE]}
                ELSE settings

\* Mutant: a conversation is found by those who have not deleted it.
FoundUndeleted(u, w) ==
    {v \in Conversations : kind[v] = "direct" /\ RowsOf(u, v) # {}
                           /\ \E s \in RowsOf(w, v) : ~s.is_deleted}

\* _find_direct_conversation: for w = u, any direct conversation of u.
Found(u, w) == {v \in Conversations : kind[v] = "direct" /\ RowsOf(u, v) # {} /\ RowsOf(w, v) # {}}

\* create_direct_conversation.  Nobody can be blocked: POST /blocks is not implemented.
OpenDirect(u, w) ==
    \E v \in Found(u, w) :
       /\ \E s \in RowsOf(u, v) : Reopen(s)
       /\ UNCHANGED <<kind, last, message, receipt>>
       /\ Viewed(u, v)

\* The initial message has no receipts.
CreateDirect(u, w, v) ==
    /\ Found(u, w) = {}
    /\ kind[v] = "unused"
    /\ kind' = [kind EXCEPT ![v] = "direct"]
    /\ settings' = settings \union
         {[conv |-> v, user |-> u, copy |-> 1, role |-> "admin", is_deleted |-> FALSE],
          [conv |-> v, user |-> w, copy |-> IF w = u THEN 2 ELSE 1, role |-> "member",
           is_deleted |-> FALSE]}
    /\ NewMessage(u, v, 0) \/ UNCHANGED <<last, message>>
    /\ UNCHANGED receipt
    /\ Viewed(u, v)

\* create_group_conversation.  The ids of the request are strings and that of its
\* user is a UUID, so he is never found among them: listed, he gets two rows.
CreateGroup(u, listed, v) ==
    /\ kind[v] = "unused"
    /\ Cardinality(listed) + 1 =< MaxParticipants
    /\ kind' = [kind EXCEPT ![v] = "group"]
    /\ settings' = settings
         \union [conv : {v}, user : listed, copy : {1}, role : {"member"}, is_deleted : {FALSE}]
         \union {[conv |-> v, user |-> u, copy |-> IF u \in listed THEN 2 ELSE 1,
                  role |-> "admin", is_deleted |-> FALSE]}
    /\ UNCHANGED <<last, message, receipt>>
    /\ Done

GetConversation(u, v) ==
    /\ \E s \in RowsOf(u, v) : Reopen(s)
    /\ UNCHANGED <<kind, last, message, receipt>>
    /\ Viewed(u, v)

\* add_conversation_member, with the system message, which has no receipts either and
\* is the last message the answer cannot be built with (ViewCodes).
\* Rows of a group are never soft-deleted: the branch that would reactivate one is
\* not reached.
AddMember(u, v, w) ==
    /\ kind[v] = "group"
    /\ \E s \in RowsOf(u, v) : s.role = "admin"
    /\ RowsOf(w, v) = {}
    /\ settings' = settings \union
         {[conv |-> v, user |-> w, copy |-> 1, role |-> "member", is_deleted |-> FALSE]}
    /\ NewMessage(u, v, 0)
    /\ UNCHANGED <<kind, receipt>>
    /\ Answered("add", u, v, {500})

\* A reply in another conversation refers to a message of v: its foreign key, which
\* has no ON DELETE, makes the deletion fail.
RepliedFrom(v) == \E m \in message : m.conv # v /\ \E n \in MessagesIn(v) : m.reply_to = n.id

\* _hard_delete_conversation; the receipts go with their messages (ON DELETE CASCADE).
\* For a group the participants are queried once more.
HardDelete(u, v) ==
    IF RepliedFrom(v)
    THEN UNCHANGED tables /\ Answered("delete", u, v, {500})
    ELSE /\ kind' = [kind EXCEPT ![v] = "gone"]
         /\ settings' = {s \in settings : s.conv # v}
         /\ message' = message \ MessagesIn(v)
         /\ receipt' = {k \in receipt : \A m \in MessagesIn(v) : m.id # k.msg}
         /\ UNCHANGED last
         /\ Answered("delete", u, v, IF kind[v] = "group" THEN AfterCommit ELSE {200})

\* delete_conversation of a direct conversation: it goes with the last view of it.
DeleteDirect(u, v) ==
    /\ kind[v] = "direct"
    /\ \E s \in RowsOf(u, v) :
          IF \A t \in settings : t.conv = v /\ t.user # u => t.is_deleted
          THEN HardDelete(u, v)
          ELSE /\ settings' = (settings \ {s}) \union {[s EXCEPT !.is_deleted = TRUE]}
               /\ UNCHANGED <<kind, last, message, receipt>>
               /\ Answered("delete", u, v, AfterCommit)

\* Mutant: the messages of a deleted group stay.
DeleteGroupKeepsMessages(u, v) ==
    /\ kind[v] = "group"
    /\ \E s \in RowsOf(u, v) : s.role = "admin"
    /\ kind' = [kind EXCEPT ![v] = "gone"]
    /\ settings' = {s \in settings : s.conv # v}
    /\ UNCHANGED <<last, message, receipt>>
    /\ Answered("delete", u, v, AfterCommit)

\* delete_conversation of a group, by an administrator (the role is that of the row
\* first() returns).
DeleteGroup(u, v) ==
    /\ kind[v] = "group"
    /\ \E s \in RowsOf(u, v) : s.role = "admin"
    /\ HardDelete(u, v)

\* Mutant: an administrator may leave like anybody else.
LeaveAsAdmin(u, v) ==
    /\ kind[v] = "group"
    /\ \E s \in RowsOf(u, v) : settings' = settings \ {s}
    /\ NewMessage(u, v, 0)
    /\ UNCHANGED <<kind, receipt>>
    /\ Answered("delete", u, v, AfterCommit)

\* The same by a member: he leaves, and a system message says so.  His receipts stay.
LeaveGroup(u, v) ==
    /\ kind[v] = "group"
    /\ \E s \in RowsOf(u, v) :
          /\ s.role # "admin"
          /\ settings' = settings \ {s}
    /\ NewMessage(u, v, 0)
    /\ UNCHANGED <<kind, receipt>>
    /\ Answered("delete", u, v, AfterCommit)

\* Messages of others that u has no receipt for, or has not read.
UnreadIn(u, v) ==
    {m \in MessagesIn(v) : /\ m.sender # u
                           /\ ReceiptsOf(m, u) = {} \/ \E k \in ReceiptsOf(m, u) : Pending(k)}

Marked(ks, status) == (receipt \ ks) \union {WithStatus(k, status) : k \in ks}

\* Mutant: what was marked before the failure is kept.
MarkReadHalfway(u, v) ==
    /\ RowsOf(u, v) # {}
    /\ receipt' = Marked({k \in receipt : \E m \in UnreadIn(u, v) : k \in ReceiptsOf(m, u)}, "read")
    /\ UNCHANGED <<kind, settings, last, message>>
    /\ Answered("read", u, v, IF \E m \in UnreadIn(u, v) : ReceiptsOf(m, u) = {} THEN {500} ELSE {200})

\* Mutant: the receipt of each message is the sender's.
MarkReadOfSender(u, v) ==
    /\ \E s \in RowsOf(u, v) : Reopen(s)
    /\ receipt' = Marked({k \in receipt : \E m \in UnreadIn(u, v) : k \in ReceiptsOf(m, m.sender)}, "read")
    /\ UNCHANGED <<kind, last, message>>
    /\ Answered("read", u, v, AfterCommit)

\* mark_conversation_as_read of the conversation service (POST .../read).  For a
\* message without a receipt of u it makes one with updated_at, a column receipts do
\* not have: the constructor raises, and all is rolled back.  Of two receipts of u
\* it marks the one first() returns.  The receipts are committed, then get_conversation
\* is called, which may have a row to reopen; what fails after the first commit, a
\* query or the broadcast at the end that a new client cuts short (LiveConversations),
\* is answered as an error too.
MarkRead(u, v) ==
    LET unread == UnreadIn(u, v) IN
    /\ RowsOf(u, v) # {}
    /\ IF \E m \in unread : ReceiptsOf(m, u) = {}
       THEN UNCHANGED tables /\ Answered("read", u, v, {500})
       ELSE /\ \E first \in [unread -> receipt] :
                  /\ \A m \in unread : first[m] \in ReceiptsOf(m, u)
                  /\ receipt' = Marked({first[m] : m \in unread}, "read")
            /\ \/ UNCHANGED settings /\ Answered("read", u, v, {500})
               \/ (\E s \in RowsOf(u, v) : Reopen(s)) /\ Answered("read", u, v, AfterCommit)
            /\ UNCHANGED <<kind, last, message>>

-----------------------------------------------------------------------------
(* message_service.py *)

\* create_message: a receipt for every row of the conversation, the sender's own
\* included.  A conversation that is soft-deleted, by whomever, takes messages too.
CreateMessage(u, v, to) ==
    /\ RowsOf(u, v) # {}
    /\ Cardinality({k.msg : k \in receipt}) < MaxPosted
    /\ to = 0 \/ \E m \in message : m.id = to
    /\ NewMessage(u, v, to)
    /\ receipt' = receipt \union {[msg |-> last + 1, user |-> s.user, copy |-> s.copy, status |-> "sent"]
                                  : s \in {t \in settings : t.conv = v}}
    /\ UNCHANGED <<kind, settings>>
    /\ Answered("post", u, v, AfterCommit)

\* get_message: the reader's receipt (the one first() returns) becomes "read".
GetMessage(u, m) ==
    /\ RowsOf(u, m.conv) # {}
    /\ \/ ReceiptsOf(m, u) = {} /\ UNCHANGED receipt
       \/ \E k \in ReceiptsOf(m, u) :
             receipt' = IF Pending(k) THEN Marked({k}, "read") ELSE receipt
    /\ UNCHANGED <<kind, settings, last, message>>
    /\ Done

\* Mutant: whatever is listed becomes "delivered".
ListedAnew(u, v, from, before) ==
    /\ RowsOf(u, v) # {}
    /\ receipt' = Marked({k \in receipt : k.user = u /\ \E m \in MessagesIn(v) : m.id = k.msg}, "delivered")
    /\ UNCHANGED <<kind, settings, last, message>>
    /\ Done

\* get_conversation_messages: those of a page that are "sent" become "delivered".  A
\* page is what limit leaves of the messages older than before_message_id.
GetMessages(u, v, from, before) ==
    LET page == {m \in MessagesIn(v) : from =< m.id /\ m.id < before /\ ReceiptsOf(m, u) # {}} IN
    /\ RowsOf(u, v) # {}
    /\ \E first \in [page -> receipt] :
          /\ \A m \in page : first[m] \in ReceiptsOf(m, u)
          /\ receipt' = Marked({k \in {first[m] : m \in page} : k.status = "sent"}, "delivered")
    /\ UNCHANGED <<kind, settings, last, message>>
    /\ Done

\* mark_conversation_as_read of the message service (POST .../mark-read): all the
\* receipts of u, those of his own messages and his second ones included.
MarkAllRead(u, v) ==
    /\ RowsOf(u, v) # {}
    /\ receipt' = Marked({k \in receipt : /\ k.user = u /\ Pending(k)
                                          /\ \E m \in MessagesIn(v) : m.id = k.msg}, "read")
    /\ UNCHANGED <<kind, settings, last, message>>
    /\ Done

\* get_conversations: the number of unread messages the list shows for v.
UnreadShown(u, v) ==
    Cardinality({m \in MessagesIn(v) : m.sender # u /\ \E k \in ReceiptsOf(m, u) : Pending(k)})

\* _message_to_dict, for the sender of m: the most advanced status of its receipts.
StatusShown(m) ==
    LET statuses == {"sent"} \union {k.status : k \in {r \in receipt : r.msg = m.id}} IN
    CHOOSE status \in statuses : \A other \in statuses : Rank(other) =< Rank(status)

-----------------------------------------------------------------------------
Init ==
    /\ kind = [v \in Conversations |-> "unused"]
    /\ settings = {} /\ last = 0 /\ message = {} /\ receipt = {}
    /\ answer = Plain

Next ==
    \E u \in Users :
       \/ \E w \in Users : OpenDirect(u, w)
       \/ \E v \in Conversations :
             \/ \E w \in Users : CreateDirect(u, w, v) \/ AddMember(u, v, w)
             \/ \E listed \in SUBSET Users : CreateGroup(u, listed, v)
             \/ GetConversation(u, v)
             \/ DeleteDirect(u, v) \/ DeleteGroup(u, v) \/ LeaveGroup(u, v)
             \/ MarkRead(u, v) \/ MarkAllRead(u, v)
             \/ \E to \in 0 .. last : CreateMessage(u, v, to)
             \/ \E from \in 1 .. last, before \in 2 .. last + 1 : GetMessages(u, v, from, before)
       \/ \E m \in message : GetMessage(u, m)

Spec == Init /\ [][Next]_vars

-----------------------------------------------------------------------------
TypeOK ==
    /\ kind \in [Conversations -> {"unused", "direct", "group", "gone"}]
    /\ settings \subseteq Row
    /\ last \in 0 .. MaxMessages
    /\ message \subseteq Message
    /\ receipt \subseteq Receipt
    /\ answer \in {Plain} \union [op : {"view", "add", "read", "delete", "post"}, user : Users,
                                  conv : Conversations, code : {200, 500}]

\* "Completely remove a conversation and all related data from the database": what
\* is left belongs to a conversation that exists, every reply and receipt to a
\* message that does.
NoOrphan ==
    /\ \A s \in settings : Exists(s.conv)
    /\ \A m \in message : Exists(m.conv) /\ (m.reply_to = 0 \/ \E n \in message : n.id = m.reply_to)
    /\ \A k \in receipt : \E m \in message : m.id = k.msg

\* What is in the tables is of the right kind and belongs to what is there.
TablesOK == TypeOK /\ NoOrphan

\* "Find a direct conversation between two users if it exists": two users never have
\* two, whoever creates, deletes from his view and creates again.
OneDirect ==
    \A u, w \in Users : u # w => Cardinality(Found(u, w)) =< 1

\* "If both participants delete it, it's removed from the database": a direct
\* conversation has both its rows, and one of its users still sees it.
DirectIsSeen ==
    \A v \in Conversations :
       kind[v] = "direct"
       => LET rows == {s \in settings : s.conv = v} IN
          Cardinality(rows) = 2 /\ \E s \in rows : ~s.is_deleted

\* Find-or-create and the two deletions together: one conversation, seen by somebody.
DirectOK == OneDirect /\ DirectIsSeen

\* A group never loses its administrator, the only one who can add members or delete
\* it, by whatever leaving and adding.
AdminStays ==
    \A v \in Conversations :
       kind[v] = "group" => \E s \in settings : s.conv = v /\ s.role = "admin"

\* Once a successful POST .../read has committed, the list counts nothing as unread, except what
\* has two receipts of the user, who was in the group twice.
ReadClears ==
    answer.op = "read" /\ answer.code = 200
    => UnreadShown(answer.user, answer.conv)
       =< Cardinality({m \in MessagesIn(answer.conv) : Cardinality(ReceiptsOf(m, answer.user)) = 2})

\* A receipt never goes back, nor away before its message.
ReceiptsForward ==
    [][\A k \in receipt :
          (\E m \in message' : m.id = k.msg)
          => \E n \in receipt' : /\ <<n.msg, n.user, n.copy>> = <<k.msg, k.user, k.copy>>
                                 /\ Rank(n.status) >= Rank(k.status)]_vars

\* A conversation somebody deleted from his view comes back to it by a request of
\* his own only, never by those of the other.
ComesBackByOwn ==
    [][\A s \in settings :
          s.is_deleted /\ [s EXCEPT !.is_deleted = FALSE] \in settings'
          => answer'.op # "plain" /\ answer'.user = s.user]_vars

\* What the last request was for is done: read but for second receipts, stored with
\* a receipt for everybody, said in the group, back in view, or gone with all it had.
Accomplished ==
    LET u == answer.user  v == answer.conv
        said == \E m \in MessagesIn(v) : m.id = last /\ m.sender = u
    IN
    /\ answer.op = "read" => \A m \in UnreadIn(u, v) : Cardinality(ReceiptsOf(m, u)) = 2
    /\ answer.op = "post" =>
          \E m \in MessagesIn(v) :
             /\ m.id = last /\ m.sender = u
             /\ \A s \in settings : s.conv = v => \E k \in ReceiptsOf(m, s.user) : k.copy = s.copy
    /\ answer.op = "add" => said
    /\ answer.op = "view" /\ kind[v] = "direct" => \E s \in RowsOf(u, v) : ~s.is_deleted
    /\ answer.op = "delete" =>
          \/ kind[v] = "gone" /\ MessagesIn(v) = {} /\ \A s \in settings : s.conv # v
          \/ kind[v] = "direct" /\ \A s \in RowsOf(u, v) : s.is_deleted
          \/ kind[v] = "group" /\ said

\* An error may be answered before the commit, after it, or between two: either way the
\* request has changed nothing or is done completely, and so it is on success.  No
\* deletion, marking or message is left halfway by what failed.
AllOrNothing ==
    [][answer'.op # "plain" /\ (answer'.code = 200 \/ tables' # tables) => Accomplished']_vars

\* "For the sender, show the most advanced status among recipients": if the sender of
\* a message is shown more than "sent" and there is anybody else in the conversation,
\* a recipient's receipt says so.
SenderSeesRecipients ==
    \A m \in message :
       StatusShown(m) # "sent" /\ (\E s \in settings : s.conv = m.conv /\ s.user # m.sender)
       => \E k \in receipt : k.msg = m.id /\ k.user # m.sender /\ k.status = StatusShown(m)
=============================================================================
