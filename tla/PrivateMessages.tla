-------------------------- MODULE PrivateMessages --------------------------
(***************************************************************************)
(* Private messages (src/app/services/faith_service.py, send_message and   *)
(* get_conversation, over CRUDMessage): each await of a handler is an      *)
(* action, a SELECT sees what is committed, and sent_at is the time at     *)
(* which the sender's transaction began, not the time it committed.        *)
(***************************************************************************)
EXTENDS Naturals, FiniteSets

CONSTANTS
    Users,       \* the users that have a row in table "user"
    Ghosts,      \* user ids a client may send that have none
    Requests,    \* slots for HTTP requests in flight
    MessageIds,  \* primary keys of table faith_messages; bounds the messages sent
    MaxTime,     \* bound on the database clock
    NoRow,       \* a key that no row has
    NoId         \* no message id

ASSUME TimeAssumption == MaxTime \in Nat
ASSUME NoIdAssumption == NoId \notin MessageIds
ASSUME NoRowAssumption == NoRow \notin [sender : Users, receiver : Users,
                                        sent_at : Nat, is_read : BOOLEAN]

VARIABLES
    message,  \* the table: message[m] is a row or NoRow
    now,      \* the clock of the database
    before,   \* before[m]: the messages visible when the one that became m
              \* was begun (history, for the properties only)
    req       \* req[r]: the request in slot r and what its session holds

vars == <<message, now, before, req>>

People == Users \union Ghosts
Message == [sender : Users, receiver : Users, sent_at : 0 .. MaxTime, is_read : BOOLEAN]
Codes == {0, 200, 201, 400, 500}

\* thread: the messages loaded to be returned; unread: those of them whose
\* loaded is_read is false; marks: what mark_read sets; own and shown: the
\* message sent and the one the reply to the sender shows; code: the reply.
Request == [op : {"none", "send", "read"},
            pc : {"idle", "begin", "insert", "last", "fetch", "select", "mark"},
            user : Users, other : People, stamp : 0 .. MaxTime,
            visible : SUBSET MessageIds, own : MessageIds \union {NoId},
            shown : MessageIds \union {NoId}, thread : SUBSET MessageIds,
            unread : SUBSET MessageIds, marks : SUBSET MessageIds, code : Codes]

Rows == {m \in MessageIds : message[m] # NoRow}

\* The thread of two users, in both directions.
GetConversation(a, b) ==
    {m \in Rows : \/ message[m].sender = a /\ message[m].receiver = b
                  \/ message[m].sender = b /\ message[m].receiver = a}

\* Messages that may come last in chronological order; equal times in any order.
LastOf(thread) ==
    {m \in thread : \A n \in thread : message[n].sent_at =< message[m].sent_at}

-----------------------------------------------------------------------------
Begin(r, op, pc, u, v, code) ==
    /\ req[r].pc = "idle"
    /\ req' = [req EXCEPT ![r] =
                 [op |-> op, pc |-> pc, user |-> u, other |-> v, stamp |-> 0,
                  visible |-> {}, own |-> NoId, shown |-> NoId, thread |-> {},
                  unread |-> {}, marks |-> {}, code |-> code]]

Init ==
    /\ message = [m \in MessageIds |-> NoRow]
    /\ now = 0
    /\ before = [m \in MessageIds |-> {}]
    /\ req \in [Requests -> [op : {"none"}, pc : {"idle"}, user : Users, other : Users,
                             stamp : {0}, visible : {{}}, own : {NoId}, shown : {NoId},
                             thread : {{}}, unread : {{}}, marks : {{}}, code : {0}]]

-----------------------------------------------------------------------------
(* POST /messages/ *)

\* The bound: a message is sent only while there is a key left for it.
KeyLeft ==
    Cardinality(Rows) + Cardinality({r \in Requests : req[r].pc \in {"begin", "insert"}})
        < Cardinality(MessageIds)

SendMessage(r, u, v) ==
    /\ v # u
    /\ KeyLeft
    /\ Begin(r, "send", "begin", u, v, 0)
    /\ UNCHANGED <<message, now, before>>

\* A message to oneself is refused before the first await.
SendToSelf(r, u) ==
    /\ Begin(r, "send", "idle", u, u, 400)
    /\ UNCHANGED <<message, now, before>>

\* Mutant: the client gives the time of the message.
StampOfClient(r) ==
    /\ req[r].pc = "begin"
    /\ \E t \in 0 .. MaxTime :
          req' = [req EXCEPT ![r].pc = "insert", ![r].visible = Rows, ![r].stamp = t]
    /\ UNCHANGED <<message, now, before>>

\* The transaction of the commit begins: now() is fixed here.  Two transactions
\* may begin at the same time of the clock.
BeginTransaction(r) ==
    /\ req[r].pc = "begin"
    /\ \E t \in {now, now + 1} :
          /\ t =< MaxTime
          /\ now' = t
          /\ req' = [req EXCEPT ![r].pc = "insert", ![r].visible = Rows, ![r].stamp = t]
    /\ UNCHANGED <<message, before>>

\* Mutant: the receiver's foreign key is missing.
InsertUnchecked(r) ==
    /\ req[r].pc = "insert"
    /\ \E m \in MessageIds \ Rows :
          /\ message' = [message EXCEPT ![m] =
                           [sender |-> req[r].user, receiver |-> req[r].other,
                            sent_at |-> req[r].stamp, is_read |-> FALSE]]
          /\ before' = [before EXCEPT ![m] = req[r].visible]
          /\ req' = [req EXCEPT ![r].pc = "last", ![r].own = m]
    /\ UNCHANGED now

\* The INSERT is committed: the message becomes visible.
InsertMessage(r) ==
    /\ req[r].pc = "insert"
    /\ req[r].other \in Users
    /\ \E m \in MessageIds \ Rows :
          /\ message' = [message EXCEPT ![m] =
                           [sender |-> req[r].user, receiver |-> req[r].other,
                            sent_at |-> req[r].stamp, is_read |-> FALSE]]
          /\ before' = [before EXCEPT ![m] = req[r].visible]
          /\ req' = [req EXCEPT ![r].pc = "last", ![r].own = m]
    /\ UNCHANGED now

\* The receiver has no row: the foreign key fails and so does the request.
InsertRejected(r) ==
    /\ req[r].pc = "insert"
    /\ req[r].other \notin Users
    /\ req' = [req EXCEPT ![r].pc = "idle", ![r].code = 500]
    /\ UNCHANGED <<message, now, before>>

\* The whole thread is read again and its last message is the reply.
ReturnLast(r) ==
    /\ req[r].pc = "last"
    /\ \E m \in LastOf(GetConversation(req[r].user, req[r].other)) :
          req' = [req EXCEPT ![r].pc = "idle", ![r].shown = m, ![r].code = 201]
    /\ UNCHANGED <<message, now, before>>

-----------------------------------------------------------------------------
(* GET /messages/conversations/{other_user_id} *)

ReadConversation(r, u, v) ==
    /\ Begin(r, "read", "fetch", u, v, 0)
    /\ UNCHANGED <<message, now, before>>

\* The first SELECT: what it loads is what the reply will show.
FetchThread(r) ==
    /\ req[r].pc = "fetch"
    /\ LET thread == GetConversation(req[r].user, req[r].other) IN
       req' = [req EXCEPT ![r].pc = "select", ![r].thread = thread,
                          ![r].unread = {m \in thread : ~message[m].is_read}]
    /\ UNCHANGED <<message, now, before>>

\* Mutant: the messages the reader sent are marked instead of the received ones.
ToMarkSent(r) ==
    {m \in GetConversation(req[r].user, req[r].other) :
        message[m].sender = req[r].user /\ ~message[m].is_read}

\* The second SELECT, of mark_read.  A message the session already loaded keeps
\* the is_read it was loaded with; a new one comes as it is in the table.
ToMark(r) ==
    {m \in GetConversation(req[r].user, req[r].other) :
        /\ message[m].receiver = req[r].user
        /\ IF m \in req[r].thread THEN m \in req[r].unread ELSE ~message[m].is_read}

SelectUnread(r) ==
    /\ req[r].pc = "select"
    /\ req' = [req EXCEPT ![r].marks = ToMark(r),
                          ![r].pc = IF ToMark(r) = {} THEN "idle" ELSE "mark",
                          ![r].code = IF ToMark(r) = {} THEN 200 ELSE 0]
    /\ UNCHANGED <<message, now, before>>

\* Mutant: the session is closed without the commit.
MarkUncommitted(r) ==
    /\ req[r].pc = "mark"
    /\ req' = [req EXCEPT ![r].pc = "idle", ![r].code = 200]
    /\ UNCHANGED <<message, now, before>>

\* The commit of mark_read, and the reply with the messages of the first SELECT.
MarkRead(r) ==
    /\ req[r].pc = "mark"
    /\ message' = [m \in MessageIds |->
                     IF m \in req[r].marks THEN [message[m] EXCEPT !.is_read = TRUE]
                     ELSE message[m]]
    /\ req' = [req EXCEPT ![r].pc = "idle", ![r].code = 200]
    /\ UNCHANGED <<now, before>>

-----------------------------------------------------------------------------
Arrive(r) ==
    \E u \in Users :
       \/ SendToSelf(r, u)
       \/ \E v \in People : SendMessage(r, u, v) \/ ReadConversation(r, u, v)

Proceed(r) ==
    \/ BeginTransaction(r) \/ InsertMessage(r) \/ InsertRejected(r) \/ ReturnLast(r)
    \/ FetchThread(r) \/ SelectUnread(r) \/ MarkRead(r)

Next == \E r \in Requests : Arrive(r) \/ Proceed(r)

Spec == Init /\ [][Next]_vars

\* The event loop runs every coroutine whose await has returned.
FairSpec == Spec /\ \A r \in Requests : WF_vars(Proceed(r))

-----------------------------------------------------------------------------
TypeOK ==
    /\ message \in [MessageIds -> Message \union {NoRow}]
    /\ now \in 0 .. MaxTime
    /\ before \in [MessageIds -> SUBSET MessageIds]
    /\ req \in [Requests -> Request]

\* Once a thread has been returned, every message of it that the reader received
\* is read in the table, and stays so, though mark_read works on a second SELECT
\* and on the stale is_read of the first.
ShownIsRead ==
    \A r \in Requests :
       req[r].op = "read" /\ req[r].code = 200
       => \A m \in req[r].thread : message[m].receiver = req[r].user => message[m].is_read

\* A message begun after another one was visible never sorts before it: threads
\* grow at their end, unless the sends overlapped.
SequentialOrder ==
    \A m \in Rows : \A n \in before[m] : message[n].sent_at =< message[m].sent_at

\* The reply to a sender always is a message of his thread with the receiver
\* (thread[-1] never fails on an empty list), and none older than his own.
ReplyNotOlder ==
    \A r \in Requests :
       req[r].op = "send" /\ req[r].code = 201
       => /\ req[r].shown \in GetConversation(req[r].user, req[r].other)
          /\ message[req[r].own].sent_at =< message[req[r].shown].sent_at

\* What is left of the order of a thread, for who reads it and for who writes in it.
ThreadOrder == SequentialOrder /\ ReplyNotOlder

\* A message never changes but for becoming read, once and for all, in the
\* commit of its receiver's own visit to that thread.
OnlyReceiverReads ==
    [][\A m \in Rows :
          message'[m] # message[m]
          => /\ ~message[m].is_read
             /\ message'[m] = [message[m] EXCEPT !.is_read = TRUE]
             /\ \E r \in Requests : /\ req[r].pc = "mark" /\ req'[r].pc = "idle"
                                    /\ req[r].user = message[m].receiver
                                    /\ req[r].other = message[m].sender]_vars

\* Opening a thread gets everything that is in it by then read.
OpenedGetsRead ==
    \A r \in Requests, m \in MessageIds :
       (/\ req[r].pc = "fetch"
        /\ m \in GetConversation(req[r].user, req[r].other)
        /\ message[m].receiver = req[r].user) ~> (m \in Rows /\ message[m].is_read)

\* "Renvoie le fil complet avec un utilisateur et marque ses messages comme lus":
\* what a visit marks as read is part of the thread it returns.
ReadWasReturned ==
    \A r \in Requests :
       req[r].op = "read" /\ req[r].code = 200 => req[r].marks \subseteq req[r].thread
=============================================================================
