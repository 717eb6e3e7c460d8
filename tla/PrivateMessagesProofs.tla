----------------------- MODULE PrivateMessagesProofs -----------------------
(***************************************************************************)
(* Proofs about PrivateMessages, for any number of users, requests in       *)
(* flight and messages, and any bound on the clock.                        *)
(***************************************************************************)
EXTENDS PrivateMessages, TLAPS

\* The thread a request is about.
Thread(r) == GetConversation(req[r].user, req[r].other)

\* The message has been read.
IsRead(m) == message[m].is_read

\* What the request in slot r may rely on after each await, whatever the others do.
InHand(r) ==
    LET user == req[r].user
        op == req[r].op
        pc == req[r].pc
        sent == op = "send" /\ req[r].code = 201
        returned == op = "read" /\ req[r].code = 200
    IN
    /\ pc # "idle" => req[r].code = 0
    /\ pc \in {"begin", "insert", "last"} => op = "send"
    /\ pc \in {"fetch", "select", "mark"} => op = "read"
    \* What was visible as the transaction began is not newer than it.
    /\ pc = "insert" =>
          /\ req[r].stamp =< now
          /\ \A m \in req[r].visible : m \in Rows /\ message[m].sent_at =< req[r].stamp
    \* The message sent is in the thread that is read again.
    /\ pc = "last" \/ sent => req[r].own \in Thread(r)
    /\ sent => /\ req[r].shown \in Thread(r)
               /\ message[req[r].own].sent_at =< message[req[r].shown].sent_at
    \* The thread loaded; of it, what was not loaded as unread is read.
    /\ pc \in {"select", "mark"} \/ returned => req[r].thread \subseteq Thread(r)
    /\ pc = "select" => \A m \in req[r].thread : m \in req[r].unread \/ IsRead(m)
    \* What the reader is about to mark, received in this thread, is all that is unread.
    /\ pc = "mark" =>
          /\ \A m \in req[r].marks : m \in Thread(r) /\ message[m].receiver = user
          /\ \A m \in req[r].thread : message[m].receiver = user => m \in req[r].marks \/ IsRead(m)
    /\ returned => \A m \in req[r].thread : message[m].receiver = user => IsRead(m)

\* A message is not newer than the clock, and what was visible as it was begun is
\* there, and not newer than it.
Ordered ==
    \A m \in Rows : /\ message[m].sent_at =< now
                    /\ \A n \in before[m] : n \in Rows /\ message[n].sent_at =< message[m].sent_at

IInv ==
    /\ TypeOK /\ Ordered
    /\ \A r \in Requests : InHand(r)
-----------------------------------------------------------------------------
(* Stability *)

\* A message stays, with its people and its time, and stays read.
MessagesKept ==
    /\ \A m \in Rows : /\ m \in Rows'
                       /\ message'[m].sender = message[m].sender
                       /\ message'[m].receiver = message[m].receiver
                       /\ message'[m].sent_at = message[m].sent_at
                       /\ IsRead(m) => IsRead(m)'
    /\ now =< now'

LEMMA RowsAreMessages ==
    ASSUME TypeOK
    PROVE  /\ now \in Nat
           /\ \A m \in Rows : m \in MessageIds /\ message[m] \in Message /\ message[m].sent_at \in Nat
BY TimeAssumption DEF TypeOK, Rows, Message

LEMMA MessageIsNoNoRow == \A row \in Message : row # NoRow
BY TimeAssumption, NoRowAssumption DEF Message

\* Whatever a step does to the table, the other requests keep what they hold.
LEMMA OthersInHand ==
    ASSUME IInv, MessagesKept, now' \in Nat, NEW p \in Requests, req'[p] = req[p]
    PROVE  InHand(p)'
<1>1. InHand(p) /\ req[p] \in Request /\ req[p].stamp \in Nat
  BY TimeAssumption DEF IInv, TypeOK, Request
<1>2. \A m \in Thread(p) : m \in Rows /\ m \in Thread(p)'
  BY <1>1 DEF MessagesKept, Thread, GetConversation
<1>3. req[p].stamp =< now => req[p].stamp =< now'
  BY <1>1, RowsAreMessages DEF IInv, MessagesKept
<1>4. \A m \in Rows : /\ m \in Rows'
                      /\ message'[m].receiver = message[m].receiver
                      /\ message'[m].sent_at = message[m].sent_at
                      /\ IsRead(m) => IsRead(m)'
  BY DEF MessagesKept
<1>5. req[p].pc = "insert" =>
        /\ req[p].stamp =< now'
        /\ \A m \in req[p].visible : m \in Rows' /\ message'[m].sent_at =< req[p].stamp
  BY <1>1, <1>3, <1>4 DEF InHand
<1>6. req[p].pc = "last" \/ (req[p].op = "send" /\ req[p].code = 201) => req[p].own \in Thread(p)'
  BY <1>1, <1>2 DEF InHand
<1>7. req[p].op = "send" /\ req[p].code = 201 =>
        /\ req[p].shown \in Thread(p)'
        /\ message'[req[p].own].sent_at =< message'[req[p].shown].sent_at
  BY <1>1, <1>2, <1>4 DEF InHand
<1>8. req[p].pc \in {"select", "mark"} \/ (req[p].op = "read" /\ req[p].code = 200) =>
        /\ req[p].thread \subseteq Thread(p)'
        /\ \A m \in req[p].thread : /\ message'[m].receiver = message[m].receiver
                                    /\ IsRead(m) => IsRead(m)'
  BY <1>1, <1>2, <1>4 DEF InHand
<1>9. req[p].pc = "mark" =>
        \A m \in req[p].marks : m \in Thread(p)' /\ message'[m].receiver = req[p].user
  BY <1>1, <1>2, <1>4 DEF InHand
<1> QED
  BY <1>1, <1>5, <1>6, <1>7, <1>8, <1>9 DEF InHand

-----------------------------------------------------------------------------
(* What remains to be shown of a step that moves one request *)

LEMMA OneMoves ==
    ASSUME IInv, MessagesKept, NEW r \in Requests, NEW n \in Request, req' = [req EXCEPT ![r] = n],
           message' \in [MessageIds -> Message \union {NoRow}],
           before' \in [MessageIds -> SUBSET MessageIds], now' \in 0 .. MaxTime,
           Ordered', InHand(r)'
    PROVE  IInv'
<1>1. req'[r] = n /\ \A p \in Requests \ {r} : req'[p] = req[p]
  BY DEF IInv, TypeOK
<1>2. TypeOK'
  BY DEF IInv, TypeOK
<1>3. now' \in Nat
  BY TimeAssumption
<1>4. \A p \in Requests : InHand(p)'
  BY <1>1, <1>3, OthersInHand
<1> QED
  BY <1>2, <1>4 DEF IInv

\* The table and the clock stay: what remains is what the request itself holds.
LEMMA QuietStep ==
    ASSUME IInv, UNCHANGED <<message, now, before>>, NEW r \in Requests, NEW n \in Request,
           req' = [req EXCEPT ![r] = n], InHand(r)'
    PROVE  IInv'
<1>1. Rows' = Rows
  BY DEF Rows
<1>2. MessagesKept
  BY <1>1, RowsAreMessages DEF MessagesKept, IsRead, IInv
<1>3. Ordered'
  BY <1>1 DEF IInv, Ordered
<1>4. /\ message' \in [MessageIds -> Message \union {NoRow}]
      /\ before' \in [MessageIds -> SUBSET MessageIds] /\ now' \in 0 .. MaxTime
  BY DEF IInv, TypeOK
<1> QED
  BY <1>2, <1>3, <1>4, OneMoves

-----------------------------------------------------------------------------
(* The steps *)

LEMMA ArriveStep ==
    ASSUME IInv, NEW r \in Requests, Arrive(r)
    PROVE  IInv'
<1>1. PICK op \in {"send", "read"}, pc \in {"idle", "begin", "fetch"}, u \in Users,
           v \in People, code \in {0, 400} :
         /\ Begin(r, op, pc, u, v, code)
         /\ pc # "idle" => code = 0
         /\ pc = "begin" => op = "send"
         /\ pc = "fetch" => op = "read"
  BY DEF Arrive, SendToSelf, SendMessage, ReadConversation, People
<1>2. UNCHANGED <<message, now, before>>
  BY DEF Arrive, SendToSelf, SendMessage, ReadConversation
<1> DEFINE n == [op |-> op, pc |-> pc, user |-> u, other |-> v, stamp |-> 0, visible |-> {},
                 own |-> NoId, shown |-> NoId, thread |-> {}, unread |-> {}, marks |-> {},
                 code |-> code]
<1>3. n \in Request
  BY TimeAssumption DEF Request, Codes
<1>4. n.pc = pc /\ n.op = op /\ n.code = code
  OBVIOUS
<1>5. req' = [req EXCEPT ![r] = n] /\ req'[r] = n
  BY <1>1 DEF Begin, IInv, TypeOK
<1> HIDE DEF n
<1>6. InHand(r)'
  BY <1>1, <1>4, <1>5 DEF InHand
<1>7. req' = [req EXCEPT ![r] = n]
  BY <1>5
<1> QED
  BY <1>2, <1>3, <1>6, <1>7, QuietStep

LEMMA BeginTransactionStep ==
    ASSUME IInv, NEW r \in Requests, BeginTransaction(r)
    PROVE  IInv'
<1>1. PICK t \in {now, now + 1} :
         /\ t =< MaxTime
         /\ now' = t
         /\ req' = [req EXCEPT ![r].pc = "insert", ![r].visible = Rows, ![r].stamp = t]
  BY DEF BeginTransaction
<1>2. /\ UNCHANGED <<message, before>> /\ req[r].pc = "begin" /\ InHand(r) /\ req[r] \in Request
      /\ now \in Nat /\ t \in Nat /\ now =< t /\ t \in 0 .. MaxTime
  BY <1>1, TimeAssumption, RowsAreMessages DEF BeginTransaction, IInv, TypeOK
<1> DEFINE n == [req[r] EXCEPT !.pc = "insert", !.visible = Rows, !.stamp = t]
<1>3. n \in Request
  BY <1>2 DEF Request, Rows
<1>4. /\ n.pc = "insert" /\ n.visible = Rows /\ n.stamp = t /\ n.op = req[r].op
      /\ n.code = req[r].code
  BY <1>2 DEF Request
<1>5. req' = [req EXCEPT ![r] = n] /\ req'[r] = n
  BY <1>1 DEF IInv, TypeOK
<1> HIDE DEF n
<1>6. Rows' = Rows
  BY <1>2 DEF Rows
<1>7. \A m \in Rows : message[m].sent_at =< t
  <2> SUFFICES ASSUME NEW m \in Rows
               PROVE  message[m].sent_at =< t
    OBVIOUS
  <2>1. message[m].sent_at \in Nat /\ message[m].sent_at =< now
    BY RowsAreMessages DEF IInv, Ordered
  <2> QED
    BY <1>2, <2>1
<1>8. MessagesKept
  BY <1>1, <1>2, <1>6 DEF MessagesKept, IsRead
<1>9. Ordered'
  BY <1>1, <1>2, <1>6, <1>7 DEF IInv, Ordered
<1>10. InHand(r)'
  <2>1. n.op = "send" /\ n.code = 0
    BY <1>2, <1>4 DEF InHand
  <2>2. t =< now'
    BY <1>1, <1>2
  <2> QED
    BY <1>2, <1>4, <1>5, <1>6, <1>7, <2>1, <2>2 DEF InHand
<1>11. /\ message' \in [MessageIds -> Message \union {NoRow}]
       /\ before' \in [MessageIds -> SUBSET MessageIds] /\ now' \in 0 .. MaxTime
       /\ req' = [req EXCEPT ![r] = n]
  BY <1>1, <1>2, <1>5 DEF IInv, TypeOK
<1> QED
  BY <1>3, <1>8, <1>9, <1>10, <1>11, OneMoves

LEMMA InsertMessageStep ==
    ASSUME IInv, NEW r \in Requests, InsertMessage(r)
    PROVE  IInv'
<1> DEFINE row == [sender |-> req[r].user, receiver |-> req[r].other,
                   sent_at |-> req[r].stamp, is_read |-> FALSE]
<1>1. PICK m \in MessageIds \ Rows :
         /\ message' = [message EXCEPT ![m] = row]
         /\ before' = [before EXCEPT ![m] = req[r].visible]
         /\ req' = [req EXCEPT ![r].pc = "last", ![r].own = m]
  BY DEF InsertMessage
<1>2. /\ now' = now /\ req[r].pc = "insert" /\ req[r].other \in Users /\ InHand(r)
      /\ req[r] \in Request
  BY DEF InsertMessage, IInv, TypeOK
<1>3. /\ row \in Message /\ row.sender = req[r].user /\ row.receiver = req[r].other
      /\ row.sent_at = req[r].stamp
  BY <1>2 DEF Message, Request
<1>4. row # NoRow
  BY <1>3, MessageIsNoNoRow
<1> DEFINE n == [req[r] EXCEPT !.pc = "last", !.own = m]
<1>5. n \in Request
  BY <1>2 DEF Request
<1>6. /\ n.pc = "last" /\ n.own = m /\ n.op = req[r].op /\ n.code = req[r].code
      /\ n.user = req[r].user /\ n.other = req[r].other
  BY <1>2 DEF Request
<1>7. req' = [req EXCEPT ![r] = n] /\ req'[r] = n
  BY <1>1 DEF IInv, TypeOK
<1> HIDE DEF row, n
<1>8. /\ message' \in [MessageIds -> Message \union {NoRow}] /\ message'[m] = row
      /\ \A x \in MessageIds \ {m} : message'[x] = message[x]
  BY <1>1, <1>3 DEF IInv, TypeOK
<1>9. /\ before' \in [MessageIds -> SUBSET MessageIds] /\ before'[m] = req[r].visible
      /\ \A x \in MessageIds \ {m} : before'[x] = before[x]
  BY <1>1, <1>2 DEF IInv, TypeOK, Request
<1>10. Rows' = Rows \union {m} /\ \A x \in Rows : message'[x] = message[x] /\ x # m /\ x \in MessageIds
  BY <1>4, <1>8 DEF Rows
<1>11. MessagesKept
  BY <1>2, <1>10, RowsAreMessages DEF MessagesKept, IsRead, IInv
<1>12. Ordered'
  <2> SUFFICES ASSUME NEW x \in Rows'
               PROVE  /\ message'[x].sent_at =< now
                      /\ \A y \in before'[x] : y \in Rows' /\ message'[y].sent_at =< message'[x].sent_at
    BY <1>2 DEF Ordered
  <2>1. CASE x = m
    BY <1>2, <1>3, <1>8, <1>9, <1>10, <2>1 DEF InHand
  <2>2. CASE x # m
    BY <1>9, <1>10, <2>2 DEF IInv, Ordered
  <2> QED
    BY <2>1, <2>2
<1>13. m \in Thread(r)'
  BY <1>3, <1>6, <1>7, <1>8, <1>10 DEF Thread, GetConversation
<1>14. InHand(r)'
  <2>1. n.op = "send" /\ n.code = 0
    BY <1>2, <1>6 DEF InHand
  <2> QED
    BY <1>6, <1>7, <1>13, <2>1 DEF InHand
<1>15. now' \in 0 .. MaxTime /\ req' = [req EXCEPT ![r] = n]
  BY <1>2, <1>7 DEF IInv, TypeOK
<1> QED
  BY <1>5, <1>8, <1>9, <1>11, <1>12, <1>14, <1>15, OneMoves

LEMMA InsertRejectedStep ==
    ASSUME IInv, NEW r \in Requests, InsertRejected(r)
    PROVE  IInv'
<1> DEFINE n == [req[r] EXCEPT !.pc = "idle", !.code = 500]
<1>1. /\ UNCHANGED <<message, now, before>> /\ req[r].pc = "insert" /\ InHand(r)
      /\ req[r] \in Request
  BY DEF InsertRejected, IInv, TypeOK
<1>2. n \in Request /\ n.pc = "idle" /\ n.code = 500 /\ n.op = req[r].op
  <2>1. 500 \in Codes
    BY DEF Codes
  <2>2. \A c \in Codes : [req[r] EXCEPT !.pc = "idle", !.code = c] \in Request
    BY <1>1 DEF Request
  <2>3. n \in Request
    BY <2>1, <2>2
  <2>4. req[r] \in Request
    BY <1>1
  <2>5. n.pc = "idle" /\ n.code = 500 /\ n.op = req[r].op
    BY <2>4 DEF Request
  <2> QED
    BY <2>3, <2>5
<1>3. req' = [req EXCEPT ![r] = n] /\ req'[r] = n
  BY ZenonT(60) DEF InsertRejected, IInv, TypeOK
<1> HIDE DEF n
<1>4. InHand(r)'
  BY <1>2, <1>3 DEF InHand
<1>5. req' = [req EXCEPT ![r] = n]
  BY <1>3
<1> QED
  BY <1>1, <1>2, <1>4, <1>5, QuietStep, ZenonT(60)

LEMMA ReturnLastStep ==
    ASSUME IInv, NEW r \in Requests, ReturnLast(r)
    PROVE  IInv'
<1>1. PICK m \in LastOf(Thread(r)) :
         req' = [req EXCEPT ![r].pc = "idle", ![r].shown = m, ![r].code = 201]
  BY DEF ReturnLast, Thread
<1> DEFINE n == [req[r] EXCEPT !.pc = "idle", !.shown = m, !.code = 201]
<1>2. /\ UNCHANGED <<message, now, before>> /\ req[r].pc = "last" /\ InHand(r)
      /\ req[r] \in Request
  BY DEF ReturnLast, IInv, TypeOK
<1>3. m \in MessageIds /\ m \in Thread(r)
  BY DEF LastOf, Thread, GetConversation, Rows
<1>4. n \in Request
  <2>1. 201 \in Codes
    BY DEF Codes
  <2> QED
    BY <1>2, <1>3, <2>1, ZenonT(60) DEF Request
<1>5. /\ n.pc = "idle" /\ n.shown = m /\ n.code = 201 /\ n.op = req[r].op /\ n.own = req[r].own
      /\ n.user = req[r].user /\ n.other = req[r].other
  BY <1>2 DEF Request
<1>6. req' = [req EXCEPT ![r] = n] /\ req'[r] = n
  BY <1>1 DEF IInv, TypeOK
<1> HIDE DEF n
<1>7. Thread(r)' = Thread(r)
  BY <1>2, <1>5, <1>6 DEF Thread, GetConversation, Rows
<1>8. req[r].op = "send" /\ req[r].own \in Thread(r)
  BY <1>2 DEF InHand
<1>9. message[req[r].own].sent_at =< message[m].sent_at
  BY <1>8 DEF LastOf
<1>10. InHand(r)'
  BY <1>2, <1>3, <1>5, <1>6, <1>7, <1>8, <1>9 DEF InHand
<1>11. req' = [req EXCEPT ![r] = n]
  BY <1>6
<1> QED
  BY <1>2, <1>4, <1>10, <1>11, QuietStep

LEMMA FetchThreadStep ==
    ASSUME IInv, NEW r \in Requests, FetchThread(r)
    PROVE  IInv'
<1> DEFINE unread == {m \in Thread(r) : ~message[m].is_read}
           n == [req[r] EXCEPT !.pc = "select", !.thread = Thread(r), !.unread = unread]
<1>1. /\ UNCHANGED <<message, now, before>> /\ req[r].pc = "fetch" /\ InHand(r)
      /\ req[r] \in Request
      /\ req' = [req EXCEPT ![r].pc = "select", ![r].thread = Thread(r), ![r].unread = unread]
  BY DEF FetchThread, Thread, IInv, TypeOK
<1>2. Thread(r) \subseteq MessageIds /\ unread \subseteq MessageIds
  BY DEF Thread, GetConversation, Rows
<1>3. \A m \in Thread(r) : m \in unread \/ IsRead(m)
  BY DEF IsRead
<1> HIDE DEF unread
<1>4. n \in Request
  BY <1>1, <1>2 DEF Request
<1>5. /\ n.pc = "select" /\ n.thread = Thread(r) /\ n.unread = unread /\ n.code = req[r].code
      /\ n.op = req[r].op /\ n.user = req[r].user /\ n.other = req[r].other
  BY <1>1 DEF Request
<1>6. req' = [req EXCEPT ![r] = n] /\ req'[r] = n
  BY <1>1 DEF IInv, TypeOK
<1> HIDE DEF n
<1>7. Thread(r)' = Thread(r)
  BY <1>1, <1>5, <1>6, ZenonT(60) DEF Thread, GetConversation, Rows
<1>8. InHand(r)'
  <2>1. n.op = "read" /\ n.code = 0
    BY <1>1, <1>5 DEF InHand
  <2>2. \A m \in Thread(r) : m \in unread \/ IsRead(m)'
    BY <1>1, <1>3 DEF IsRead
  <2> QED
    BY <1>5, <1>6, <1>7, <2>1, <2>2 DEF InHand
<1>9. req' = [req EXCEPT ![r] = n]
  BY <1>6
<1> QED
  BY <1>1, <1>4, <1>8, <1>9, QuietStep
LEMMA SelectUnreadStep ==
    ASSUME IInv, NEW r \in Requests, SelectUnread(r)
    PROVE  IInv'
<1>1. /\ UNCHANGED <<message, now, before>> /\ req[r].pc = "select" /\ InHand(r)
      /\ req[r] \in Request
  BY DEF SelectUnread, IInv, TypeOK
<1>2. /\ req[r].op = "read" /\ req[r].code = 0 /\ req[r].thread \subseteq Thread(r)
      /\ \A m \in req[r].thread : m \in req[r].unread \/ IsRead(m)
  BY <1>1 DEF InHand
<1>3. /\ ToMark(r) \subseteq MessageIds
      /\ \A m \in ToMark(r) : m \in Thread(r) /\ message[m].receiver = req[r].user
  BY DEF ToMark, Thread, GetConversation, Rows
<1>4. \A m \in req[r].thread :
         message[m].receiver = req[r].user => m \in ToMark(r) \/ IsRead(m)
  BY <1>2 DEF ToMark, Thread
<1>5. 0 \in Codes /\ 200 \in Codes
  BY DEF Codes
<1>6. CASE ToMark(r) = {}
  <2> DEFINE n == [req[r] EXCEPT !.marks = {}, !.pc = "idle", !.code = 200]
  <2>1. n \in Request
    BY <1>1, <1>5, ZenonT(60) DEF Request
  <2>2. /\ n.pc = "idle" /\ n.code = 200 /\ n.op = req[r].op
        /\ n.thread = req[r].thread /\ n.user = req[r].user /\ n.other = req[r].other
    BY <1>1 DEF Request
  <2>3. req' = [req EXCEPT ![r].marks = {}, ![r].pc = "idle", ![r].code = 200]
    BY <1>6 DEF SelectUnread
  <2>4. req' = [req EXCEPT ![r] = n] /\ req'[r] = n
    BY <2>3 DEF IInv, TypeOK
  <2> HIDE DEF n
  <2>5. Thread(r)' = Thread(r)
    BY <1>1, <2>2, <2>4 DEF Thread, GetConversation, Rows
  <2>6. \A m \in req[r].thread : message'[m].receiver = req[r].user => IsRead(m)'
    BY <1>1, <1>4, <1>6 DEF IsRead
  <2>7. InHand(r)'
    BY <1>2, <2>2, <2>4, <2>5, <2>6 DEF InHand
  <2>8. req' = [req EXCEPT ![r] = n]
    BY <2>4
  <2> QED
    BY <1>1, <2>1, <2>7, <2>8, QuietStep, Zenon
<1>7. CASE ToMark(r) # {}
  <2> DEFINE n == [req[r] EXCEPT !.marks = ToMark(r), !.pc = "mark", !.code = 0]
  <2>1. n \in Request
    BY <1>1, <1>3, <1>5 DEF Request
  <2>2. /\ n.pc = "mark" /\ n.code = 0 /\ n.op = req[r].op /\ n.marks = ToMark(r)
        /\ n.thread = req[r].thread /\ n.user = req[r].user /\ n.other = req[r].other
    BY <1>1 DEF Request
  <2>3. req' = [req EXCEPT ![r].marks = ToMark(r), ![r].pc = "mark", ![r].code = 0]
    BY <1>7 DEF SelectUnread
  <2>4. req' = [req EXCEPT ![r] = n] /\ req'[r] = n
    BY <2>3 DEF IInv, TypeOK
  <2> HIDE DEF n
  <2>5. Thread(r)' = Thread(r)
    BY <1>1, <2>2, <2>4 DEF Thread, GetConversation, Rows
  <2>6. /\ \A m \in ToMark(r) : message'[m].receiver = req[r].user
        /\ \A m \in req[r].thread :
              message'[m].receiver = req[r].user => m \in ToMark(r) \/ IsRead(m)'
    BY <1>1, <1>3, <1>4 DEF IsRead
  <2>7. InHand(r)'
    BY <1>2, <1>3, <2>2, <2>4, <2>5, <2>6 DEF InHand
  <2>8. req' = [req EXCEPT ![r] = n]
    BY <2>4
  <2> QED
    BY <1>1, <2>1, <2>7, <2>8, QuietStep, Zenon
<1> QED
  BY <1>6, <1>7

\* What the commit of mark_read does to a message.
LEMMA Marking ==
    ASSUME IInv, NEW r \in Requests, MarkRead(r), NEW m \in MessageIds
    PROVE  /\ m \notin req[r].marks => message'[m] = message[m]
           /\ m \in req[r].marks =>
                 /\ m \in Thread(r) /\ m \in Rows /\ message[m].receiver = req[r].user
                 /\ message'[m] = [message[m] EXCEPT !.is_read = TRUE]
                 /\ message'[m] \in Message /\ message'[m].is_read = TRUE
                 /\ message'[m].sender = message[m].sender
                 /\ message'[m].receiver = message[m].receiver
                 /\ message'[m].sent_at = message[m].sent_at
<1>1. message'[m] = IF m \in req[r].marks THEN [message[m] EXCEPT !.is_read = TRUE] ELSE message[m]
  BY DEF MarkRead
<1>2. InHand(r) /\ req[r].pc = "mark"
  BY DEF IInv, MarkRead
<1>3. ASSUME m \in req[r].marks
      PROVE  m \in Thread(r) /\ m \in Rows /\ message[m].receiver = req[r].user
  BY <1>2, <1>3 DEF InHand, Thread, GetConversation
<1>4. m \in Rows => message[m] \in Message
  BY RowsAreMessages DEF IInv
<1> QED
  BY <1>1, <1>3, <1>4 DEF Message

LEMMA MarkReadStep ==
    ASSUME IInv, NEW r \in Requests, MarkRead(r)
    PROVE  IInv'
<1> DEFINE n == [req[r] EXCEPT !.pc = "idle", !.code = 200]
<1>1. /\ UNCHANGED <<now, before>> /\ req[r].pc = "mark" /\ InHand(r) /\ req[r] \in Request
      /\ req' = [req EXCEPT ![r].pc = "idle", ![r].code = 200]
  BY DEF MarkRead, IInv, TypeOK
<1>2. n \in Request
  <2>1. 200 \in Codes
    BY DEF Codes
  <2> QED
    BY <1>1, <2>1, ZenonT(60) DEF Request
<1>3. /\ n.pc = "idle" /\ n.code = 200 /\ n.op = req[r].op
      /\ n.thread = req[r].thread /\ n.user = req[r].user /\ n.other = req[r].other
  BY <1>1 DEF Request
<1>4. req' = [req EXCEPT ![r] = n] /\ req'[r] = n
  BY <1>1 DEF IInv, TypeOK
<1> HIDE DEF n
<1>5. message' \in [MessageIds -> Message \union {NoRow}]
  <2>1. \A m \in MessageIds : message'[m] \in Message \union {NoRow}
    BY Marking DEF IInv, TypeOK
  <2>2. message' = [m \in MessageIds |-> message'[m]]
    BY DEF MarkRead
  <2> QED
    BY <2>1, <2>2
<1>6. Rows' = Rows
  BY Marking, MessageIsNoNoRow, ZenonT(60) DEF Rows
<1>7. \A m \in Rows : /\ message'[m].sender = message[m].sender
                      /\ message'[m].receiver = message[m].receiver
                      /\ message'[m].sent_at = message[m].sent_at
                      /\ IsRead(m) \/ m \in req[r].marks => IsRead(m)'
  <2> SUFFICES ASSUME NEW m \in Rows
               PROVE  /\ message'[m].sender = message[m].sender
                      /\ message'[m].receiver = message[m].receiver
                      /\ message'[m].sent_at = message[m].sent_at
                      /\ IsRead(m) \/ m \in req[r].marks => IsRead(m)'
    OBVIOUS
  <2>1. m \in MessageIds
    BY DEF Rows
  <2> QED
    BY <2>1, Marking DEF IsRead
<1>8. MessagesKept
  BY <1>1, <1>6, <1>7, RowsAreMessages DEF MessagesKept, IInv
<1>9. Ordered'
  BY <1>1, <1>6, <1>7 DEF IInv, Ordered
<1>10. Thread(r)' = Thread(r)
  BY <1>3, <1>4, <1>6, <1>7 DEF Thread, GetConversation
<1>11. InHand(r)'
  <2>1. req[r].op = "read" /\ req[r].thread \subseteq Thread(r)
    BY <1>1 DEF InHand
  <2>2. ASSUME NEW m \in req[r].thread, message'[m].receiver = req[r].user
        PROVE  IsRead(m)'
    <3>1. m \in Rows
      BY <2>1 DEF Thread, GetConversation
    <3>2. m \in req[r].marks \/ IsRead(m)
      BY <1>1, <1>7, <2>2, <3>1 DEF InHand
    <3> QED
      BY <1>7, <3>1, <3>2
  <2> QED
    BY <1>3, <1>4, <1>10, <2>1, <2>2 DEF InHand
<1>12. /\ before' \in [MessageIds -> SUBSET MessageIds] /\ now' \in 0 .. MaxTime
       /\ req' = [req EXCEPT ![r] = n]
  BY <1>1, <1>4 DEF IInv, TypeOK
<1> QED
  BY <1>2, <1>5, <1>8, <1>9, <1>11, <1>12, OneMoves

-----------------------------------------------------------------------------
(* The inductive invariant *)

LEMMA Initially == Init => IInv
<1> SUFFICES ASSUME Init PROVE IInv
  OBVIOUS
<1>1. \A r \in Requests :
         req[r] \in Request /\ req[r].pc = "idle" /\ req[r].op = "none" /\ req[r].code = 0
  <2> DEFINE First == [op : {"none"}, pc : {"idle"}, user : Users, other : Users, stamp : {0},
                       visible : {{}}, own : {NoId}, shown : {NoId}, thread : {{}},
                       unread : {{}}, marks : {{}}, code : {0}]
  <2>1. \A r \in Requests : req[r] \in First
    BY DEF Init
  <2>2. 0 \in 0 .. MaxTime /\ 0 \in Codes
    BY TimeAssumption DEF Codes
  <2>3. \A n \in First : n \in Request /\ n.pc = "idle" /\ n.op = "none" /\ n.code = 0
    BY <2>2 DEF Request, People
  <2> HIDE DEF First
  <2> QED
    BY <2>1, <2>3
<1>2. TypeOK
  <2>1. req \in [Requests -> Request]
    BY <1>1 DEF Init
  <2>2. now \in 0 .. MaxTime
    BY TimeAssumption DEF Init
  <2>3. message \in [MessageIds -> Message \union {NoRow}] /\ before \in [MessageIds -> SUBSET MessageIds]
    BY DEF Init
  <2> QED
    BY <2>1, <2>2, <2>3 DEF TypeOK
<1>3. Rows = {}
  BY DEF Init, Rows
<1>4. \A r \in Requests : InHand(r)
  BY <1>1 DEF InHand
<1> QED
  BY <1>2, <1>3, <1>4 DEF IInv, Ordered

LEMMA Inductive ==
    ASSUME IInv, [Next]_vars
    PROVE  IInv'
<1>1. ASSUME NEW r \in Requests, Arrive(r)
      PROVE  IInv'
  BY <1>1, ArriveStep
<1>2. ASSUME NEW r \in Requests, Proceed(r)
      PROVE  IInv'
  BY <1>2, BeginTransactionStep, InsertMessageStep, InsertRejectedStep, ReturnLastStep,
     FetchThreadStep, SelectUnreadStep, MarkReadStep DEF Proceed
<1>3. CASE UNCHANGED vars
  BY <1>3 DEF vars, IInv, TypeOK, Ordered, InHand, Thread, GetConversation, Rows, IsRead
<1> QED
  BY <1>1, <1>2, <1>3 DEF Next

\* Every reachable state satisfies the inductive invariant: messages are ordered as they
\* were begun, and every request in flight holds what its handler takes for granted.
THEOREM Invariance == Spec => []IInv
<1>1. IInv /\ [Next]_vars => IInv'
  BY Inductive
<1> QED
  BY Initially, <1>1, PTL DEF Spec

-----------------------------------------------------------------------------
(* The properties *)

\* The table of messages keeps its columns, and every request is one the handlers make.
THEOREM TypeCorrect == Spec => []TypeOK
<1>1. IInv => TypeOK
  BY DEF IInv
<1> QED
  BY Invariance, <1>1, PTL

\* Once get_conversation has returned a thread, what its reader received of it is read,
\* though mark_read works on a second SELECT and on the is_read the first one loaded.
THEOREM ReturnedIsRead == Spec => []ShownIsRead
<1>1. IInv => ShownIsRead
  BY DEF IInv, InHand, ShownIsRead, IsRead
<1> QED
  BY Invariance, <1>1, PTL

\* A message begun when another was visible does not sort before it, and the reply to a
\* sender is a message of his thread, none older than his own.
THEOREM ThreadsInOrder == Spec => []ThreadOrder
<1>1. IInv => SequentialOrder
  BY DEF IInv, Ordered, SequentialOrder
<1>2. IInv => ReplyNotOlder
  BY DEF IInv, InHand, Thread, ReplyNotOlder
<1>3. IInv => ThreadOrder
  BY <1>1, <1>2 DEF ThreadOrder
<1> QED
  BY Invariance, <1>3, PTL

\* A message only ever changes by becoming read, in the commit of its receiver's own visit
\* to the thread he has with its sender.
THEOREM ReadByItsReceiver == Spec => OnlyReceiverReads
<1> DEFINE Changed(m) ==
      message'[m] # message[m]
      => /\ ~message[m].is_read
         /\ message'[m] = [message[m] EXCEPT !.is_read = TRUE]
         /\ \E r \in Requests : /\ req[r].pc = "mark" /\ req'[r].pc = "idle"
                                /\ req[r].user = message[m].receiver
                                /\ req[r].other = message[m].sender
<1>1. ASSUME IInv, [Next]_vars, NEW m \in Rows
      PROVE  Changed(m)
  <2> SUFFICES ASSUME message'[m] # message[m]
               PROVE  /\ ~message[m].is_read
                      /\ message'[m] = [message[m] EXCEPT !.is_read = TRUE]
                      /\ \E r \in Requests : /\ req[r].pc = "mark" /\ req'[r].pc = "idle"
                                             /\ req[r].user = message[m].receiver
                                             /\ req[r].other = message[m].sender
    OBVIOUS
  <2>1. m \in MessageIds /\ message[m] \in Message
    BY <1>1, RowsAreMessages DEF IInv
  <2>2. ASSUME NEW r \in Requests, InsertMessage(r)
        PROVE  FALSE
    BY <1>1, <2>1, <2>2 DEF InsertMessage, IInv, TypeOK
  <2>3. \E r \in Requests : MarkRead(r)
    <3>1. CASE \E r \in Requests : Arrive(r)
      BY <3>1 DEF Arrive, SendToSelf, SendMessage, ReadConversation
    <3>2. CASE \E r \in Requests : Proceed(r)
      BY <2>2, <3>2 DEF Proceed, BeginTransaction, InsertRejected, ReturnLast, FetchThread, SelectUnread
    <3> QED
      BY <1>1, <3>1, <3>2 DEF Next, vars
  <2>4. PICK r \in Requests : MarkRead(r)
    BY <2>3
  <2>5. /\ m \in Thread(r) /\ message[m].receiver = req[r].user
        /\ message'[m] = [message[m] EXCEPT !.is_read = TRUE]
    BY <1>1, <2>1, <2>4, Marking
  <2>6. req[r].other = message[m].sender
    BY <2>5 DEF Thread, GetConversation
  <2>7. req[r].pc = "mark" /\ req'[r].pc = "idle"
    BY <1>1, <2>4 DEF MarkRead, IInv, TypeOK, Request
  <2>8. ~message[m].is_read
    <3> SUFFICES ASSUME message[m].is_read
                 PROVE  FALSE
      OBVIOUS
    <3>1. [message[m] EXCEPT !.is_read = TRUE] = message[m]
      BY <2>1 DEF Message
    <3> QED
      BY <2>5, <3>1
  <2> QED
    BY <2>5, <2>6, <2>7, <2>8
<1>2. IInv /\ [Next]_vars => [\A m \in Rows : Changed(m)]_vars
  BY <1>1
<1> QED
  BY Invariance, <1>2, PTL DEF Spec, OnlyReceiverReads
=============================================================================
