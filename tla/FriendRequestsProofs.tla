------------------------ MODULE FriendRequestsProofs ------------------------
(***************************************************************************)
(* Proofs about FriendRequests, for any number of users, requests in       *)
(* flight and friendship ids.                                              *)
(***************************************************************************)
EXTENDS FriendRequests, TLAPS

\* Rows are never deleted and keep their two users; only a status changes, and
\* never back to pending.
RowsKept ==
    /\ \A f \in Rows : /\ friendship'[f] # NoRow
                       /\ friendship'[f].requester = friendship[f].requester
                       /\ friendship'[f].addressee = friendship[f].addressee
                       /\ friendship[f].status \in Answers => friendship'[f].status \in Answers

\* Whatever a step does to the table, the other requests keep what they hold.
LEMMA OthersInHand ==
    ASSUME IInv, RowsKept, NEW q \in Requests, req'[q] = req[q]
    PROVE  InHand(q)' /\ Known(q)'
<1>1. InHand(q)'
  BY DEF IInv, RowsKept, InHand, Rows, TypeOK, Request
<1>2. Known(q)'
  BY DEF IInv, RowsKept, Known, Joins, Rows
<1> QED
  BY <1>1, <1>2

\* A request that is not about to insert knows no more than before.
LEMMA KnownKept ==
    ASSUME RowsKept, NEW r \in Requests, req'[r].pc # "insert", req'[r].before \subseteq Rows
    PROVE  Known(r)'
  BY DEF RowsKept, Known, Rows

\* A step that leaves the table alone keeps its rows.
LEMMA TableKept == UNCHANGED friendship => RowsKept /\ Rows' = Rows
  BY DEF RowsKept, Rows

-----------------------------------------------------------------------------
\* The invariant holds at the start.
LEMMA InitIInv == Init => IInv
<1> SUFFICES ASSUME Init PROVE IInv
  OBVIOUS
<1>1. TypeOK
  BY DEF Init, TypeOK, Friendship, Request, Answers, Statuses, Codes
<1>2. Rows = {}
  BY DEF Init, Rows
<1>3. \A r \in Requests : /\ req[r].op = "none" /\ req[r].pc = "idle"
                          /\ req[r].code = 0 /\ req[r].before = {}
  BY DEF Init
<1> QED
  BY <1>1, <1>2, <1>3 DEF IInv, DirectedUnique, SendEndsRelated, AnsweredStaysAnswered, InHand, Known

\* What remains to show of a step that moves one request and leaves the table.
LEMMA ReadOnlyStep ==
    ASSUME IInv, UNCHANGED friendship, NEW r \in Requests, NEW q \in Request,
           req' = [req EXCEPT ![r] = q],
           InHand(r)', Known(r)',
           q.op = "send" /\ q.code # 0 /\ q.target \in Users /\ q.target # q.user
              => GetBetween(q.user, q.target) # {},
           q.op = "respond" /\ q.code = 200
              => q.loaded \in Answers /\ friendship[q.row].status \in Answers
    PROVE  IInv'
<1>1. req'[r] = q /\ \A p \in Requests \ {r} : req'[p] = req[p]
  BY DEF IInv, TypeOK
<1>2. RowsKept
  BY DEF RowsKept, Rows
<1>3. TypeOK'
  BY DEF IInv, TypeOK
<1>4. DirectedUnique'
  BY DEF IInv, DirectedUnique, Rows
<1>5. SendEndsRelated'
  BY <1>1 DEF IInv, SendEndsRelated, GetBetween, Rows, Joins
<1>6. AnsweredStaysAnswered'
  BY <1>1 DEF IInv, AnsweredStaysAnswered
<1>7. \A p \in Requests : InHand(p)' /\ Known(p)'
  BY <1>1, <1>2, OthersInHand
<1> QED
  BY <1>3, <1>4, <1>5, <1>6, <1>7 DEF IInv

-----------------------------------------------------------------------------
\* A request that comes in: nothing is known of it yet.
LEMMA ArriveStep ==
    ASSUME IInv, NEW r \in Requests, Arrive(r) PROVE IInv'
<1> USE DEF Request, Answers, Statuses
<1>1. ASSUME NEW u \in Users, NEW v \in Users \union Ghosts, SendFriendRequest(r, u, v)
      PROVE  IInv'
  <2> DEFINE q == [op |-> "send", pc |-> "check", user |-> u, target |-> v, row |-> NoId,
                   want |-> "accepted", loaded |-> "pending", before |-> Rows, code |-> 0]
  <2>1. q \in Request
    BY DEF Rows, Codes
  <2>2. req' = [req EXCEPT ![r] = q] /\ v # u /\ UNCHANGED friendship
    BY <1>1 DEF SendFriendRequest, Begin
  <2>3. InHand(r)'
    BY <2>2 DEF InHand, IInv, TypeOK
  <2>4. ~(q.op = "send" /\ q.code # 0 /\ q.target # q.user) /\ q.code # 200
    OBVIOUS
  <2>5. q.pc # "insert" /\ q.before \subseteq Rows /\ req'[r] = q
    BY <2>2 DEF IInv, TypeOK
  <2> HIDE DEF q
  <2>6. Known(r)'
    BY <2>2, <2>5, KnownKept, TableKept
  <2> QED
    BY <2>1, <2>2, <2>3, <2>4, <2>6, ReadOnlyStep, ZenonT(60)
<1>2. ASSUME NEW u \in Users, SendToSelf(r, u)
      PROVE  IInv'
  <2> DEFINE q == [op |-> "send", pc |-> "idle", user |-> u, target |-> u, row |-> NoId,
                   want |-> "accepted", loaded |-> "pending", before |-> {}, code |-> 400]
  <2>1. q \in Request
    BY DEF Codes
  <2>2. req' = [req EXCEPT ![r] = q] /\ UNCHANGED friendship
    BY <1>2 DEF SendToSelf
  <2>3. InHand(r)'
    BY <2>2 DEF InHand, IInv, TypeOK
  <2>4. ~(q.op = "send" /\ q.code # 0 /\ q.target # q.user) /\ q.code # 200
    OBVIOUS
  <2>5. q.pc # "insert" /\ q.before \subseteq Rows /\ req'[r] = q
    BY <2>2 DEF IInv, TypeOK
  <2> HIDE DEF q
  <2>6. Known(r)'
    BY <2>2, <2>5, KnownKept, TableKept
  <2> QED
    BY <2>1, <2>2, <2>3, <2>4, <2>6, ReadOnlyStep
<1>3. ASSUME NEW u \in Users, NEW f \in Rows \union {NoId}, NEW want \in Answers,
             RespondFriendRequest(r, u, f, want)
      PROVE  IInv'
  <2> DEFINE q == [op |-> "respond", pc |-> "load", user |-> u, target |-> u, row |-> f,
                   want |-> want, loaded |-> "pending", before |-> Rows, code |-> 0]
  <2>1. q \in Request
    BY DEF Rows, Codes
  <2>2. req' = [req EXCEPT ![r] = q] /\ UNCHANGED friendship
    BY <1>3 DEF RespondFriendRequest, Begin
  <2>3. InHand(r)'
    BY <2>2 DEF InHand, IInv, TypeOK
  <2>4. ~(q.op = "send" /\ q.code # 0 /\ q.target # q.user) /\ q.code # 200
    OBVIOUS
  <2>5. q.pc # "insert" /\ q.before \subseteq Rows /\ req'[r] = q
    BY <2>2 DEF IInv, TypeOK
  <2> HIDE DEF q
  <2>6. Known(r)'
    BY <2>2, <2>5, KnownKept, TableKept
  <2> QED
    BY <2>1, <2>2, <2>3, <2>4, <2>6, ReadOnlyStep
<1> QED
  BY <1>1, <1>2, <1>3 DEF Arrive

-----------------------------------------------------------------------------
\* An error reply, given before the request has changed anything.
LEMMA ErrorReplyStep ==
    ASSUME IInv, UNCHANGED friendship, NEW r \in Requests, NEW c \in Codes \ {0, 200},
           Reply(r, c),
           req[r].op = "send" /\ req[r].target \in Users
              => GetBetween(req[r].user, req[r].target) # {}
    PROVE  IInv'
<1> DEFINE q == [req[r] EXCEPT !.pc = "idle", !.code = c, !.before = {}]
<1>1. req[r] \in Request
  BY DEF IInv, TypeOK
<1>2. q \in Request
  BY <1>1 DEF Request
<1>3. req' = [req EXCEPT ![r] = q]
  BY DEF Reply, IInv, TypeOK
<1>4. /\ q.user = req[r].user /\ q.target = req[r].target /\ q.op = req[r].op
      /\ q.pc = "idle" /\ q.code = c /\ q.before = {}
  BY <1>1 DEF Request
<1> HIDE DEF q
<1>8. Known(r)'
  BY <1>3, <1>4, KnownKept, TableKept DEF IInv, TypeOK
<1>5. InHand(r)'
  BY <1>3, <1>4 DEF InHand, IInv, TypeOK
<1>6. q.code # 200
  BY <1>4
<1>7. q.op = "send" /\ q.target \in Users => GetBetween(q.user, q.target) # {}
  BY <1>4
<1> QED
  BY <1>2, <1>3, <1>5, <1>6, <1>7, <1>8, ReadOnlyStep

\* The check of send_friend_request.
LEMMA CheckStep ==
    ASSUME IInv, NEW r \in Requests, CheckRelation(r) PROVE IInv'
<1>1. CASE GetBetween(req[r].user, req[r].target) # {}
  BY <1>1, ErrorReplyStep DEF CheckRelation, Codes
<1>2. CASE GetBetween(req[r].user, req[r].target) = {}
  <2> DEFINE q == [req[r] EXCEPT !.pc = "insert"]
  <2>1. req[r] \in Request /\ InHand(r) /\ req[r].pc = "check"
    BY DEF IInv, TypeOK, CheckRelation
  <2>2. q \in Request /\ req' = [req EXCEPT ![r] = q] /\ UNCHANGED friendship
    BY <1>2, <2>1 DEF CheckRelation, Request
  <2>3. /\ q.user = req[r].user /\ q.target = req[r].target
        /\ q.pc = "insert" /\ q.code = 0 /\ q.op = "send" /\ q.target # q.user
        /\ q.before = req[r].before
    BY <2>1 DEF Request, InHand
  <2> HIDE DEF q
  <2>4. InHand(r)'
    BY <2>2, <2>3 DEF InHand, IInv, TypeOK
  <2>5. Known(r)'
    <3>1. req'[r] = q /\ req[r].before \subseteq Rows
      BY <2>2 DEF IInv, TypeOK, Known
    <3>2. \A g \in req[r].before : ~Joins(g, req[r].user, req[r].target)
      BY <1>2, <3>1 DEF GetBetween
    <3> QED
      BY <2>2, <2>3, <3>1, <3>2 DEF Known, Joins, Rows
  <2> QED
    BY <2>2, <2>3, <2>4, <2>5, ReadOnlyStep
<1> QED
  BY <1>1, <1>2

\* The INSERT that a constraint refuses: a real addressee has a row already.
LEMMA InsertRejectedStep ==
    ASSUME IInv, NEW r \in Requests, InsertRejected(r) PROVE IInv'
<1>1. Reply(r, 500) /\ UNCHANGED friendship
  BY DEF InsertRejected
<1>2. req[r].target \in Users => GetBetween(req[r].user, req[r].target) # {}
  BY DEF InsertRejected, InsertFails, GetBetween, Joins, Rows
<1> QED
  BY <1>1, <1>2, ErrorReplyStep DEF Codes

\* The SELECT of respond_friend_request, with its 404 and its 403.
LEMMA LoadStep ==
    ASSUME IInv, NEW r \in Requests, LoadFriendship(r) PROVE IInv'
<1>1. req[r] \in Request /\ InHand(r) /\ req[r].pc = "load" /\ UNCHANGED friendship
  BY DEF IInv, TypeOK, LoadFriendship
<1>2. req[r].op # "send"
  BY <1>1 DEF InHand
<1>3. CASE req[r].row \in Rows /\ friendship[req[r].row].addressee = req[r].user
  <2> DEFINE q == [req[r] EXCEPT !.pc = "update", !.loaded = friendship[req[r].row].status]
  <2>1. friendship[req[r].row].status \in Statuses
    BY <1>3 DEF Rows, IInv, TypeOK, Friendship
  <2>2. req' = [req EXCEPT ![r] = q]
    BY <1>1, <1>3 DEF LoadFriendship, IInv, TypeOK
  <2>3. q \in Request
    BY <1>1, <2>1 DEF Request
  <2>4. /\ q.user = req[r].user /\ q.row = req[r].row /\ q.pc = "update" /\ q.code = 0
        /\ q.op = "respond" /\ q.loaded = friendship[req[r].row].status
        /\ q.before = req[r].before
    BY <1>1 DEF Request, InHand
  <2> HIDE DEF q
  <2>5. InHand(r)'
    BY <1>1, <1>3, <2>2, <2>4 DEF InHand, IInv, TypeOK, Rows
  <2>6. q.op # "send" /\ q.code # 200
    BY <2>4
  <2>7. Known(r)'
    <3>1. req'[r] = q /\ req[r].before \subseteq Rows
      BY <2>2 DEF IInv, TypeOK, Known
    <3> QED
      BY <1>1, <2>4, <3>1, KnownKept, TableKept
  <2> QED
    BY <1>1, <2>2, <2>3, <2>5, <2>6, <2>7, ReadOnlyStep
<1>4. CASE ~(req[r].row \in Rows /\ friendship[req[r].row].addressee = req[r].user)
  <2>1. Reply(r, 403) \/ Reply(r, 404)
    BY <1>4 DEF LoadFriendship
  <2> QED
    BY <1>1, <1>2, <2>1, ErrorReplyStep DEF Codes
<1> QED
  BY <1>3, <1>4

\* The refresh that ends both handlers.
LEMMA RefreshStep ==
    ASSUME IInv, NEW r \in Requests, Refresh(r) PROVE IInv'
<1> DEFINE st == friendship[req[r].row].status
           c == IF req[r].op = "send" THEN 201 ELSE 200
           q == [req[r] EXCEPT !.pc = "idle", !.before = {}, !.loaded = st, !.code = c]
<1>1. req[r] \in Request /\ InHand(r) /\ req[r].pc = "refresh" /\ UNCHANGED friendship
  BY DEF IInv, TypeOK, Refresh
<1>2. /\ req[r].row \in Rows /\ st \in Statuses /\ req[r].op \in {"send", "respond"}
      /\ req[r].op = "respond" => st \in Answers
      /\ req[r].op = "send" => /\ friendship[req[r].row].requester = req[r].user
                               /\ friendship[req[r].row].addressee = req[r].target
  BY <1>1 DEF InHand, IInv, TypeOK, Friendship, Rows
<1>3. req' = [req EXCEPT ![r] = q]
  BY ZenonT(60) DEF Refresh, IInv, TypeOK
<1>4. c \in Codes /\ (c = 200 => req[r].op # "send")
  BY DEF Codes
<1>5. /\ q.user = req[r].user /\ q.target = req[r].target /\ q.op = req[r].op
      /\ q.row = req[r].row /\ q.pc = "idle" /\ q.code = c /\ q.loaded = st /\ q.before = {}
  BY <1>1 DEF Request
<1> HIDE DEF c, st
<1>6. q \in Request
  BY <1>1, <1>2, <1>4 DEF Request
<1> HIDE DEF q
<1>7. InHand(r)'
  BY <1>1, <1>2, <1>3, <1>5 DEF InHand, IInv, TypeOK, Rows
<1>8. q.op = "send" => GetBetween(q.user, q.target) # {}
  BY <1>2, <1>5 DEF GetBetween, Joins
<1>9. q.op = "respond" => q.loaded \in Answers /\ friendship[q.row].status \in Answers
  BY <1>2, <1>5 DEF st
<1>10. Known(r)'
  BY <1>1, <1>3, <1>5, KnownKept, TableKept DEF IInv, TypeOK
<1> QED
  BY <1>1, <1>3, <1>6, <1>7, <1>8, <1>9, <1>10, ReadOnlyStep

-----------------------------------------------------------------------------
\* What remains to show of a step that writes the table: it keeps the rows, and
\* the request that writes is left with the row in hand and without a reply.
LEMMA WritingStep ==
    ASSUME IInv, RowsKept, TypeOK', DirectedUnique', NEW r \in Requests,
           \A p \in Requests \ {r} : req'[p] = req[p],
           req'[r].code = 0, InHand(r)', Known(r)'
    PROVE  IInv'
<1>1. SendEndsRelated'
  <2> SUFFICES ASSUME NEW p \in Requests, req'[p].op = "send", req'[p].code # 0,
                      req'[p].target \in Users, req'[p].target # req'[p].user
               PROVE  GetBetween(req[p].user, req[p].target)' # {}
    BY DEF SendEndsRelated
  <2>1. p # r /\ req'[p] = req[p]
    OBVIOUS
  <2>2. GetBetween(req[p].user, req[p].target) # {}
    BY <2>1 DEF IInv, SendEndsRelated
  <2> QED
    BY <2>1, <2>2 DEF GetBetween, Joins, Rows, RowsKept
<1>2. AnsweredStaysAnswered'
  <2> SUFFICES ASSUME NEW p \in Requests, req'[p].op = "respond", req'[p].code = 200
               PROVE  req'[p].loaded \in Answers /\ friendship'[req'[p].row].status \in Answers
    BY DEF AnsweredStaysAnswered
  <2>1. p # r /\ req'[p] = req[p]
    OBVIOUS
  <2>2. /\ req[p].row \in Rows /\ req[p].loaded \in Answers
        /\ friendship[req[p].row].status \in Answers
    BY <2>1 DEF IInv, AnsweredStaysAnswered, InHand
  <2> QED
    BY <2>1, <2>2 DEF RowsKept
<1>3. \A p \in Requests : InHand(p)' /\ Known(p)'
  BY OthersInHand
<1> QED
  BY <1>1, <1>2, <1>3 DEF IInv

\* The INSERT of send_friend_request: the constraint and the self check keep
\* the rows directed and unique.
LEMMA InsertStep ==
    ASSUME IInv, NEW r \in Requests, InsertFriendship(r) PROVE IInv'
<1> DEFINE new == [requester |-> req[r].user, addressee |-> req[r].target, status |-> "pending"]
<1>1. req[r] \in Request /\ InHand(r) /\ req[r].pc = "insert" /\ req[r].target \in Users
  BY DEF IInv, TypeOK, InsertFriendship, InsertAs, InsertFails
<1>2. PICK f \in FriendshipIds \ Rows :
        /\ friendship' = [friendship EXCEPT ![f] = new]
        /\ req' = [req EXCEPT ![r].pc = "refresh", ![r].row = f]
  BY DEF InsertFriendship, InsertAs
<1>3. new \in Friendship /\ new # NoRow
  BY <1>1, NoRowAssumption DEF Friendship, Statuses, Answers, Request
<1>4. /\ friendship'[f] = new
      /\ \A g \in FriendshipIds \ {f} : friendship'[g] = friendship[g]
  BY <1>2 DEF IInv, TypeOK
<1>5. RowsKept
  BY <1>2, <1>4 DEF RowsKept, Rows
<1>6. /\ req'[r] = [req[r] EXCEPT !.pc = "refresh", !.row = f]
      /\ \A p \in Requests \ {r} : req'[p] = req[p]
  BY <1>2 DEF IInv, TypeOK
<1>7. /\ req'[r].pc = "refresh" /\ req'[r].row = f /\ req'[r].op = "send" /\ req'[r].code = 0
      /\ req'[r].user = req[r].user /\ req'[r].target = req[r].target
      /\ req'[r].before = req[r].before
  BY <1>1, <1>6 DEF Request, InHand
<1>8. TypeOK'
  <2>1. req'[r] \in Request
    <3>1. f \in FriendshipIds \union {NoId}
      OBVIOUS
    <3> QED
      BY <1>1, <1>6, <3>1 DEF Request
  <2>2. req' \in [Requests -> Request]
    BY <1>2, <1>6, <2>1 DEF IInv, TypeOK
  <2>3. friendship' \in [FriendshipIds -> Friendship \union {NoRow}]
    BY <1>2, <1>3 DEF IInv, TypeOK
  <2> QED
    BY <2>2, <2>3 DEF TypeOK
<1>9. DirectedUnique'
  <2>1. \A g \in Rows : ~(/\ friendship[g].requester = req[r].user
                          /\ friendship[g].addressee = req[r].target)
    BY DEF InsertFriendship, InsertAs, InsertFails
  <2>2. Rows' = Rows \union {f}
    BY <1>3, <1>4 DEF Rows
  <2>3. new.requester # new.addressee
    BY <1>1 DEF InHand
  <2> QED
    BY <1>2, <1>4, <2>1, <2>2, <2>3 DEF DirectedUnique, IInv, Rows
<1>10. InHand(r)'
  BY <1>2, <1>3, <1>4, <1>7 DEF InHand, Rows
<1>11. Known(r)'
  BY <1>5, <1>7, KnownKept DEF IInv, Known
<1> QED
  BY <1>5, <1>6, <1>7, <1>8, <1>9, <1>10, <1>11, WritingStep

\* The UPDATE of respond_friend_request, skipped when it would change nothing
\* of what the session loaded.
LEMMA UpdateStep ==
    ASSUME IInv, NEW r \in Requests, UpdateStatus(r) PROVE IInv'
<1>1. req[r] \in Request /\ InHand(r) /\ req[r].pc = "update"
  BY DEF IInv, TypeOK, UpdateStatus
<1>2. /\ req[r].row \in Rows /\ req[r].op = "respond" /\ req[r].code = 0
      /\ req[r].want \in Answers
      /\ req[r].loaded \in Answers => friendship[req[r].row].status \in Answers
  BY <1>1 DEF InHand, Request
<1>3. /\ req' = [req EXCEPT ![r] = [req[r] EXCEPT !.pc = "refresh"]]
      /\ req'[r] = [req[r] EXCEPT !.pc = "refresh"]
      /\ \A p \in Requests \ {r} : req'[p] = req[p]
  BY DEF UpdateStatus, IInv, TypeOK
<1>4. /\ req'[r].pc = "refresh" /\ req'[r].row = req[r].row
      /\ req'[r].op = "respond" /\ req'[r].code = 0 /\ req'[r].before = req[r].before
  BY <1>1, <1>2, <1>3 DEF Request
<1>5. /\ friendship' \in [FriendshipIds -> Friendship \union {NoRow}]
      /\ RowsKept
      /\ friendship'[req[r].row].status \in Answers
      /\ Rows' = Rows
  <2>1. CASE req[r].want = req[r].loaded
    BY <1>2, <2>1 DEF UpdateStatus, RowsKept, IInv, TypeOK, Rows
  <2>2. CASE req[r].want # req[r].loaded
    <3> DEFINE f == req[r].row
               new == [friendship[f] EXCEPT !.status = req[r].want]
    <3>1. friendship[f] \in Friendship /\ f \in FriendshipIds
      BY <1>2 DEF Rows, IInv, TypeOK
    <3>2. /\ new \in Friendship /\ new # NoRow /\ new.status = req[r].want
          /\ new.requester = friendship[f].requester
          /\ new.addressee = friendship[f].addressee
      BY <1>2, <3>1, NoRowAssumption DEF Friendship, Statuses, Answers
    <3>3. friendship' = [friendship EXCEPT ![f] = new]
      BY <2>2 DEF UpdateStatus, IInv, TypeOK
    <3> HIDE DEF f, new
    <3>4. /\ friendship' \in [FriendshipIds -> Friendship \union {NoRow}]
          /\ friendship'[f] = new
          /\ \A g \in FriendshipIds \ {f} : friendship'[g] = friendship[g]
      BY <3>1, <3>2, <3>3 DEF IInv, TypeOK
    <3>5. RowsKept
      BY <1>2, <3>2, <3>4 DEF RowsKept, Rows
    <3>6. f \in Rows
      BY <1>2 DEF f
    <3>7. Rows' = Rows
      BY <3>2, <3>4, <3>6 DEF Rows
    <3> QED
      BY <1>2, <3>2, <3>4, <3>5, <3>7 DEF f
  <2> QED
    BY <2>1, <2>2
<1>6. TypeOK'
  <2>1. [req[r] EXCEPT !.pc = "refresh"] \in Request
    BY <1>1 DEF Request
  <2> QED
    BY <1>3, <1>5, <2>1 DEF TypeOK, IInv
<1>7. DirectedUnique'
  BY <1>5 DEF DirectedUnique, IInv, RowsKept
<1>8. InHand(r)'
  BY <1>2, <1>4, <1>5 DEF InHand
<1>9. Known(r)'
  BY <1>4, <1>5, KnownKept DEF IInv, Known
<1> QED
  BY <1>3, <1>4, <1>5, <1>6, <1>7, <1>8, <1>9, WritingStep

-----------------------------------------------------------------------------
\* The invariant is inductive.
LEMMA NextIInv == IInv /\ [Next]_vars => IInv'
<1> SUFFICES ASSUME IInv, [Next]_vars PROVE IInv'
  OBVIOUS
<1>1. CASE UNCHANGED vars
  BY <1>1 DEF vars, IInv, TypeOK, DirectedUnique, SendEndsRelated, AnsweredStaysAnswered,
              InHand, Known, GetBetween, Joins, Rows
<1>2. CASE Next
  BY <1>2, ArriveStep, CheckStep, InsertStep, InsertRejectedStep, LoadStep, UpdateStep,
     RefreshStep DEF Next, Proceed
<1> QED
  BY <1>1, <1>2

\* The inductive invariant holds for any number of users, requests and rows.
THEOREM Invariance == Spec => []IInv
  BY InitIInv, NextIInv, PTL DEF Spec

\* Every variable stays in its type: in particular no row ever names a user id
\* that table "user" does not have, whatever id a client sends.
THEOREM TypeCorrect == Spec => []TypeOK
<1>1. IInv => TypeOK
  BY DEF IInv
<1> QED
  BY <1>1, Invariance, PTL

\* However many requests race, no direction is asked for twice and nobody is
\* related to himself.
THEOREM DirectionsUnique == Spec => []DirectedUnique
<1>1. IInv => DirectedUnique
  BY DEF IInv
<1> QED
  BY <1>1, Invariance, PTL

\* A request between two real users leaves them related, whatever its reply.
THEOREM SendsEndRelated == Spec => []SendEndsRelated
<1>1. IInv => SendEndsRelated
  BY DEF IInv
<1> QED
  BY <1>1, Invariance, PTL

\* An answer that was acknowledged is never undone into a pending request.
THEOREM AnswersStay == Spec => []AnsweredStaysAnswered
<1>1. IInv => AnsweredStaysAnswered
  BY DEF IInv
<1> QED
  BY <1>1, Invariance, PTL

-----------------------------------------------------------------------------
\* The steps that come before the writes of a handler, or end it, write nothing.
LEMMA OnlyTwoStepsWrite ==
    ASSUME [Next]_vars, UNCHANGED friendship => FALSE
    PROVE  \E r \in Requests : InsertFriendship(r) \/ UpdateStatus(r)
  BY ZenonT(60) DEF Next, Arrive, Proceed, vars, SendFriendRequest, SendToSelf, RespondFriendRequest,
         CheckRelation, InsertRejected, LoadFriendship, Refresh

\* What the INSERT of one request does.
LEMMA InsertEffect ==
    ASSUME IInv, NEW r \in Requests, InsertFriendship(r)
    PROVE  \E f \in FriendshipIds \ Rows :
              /\ friendship'[f] = [requester |-> req[r].user, addressee |-> req[r].target,
                                   status |-> "pending"]
              /\ \A g \in FriendshipIds \ {f} : friendship'[g] = friendship[g]
              /\ req'[r].pc = "refresh" /\ req'[r].row = f
              /\ \A p \in Requests \ {r} : req'[p] = req[p]
  BY DEF InsertFriendship, InsertAs, IInv, TypeOK, Request

\* What the UPDATE of one request does.
LEMMA UpdateEffect ==
    ASSUME IInv, NEW r \in Requests, UpdateStatus(r)
    PROVE  /\ req[r].pc = "update" /\ req'[r].pc = "refresh"
           /\ req[r].row \in Rows /\ req[r].want \in Answers
           /\ friendship[req[r].row].addressee = req[r].user
           /\ \A g \in FriendshipIds \ {req[r].row} : friendship'[g] = friendship[g]
           /\ \/ friendship' = friendship
              \/ friendship'[req[r].row] = [friendship[req[r].row] EXCEPT !.status = req[r].want]
<1>1. req[r] \in Request /\ InHand(r) /\ req[r].pc = "update"
  BY DEF UpdateStatus, IInv, TypeOK
<1>2. /\ req[r].row \in Rows /\ req[r].want \in Answers
      /\ friendship[req[r].row].addressee = req[r].user
  BY <1>1 DEF InHand, Request
<1> QED
  BY <1>1, <1>2 DEF UpdateStatus, IInv, TypeOK, Request, Rows

\* Only an answer of the addressee, in flight, changes a row, and it changes the
\* status to what it asked for.
THEOREM AddresseeAnswers == Spec => OnlyAddresseeAnswers
<1> DEFINE A == \A f \in Rows :
          friendship'[f] # friendship[f]
          => \E r \in Requests :
                /\ req[r].pc = "update" /\ req'[r].pc = "refresh"
                /\ req[r].row = f
                /\ req[r].user = friendship[f].addressee
                /\ friendship'[f] = [friendship[f] EXCEPT !.status = req[r].want]
<1>1. IInv /\ [Next]_vars => A
  <2> SUFFICES ASSUME IInv, [Next]_vars, NEW f \in Rows, friendship'[f] # friendship[f]
               PROVE  \E r \in Requests :
                        /\ req[r].pc = "update" /\ req'[r].pc = "refresh"
                        /\ req[r].row = f
                        /\ req[r].user = friendship[f].addressee
                        /\ friendship'[f] = [friendship[f] EXCEPT !.status = req[r].want]
    OBVIOUS
  <2>1. PICK r \in Requests : InsertFriendship(r) \/ UpdateStatus(r)
    BY OnlyTwoStepsWrite
  <2>2. CASE InsertFriendship(r)
    BY <2>2, InsertEffect DEF Rows
  <2>3. CASE UpdateStatus(r)
    BY <2>3, UpdateEffect DEF Rows
  <2> QED
    BY <2>1, <2>2, <2>3
<1>2. IInv /\ [Next]_vars => [A]_vars
  BY <1>1
<1> QED
  BY <1>2, Invariance, PTL DEF Spec, OnlyAddresseeAnswers

\* No request puts a row next to a relation that was there when it came in.
THEOREM NoDoubleOfTheKnown == Spec => NoRowBesideKnown
<1> DEFINE A == \A r \in Requests, f \in FriendshipIds :
          f \notin Rows /\ f \in Rows' /\ req'[r].pc = "refresh" /\ req'[r].row = f
          => \A g \in req[r].before : ~Joins(g, req[r].user, req[r].target)
<1>1. IInv /\ [Next]_vars => A
  <2> SUFFICES ASSUME IInv, [Next]_vars, NEW r \in Requests, NEW f \in FriendshipIds,
                      f \notin Rows, f \in Rows', req'[r].pc = "refresh", req'[r].row = f
               PROVE  \A g \in req[r].before : ~Joins(g, req[r].user, req[r].target)
    OBVIOUS
  <2>1. PICK p \in Requests : InsertFriendship(p) \/ UpdateStatus(p)
    BY OnlyTwoStepsWrite DEF Rows
  <2>2. InsertFriendship(p)
    BY <2>1, UpdateEffect DEF Rows
  <2>3. p = r
    \* Another request in its refresh already holds a row that is there.
    BY <2>2, InsertEffect, ZenonT(60) DEF IInv, InHand, Rows
  <2> QED
    BY <2>2, <2>3 DEF InsertFriendship, InsertAs, IInv, Known
<1>2. IInv /\ [Next]_vars => [A]_vars
  BY <1>1
<1> QED
  BY <1>2, Invariance, PTL DEF Spec, NoRowBesideKnown

-----------------------------------------------------------------------------
(* FriendRequests implements FriendGraph. *)

\* In a table without doubles, the relation of a pair is the status of its row.
LEMMA RelOfRow ==
    ASSUME NEW table, NEW f \in FriendshipIds, NEW p \in Users \X Users,
           Directed(table, f, p),
           \A g \in FriendshipIds : Directed(table, g, p) => g = f
    PROVE  RelOf(table)[p] = table[f].status
  BY DEF RelOf

LEMMA RelOfNothing ==
    ASSUME NEW table, NEW p \in Users \X Users,
           \A g \in FriendshipIds : ~Directed(table, g, p)
    PROVE  RelOf(table)[p] = "none"
  BY DEF RelOf

\* The relation of a pair depends on the rows of that pair alone.
LEMMA RelOfOthers ==
    ASSUME NEW table, NEW other, NEW p \in Users \X Users,
           \A g \in FriendshipIds : table[g] # other[g]
               => ~Directed(table, g, p) /\ ~Directed(other, g, p)
    PROVE  RelOf(table)[p] = RelOf(other)[p]
<1>1. \A g \in FriendshipIds : Directed(table, g, p) <=> Directed(other, g, p)
  BY DEF Directed
<1>2. CASE \E g \in FriendshipIds : Directed(table, g, p)
  <2> DEFINE f == CHOOSE g \in FriendshipIds : Directed(table, g, p)
  <2>1. f = CHOOSE g \in FriendshipIds : Directed(other, g, p)
    BY <1>1
  <2>2. f \in FriendshipIds /\ Directed(table, f, p)
    BY <1>2
  <2>3. table[f] = other[f]
    BY <2>2
  <2> QED
    BY <1>1, <1>2, <2>1, <2>3 DEF RelOf
<1>3. CASE ~\E g \in FriendshipIds : Directed(table, g, p)
  BY <1>1, <1>3 DEF RelOf
<1> QED
  BY <1>2, <1>3

\* A table that changes in one row changes the relation of that row's pair.
LEMMA RelOfChange ==
    ASSUME NEW table, NEW other, NEW f \in FriendshipIds, NEW a \in Users, NEW b \in Users,
           \A g \in FriendshipIds \ {f} :
              other[g] = table[g] /\ ~Directed(table, g, <<a, b>>),
           table[f] # NoRow => Directed(table, f, <<a, b>>),
           Directed(other, f, <<a, b>>)
    PROVE  RelOf(other) = [RelOf(table) EXCEPT ![<<a, b>>] = other[f].status]
<1>1. RelOf(other)[<<a, b>>] = other[f].status
  <2>1. \A g \in FriendshipIds : Directed(other, g, <<a, b>>) => g = f
    BY DEF Directed
  <2> QED
    BY <2>1, RelOfRow
<1>2. ASSUME NEW p \in Users \X Users, p # <<a, b>>
      PROVE  RelOf(other)[p] = RelOf(table)[p]
  <2>1. ~Directed(table, f, p) /\ ~Directed(other, f, p)
    BY <1>2 DEF Directed
  <2>2. \A g \in FriendshipIds : table[g] # other[g]
               => ~Directed(table, g, p) /\ ~Directed(other, g, p)
    BY <2>1
  <2> QED
    BY <2>2, RelOfOthers
<1>3. /\ RelOf(other) = [p \in Users \X Users |-> RelOf(other)[p]]
      /\ RelOf(table) = [p \in Users \X Users |-> RelOf(table)[p]]
  BY DEF RelOf
<1> QED
  BY <1>1, <1>2, <1>3

\* Every behaviour of the handlers is one of FriendGraph: an INSERT asks, an
\* UPDATE answers, and every other step leaves the relation alone.
THEOREM Refinement == Spec => ImplementsFriendGraph
<1>1. Init => Graph!Init
  <2> SUFFICES ASSUME Init PROVE Graph!Init
    OBVIOUS
  <2>1. \A f \in FriendshipIds, p \in Users \X Users : ~Directed(friendship, f, p)
    BY DEF Init, Directed
  <2> QED
    BY <2>1 DEF Graph!Init, RelOf
<1>2. IInv /\ [Next]_vars => [Graph!Next]_(RelOf(friendship))
  <2> SUFFICES ASSUME IInv, [Next]_vars, RelOf(friendship)' # RelOf(friendship)
               PROVE  Graph!Next
    OBVIOUS
  <2>1. RelOf(friendship)' = RelOf(friendship')
    BY DEF RelOf, Directed
  <2>2. PICK r \in Requests : InsertFriendship(r) \/ UpdateStatus(r)
    BY <2>1, OnlyTwoStepsWrite
  <2>3. CASE InsertFriendship(r)
    <3> DEFINE a == req[r].user
               b == req[r].target
    <3>1. a \in Users /\ b \in Users /\ a # b
      BY <2>3 DEF InsertFriendship, InsertAs, InsertFails, IInv, TypeOK, Request, InHand
    <3>2. PICK f \in FriendshipIds :
              /\ f \notin Rows
              /\ friendship'[f] = [requester |-> a, addressee |-> b, status |-> "pending"]
              /\ \A g \in FriendshipIds \ {f} : friendship'[g] = friendship[g]
      BY <2>3, InsertEffect
    <3>3. \A g \in FriendshipIds : ~Directed(friendship, g, <<a, b>>)
      BY <2>3 DEF InsertFriendship, InsertAs, InsertFails, Directed, Rows
    <3>4. friendship[f] = NoRow
      BY <3>2 DEF Rows
    <3>5. friendship'[f] # NoRow /\ friendship'[f].status = "pending"
      BY <3>1, <3>2, NoRowAssumption
    <3>6. Directed(friendship', f, <<a, b>>)
      BY <3>2, <3>5 DEF Directed
    <3> HIDE DEF a, b
    <3>7. RelOf(friendship') = [RelOf(friendship) EXCEPT ![<<a, b>>] = friendship'[f].status]
      <4>1. \A g \in FriendshipIds \ {f} :
              friendship'[g] = friendship[g] /\ ~Directed(friendship, g, <<a, b>>)
        BY <3>2, <3>3
      <4>2. friendship[f] # NoRow => Directed(friendship, f, <<a, b>>)
        BY <3>4
      <4>3. f \in FriendshipIds /\ a \in Users /\ b \in Users
        BY <3>1
      <4> QED
        BY <3>6, <4>1, <4>2, <4>3, RelOfChange
    <3>8. RelOf(friendship)[<<a, b>>] = "none"
      BY <3>1, <3>3, RelOfNothing
    <3>9. Graph!Ask(a, b)
      BY <2>1, <3>1, <3>5, <3>7, <3>8 DEF Graph!Ask
    <3> QED
      BY <3>1, <3>9 DEF Graph!Next
  <2>4. CASE UpdateStatus(r)
    <3> DEFINE f == req[r].row
               a == friendship[f].requester
               b == friendship[f].addressee
    <3>1. f \in Rows /\ f \in FriendshipIds /\ a \in Users /\ b \in Users
      BY <2>4, UpdateEffect, ZenonT(60) DEF IInv, TypeOK, Friendship, Rows
    <3>2. friendship' # friendship
      BY <2>1
    <3>3. /\ friendship'[f] = [friendship[f] EXCEPT !.status = req[r].want]
          /\ \A g \in FriendshipIds \ {f} : friendship'[g] = friendship[g]
          /\ req[r].want \in Answers
      BY <2>4, <3>2, UpdateEffect
    <3>4. \A g \in FriendshipIds \ {f} : ~Directed(friendship, g, <<a, b>>)
      BY <3>1 DEF Directed, IInv, DirectedUnique, Rows
    <3>5. friendship[f] \in Friendship /\ friendship[f] # NoRow
      BY <3>1 DEF IInv, TypeOK, Rows
    <3>6. /\ friendship'[f].requester = a /\ friendship'[f].addressee = b
          /\ friendship'[f].status = req[r].want /\ friendship'[f] # NoRow
      BY <3>3, <3>5, NoRowAssumption DEF Friendship, Statuses, Answers
    <3>7. Directed(friendship', f, <<a, b>>) /\ Directed(friendship, f, <<a, b>>)
      BY <3>5, <3>6 DEF Directed
    <3>8. friendship[f].status \in Statuses
      BY <3>5 DEF Friendship
    <3> HIDE DEF f, a, b
    <3>9. RelOf(friendship') = [RelOf(friendship) EXCEPT ![<<a, b>>] = req[r].want]
      <4>1. \A g \in FriendshipIds \ {f} :
              friendship'[g] = friendship[g] /\ ~Directed(friendship, g, <<a, b>>)
        BY <3>3, <3>4
      <4>2. RelOf(friendship') = [RelOf(friendship) EXCEPT ![<<a, b>>] = friendship'[f].status]
        BY <3>1, <3>7, <4>1, RelOfChange
      <4> QED
        BY <3>6, <4>2
    <3>10. RelOf(friendship)[<<a, b>>] = friendship[f].status
      BY <3>1, <3>4, <3>7, RelOfRow
    <3>11. Graph!Answer(a, b, req[r].want)
      BY <2>1, <3>8, <3>9, <3>10 DEF Graph!Answer, Statuses, Answers
    <3> QED
      BY <3>1, <3>3, <3>11 DEF Graph!Next, Answers, Graph!Answers
  <2> QED
    BY <2>2, <2>3, <2>4
<1> QED
  BY <1>1, <1>2, Invariance, PTL DEF Spec, ImplementsFriendGraph, Graph!Spec
=============================================================================
