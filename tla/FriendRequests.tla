--------------------------- MODULE FriendRequests ---------------------------
(***************************************************************************)
(* The friendship requests of the social module                            *)
(* (src/app/services/faith_service.py, src/app/crud/crud_faith.py): the    *)
(* handlers run as coroutines, each with a database session of its own, and *)
(* give way to one another at every await, so each await of a handler is an *)
(* action here.  A SELECT sees the rows committed so far (READ COMMITTED),  *)
(* a commit writes all of its rows or, when a constraint fails, none.       *)
(***************************************************************************)
CONSTANTS
    Users,          \* the users that have a row in table "user"
    Ghosts,         \* user ids a client may send that have none
    Requests,       \* slots for HTTP requests in flight
    FriendshipIds,  \* primary keys of table faith_friendships
    NoRow,          \* a key that no row has
    NoId            \* no friendship id

ASSUME NoRowAssumption == NoRow \notin [requester : Users, addressee : Users,
                                        status : {"pending", "accepted", "rejected"}]
ASSUME NoIdAssumption == NoId \notin FriendshipIds
ASSUME GhostAssumption == Users \intersect Ghosts = {}

VARIABLES
    friendship,  \* the table: friendship[f] is a row or NoRow
    req          \* req[r]: the request in slot r and what its session holds

vars == <<friendship, req>>

Answers == {"accepted", "rejected"}
Statuses == {"pending"} \union Answers
Codes == {0, 200, 201, 400, 403, 404, 409, 500}
Friendship == [requester : Users, addressee : Users, status : Statuses]

\* want: the status asked for; loaded: the status the session read last;
\* before: the rows that were there when the request came in (history, for
\* the properties only); code: the HTTP status of the reply, 0 before it.
Request == [op : {"none", "send", "respond"},
            pc : {"idle", "check", "insert", "load", "update", "refresh"},
            user : Users, target : Users \union Ghosts,
            row : FriendshipIds \union {NoId},
            want : Answers, loaded : Statuses, before : SUBSET FriendshipIds,
            code : Codes]

Rows == {f \in FriendshipIds : friendship[f] # NoRow}

Joins(f, a, b) ==
    \/ friendship[f].requester = a /\ friendship[f].addressee = b
    \/ friendship[f].requester = b /\ friendship[f].addressee = a

\* Mutant: only the direction of the new request is looked for.
GetBetweenOneWay(a, b) ==
    {f \in Rows : friendship[f].requester = a /\ friendship[f].addressee = b}

\* Is there a relation between two users, whichever of them asked?
GetBetween(a, b) == {f \in Rows : Joins(f, a, b)}

\* Mutant: the unique constraint uq_faith_friendship is missing.
NoUniqueConstraint(a, b) == b \notin Users

\* INSERT fails on an unknown addressee (foreign key) and on a second request
\* from the same requester to the same addressee (uq_faith_friendship).
InsertFails(a, b) ==
    \/ b \notin Users
    \/ \E f \in Rows : friendship[f].requester = a /\ friendship[f].addressee = b

-----------------------------------------------------------------------------
Init ==
    /\ friendship = [f \in FriendshipIds |-> NoRow]
    /\ req \in [Requests -> [op : {"none"}, pc : {"idle"}, user : Users,
                             target : Users, row : {NoId}, want : {"accepted"},
                             loaded : {"pending"}, before : {{}}, code : {0}]]

Reply(r, code) == req' = [req EXCEPT ![r].pc = "idle", ![r].code = code, ![r].before = {}]

Begin(r, op, pc, u, v, f, want) ==
    req' = [req EXCEPT ![r] = [op |-> op, pc |-> pc, user |-> u, target |-> v,
                               row |-> f, want |-> want, loaded |-> "pending",
                               before |-> Rows, code |-> 0]]

-----------------------------------------------------------------------------
(* POST /social/requests *)

SendFriendRequest(r, u, v) ==
    /\ req[r].pc = "idle"
    /\ v # u
    /\ Begin(r, "send", "check", u, v, NoId, "accepted")
    /\ UNCHANGED friendship

\* A request to oneself is refused before the first await.
SendToSelf(r, u) ==
    /\ req[r].pc = "idle"
    /\ req' = [req EXCEPT ![r] = [op |-> "send", pc |-> "idle", user |-> u,
                                  target |-> u, row |-> NoId, want |-> "accepted",
                                  loaded |-> "pending", before |-> {}, code |-> 400]]
    /\ UNCHANGED friendship

\* Mutant: the outcome of the check is swapped.
CheckInverted(r) ==
    /\ req[r].pc = "check"
    /\ IF GetBetween(req[r].user, req[r].target) = {}
       THEN Reply(r, 409)
       ELSE req' = [req EXCEPT ![r].pc = "insert"]
    /\ UNCHANGED friendship

CheckRelation(r) ==
    /\ req[r].pc = "check"
    /\ IF GetBetween(req[r].user, req[r].target) # {}
       THEN Reply(r, 409)
       ELSE req' = [req EXCEPT ![r].pc = "insert"]
    /\ UNCHANGED friendship

InsertAs(r, status) ==
    /\ req[r].pc = "insert"
    /\ ~InsertFails(req[r].user, req[r].target)
    /\ \E f \in FriendshipIds \ Rows :
          /\ friendship' = [friendship EXCEPT ![f] =
                              [requester |-> req[r].user, addressee |-> req[r].target,
                               status |-> status]]
          /\ req' = [req EXCEPT ![r].pc = "refresh", ![r].row = f]

\* Mutant: the request is born accepted.
InsertAccepted(r) == InsertAs(r, "accepted")

InsertFriendship(r) == InsertAs(r, "pending")

\* Mutant: the failed INSERT is retried instead of reported.
InsertRetried(r) ==
    /\ req[r].pc = "insert"
    /\ InsertFails(req[r].user, req[r].target)
    /\ UNCHANGED vars

InsertRejected(r) ==
    /\ req[r].pc = "insert"
    /\ InsertFails(req[r].user, req[r].target)
    /\ Reply(r, 500)
    /\ UNCHANGED friendship

-----------------------------------------------------------------------------
(* POST /social/requests/{friendship_id}/respond *)

RespondFriendRequest(r, u, f, want) ==
    /\ req[r].pc = "idle"
    /\ Begin(r, "respond", "load", u, u, f, want)
    /\ UNCHANGED friendship

\* Mutant: anyone may answer.
LoadUnchecked(r) ==
    /\ req[r].pc = "load"
    /\ IF req[r].row \in Rows
       THEN req' = [req EXCEPT ![r].pc = "update", ![r].loaded = friendship[req[r].row].status]
       ELSE Reply(r, 404)
    /\ UNCHANGED friendship

LoadFriendship(r) ==
    /\ req[r].pc = "load"
    /\ LET f == req[r].row IN
       CASE f \notin Rows -> Reply(r, 404)
         [] f \in Rows /\ friendship[f].addressee # req[r].user -> Reply(r, 403)
         [] OTHER -> req' = [req EXCEPT ![r].pc = "update",
                                        ![r].loaded = friendship[f].status]
    /\ UNCHANGED friendship

\* The session writes the column only when the value differs from the one it
\* loaded; friendships are never deleted, so the UPDATE finds its row.
UpdateStatus(r) ==
    /\ req[r].pc = "update"
    /\ friendship' = IF req[r].want = req[r].loaded THEN friendship
                     ELSE [friendship EXCEPT ![req[r].row].status = req[r].want]
    /\ req' = [req EXCEPT ![r].pc = "refresh"]

\* The refresh after the commit of either handler reads the row again, with
\* whatever others have committed since; the SELECT that follows it in
\* send_friend_request leaves an object that is already loaded as it is.
Refresh(r) ==
    /\ req[r].pc = "refresh"
    /\ req' = [req EXCEPT ![r].pc = "idle", ![r].before = {},
                          ![r].loaded = friendship[req[r].row].status,
                          ![r].code = IF req[r].op = "send" THEN 201 ELSE 200]
    /\ UNCHANGED friendship

-----------------------------------------------------------------------------
Arrive(r) ==
    \E u \in Users :
       \/ \E v \in (Users \union Ghosts) : SendFriendRequest(r, u, v)
       \/ SendToSelf(r, u)
       \/ \E f \in Rows \union {NoId}, want \in Answers : RespondFriendRequest(r, u, f, want)

Proceed(r) ==
    \/ CheckRelation(r) \/ InsertFriendship(r) \/ InsertRejected(r)
    \/ LoadFriendship(r) \/ UpdateStatus(r) \/ Refresh(r)

Next == \E r \in Requests : Arrive(r) \/ Proceed(r)

Spec == Init /\ [][Next]_vars

\* The event loop runs every coroutine whose await has returned, and the
\* database answers every statement.
FairSpec == Spec /\ \A r \in Requests : WF_vars(Proceed(r))

-----------------------------------------------------------------------------
TypeOK ==
    /\ friendship \in [FriendshipIds -> Friendship \union {NoRow}]
    /\ req \in [Requests -> Request]

\* No two rows for one requester and one addressee, and none from a user to
\* itself: what the unique constraint and the refusal of self requests leave.
DirectedUnique ==
    /\ \A f, g \in Rows : /\ friendship[f].requester = friendship[g].requester
                          /\ friendship[f].addressee = friendship[g].addressee
                          => f = g
    /\ \A f \in Rows : friendship[f].requester # friendship[f].addressee

\* Whatever the reply to a request between two real users is (created, refused
\* or failed on the constraint), the two are related once it has been given:
\* a client that gives up on 409 or 500 gives up on nothing.
SendEndsRelated ==
    \A r \in Requests :
       /\ req[r].op = "send" /\ req[r].code # 0
       /\ req[r].target \in Users /\ req[r].target # req[r].user
       => GetBetween(req[r].user, req[r].target) # {}

\* A reply to accept or reject never shows the request as still pending, and
\* the row it shows stays answered, however many answers race.
AnsweredStaysAnswered ==
    \A r \in Requests :
       req[r].op = "respond" /\ req[r].code = 200
       => req[r].loaded \in Answers /\ friendship[req[r].row].status \in Answers

\* No row is ever put next to a relation of the same two users that was already
\* there when the request that inserts it came in: get_between looks both ways,
\* so only requests that overlap can double a relation.
NoRowBesideKnown ==
    [][\A r \in Requests, f \in FriendshipIds :
          f \notin Rows /\ f \in Rows' /\ req'[r].pc = "refresh" /\ req'[r].row = f
          => \A g \in req[r].before : ~Joins(g, req[r].user, req[r].target)]_vars

\* A status changes only while its addressee's own answer is being written, and
\* to what that answer asked for; the requester can never answer for it.
OnlyAddresseeAnswers ==
    [][\A f \in Rows :
          friendship'[f] # friendship[f]
          => \E r \in Requests :
                /\ req[r].pc = "update" /\ req'[r].pc = "refresh"
                /\ req[r].row = f
                /\ req[r].user = friendship[f].addressee
                /\ friendship'[f] = [friendship[f] EXCEPT !.status = req[r].want]]_vars

\* What a handler may rely on after each of its awaits: the row it inserted or
\* loaded is still there and still between the same users, an answered row is
\* still answered, and no reply has been given yet.
InHand(r) ==
    /\ req[r].pc # "idle" => req[r].code = 0
    /\ req[r].pc \in {"check", "insert"} => req[r].op = "send" /\ req[r].target # req[r].user
    /\ req[r].pc \in {"load", "update"} => req[r].op = "respond"
    /\ req[r].pc \in {"update", "refresh"} => req[r].row \in Rows
    /\ req[r].pc = "update" => /\ friendship[req[r].row].addressee = req[r].user
                               /\ req[r].loaded \in Answers =>
                                    friendship[req[r].row].status \in Answers
    /\ req[r].pc = "refresh" => req[r].op \in {"send", "respond"}
    /\ req[r].pc = "refresh" /\ req[r].op = "send" =>
          /\ friendship[req[r].row].requester = req[r].user
          /\ friendship[req[r].row].addressee = req[r].target
    /\ req[r].pc = "refresh" /\ req[r].op = "respond" =>
          friendship[req[r].row].status \in Answers
    /\ req[r].op = "respond" /\ req[r].code = 200 => req[r].row \in Rows

\* What a request that is about to insert knows: none of the rows that were
\* there when it came in joins its two users.
Known(r) ==
    /\ req[r].before \subseteq Rows
    /\ req[r].pc = "insert" =>
          \A g \in req[r].before : ~Joins(g, req[r].user, req[r].target)

\* The inductive invariant behind the safety properties.
IInv ==
    /\ TypeOK
    /\ DirectedUnique
    /\ SendEndsRelated
    /\ AnsweredStaysAnswered
    /\ \A r \in Requests : InHand(r) /\ Known(r)

\* Every request that came in gets a reply: no handler waits for another.
EveryRequestAnswered ==
    \A r \in Requests : req[r].pc # "idle" ~> req[r].pc = "idle"

\* "Renvoie la relation d'amitie entre deux utilisateurs (peu importe le sens)":
\* get_between takes it that two users have one relation at most.
OneRelationPerPair ==
    \A f, g \in Rows : Joins(f, friendship[g].requester, friendship[g].addressee) => f = g

-----------------------------------------------------------------------------
\* The relation a table of friendships stands for, and the promise it keeps.
Directed(table, f, p) ==
    table[f] # NoRow /\ table[f].requester = p[1] /\ table[f].addressee = p[2]

RelOf(table) ==
    [p \in Users \X Users |->
        IF \E f \in FriendshipIds : Directed(table, f, p)
        THEN table[CHOOSE f \in FriendshipIds : Directed(table, f, p)].status
        ELSE "none"]

Graph == INSTANCE FriendGraph WITH rel <- RelOf(friendship)

\* The handlers, raced in every order, implement FriendGraph: per direction a
\* request is made once, answered any number of times, and never forgotten.
ImplementsFriendGraph == Graph!Spec
=============================================================================
