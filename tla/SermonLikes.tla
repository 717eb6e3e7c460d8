---------------------------- MODULE SermonLikes ----------------------------
(***************************************************************************)
(* Sermons, their likes and their comments                                 *)
(* (src/app/services/faith_service.py over CRUDSermon, CRUDSermonLike and  *)
(* CRUDSermonComment).  Each await of a handler is an action.              *)
(*                                                                         *)
(* A session keeps the collections it loaded with a sermon: the second     *)
(* SELECT of it does not bring them up to date.  Rows are deleted by their *)
(* key, and the DELETE of a row that is gone is no error.                  *)
(***************************************************************************)
EXTENDS Naturals, FiniteSets

CONSTANTS
    Users,       \* the users
    Requests,    \* slots for HTTP requests in flight
    SermonIds,   \* primary keys of faith_sermons; bounds the sermons published
    LikeIds,     \* primary keys of faith_sermon_likes; bounds the likes given
    CommentIds,  \* primary keys of faith_sermon_comments; bounds the comments
    NoRow,       \* a key never used
    Gone,        \* a key whose row was deleted: keys are uuids, never used again
    NoId         \* no id

ASSUME IdAssumption == NoId \notin SermonIds \union LikeIds \union CommentIds
ASSUME RowAssumption ==
    /\ NoRow # Gone
    /\ {NoRow, Gone} \intersect Users = {}
    /\ {NoRow, Gone} \intersect [user : Users, sermon : SermonIds] = {}

VARIABLES
    sermon,   \* table faith_sermons: sermon[s] is its author
    like,     \* table faith_sermon_likes
    comment,  \* table faith_sermon_comments
    req,      \* req[r]: the request in slot r and what its session holds
    lone      \* lone[r]: what the like was as the toggle in slot r began, "no"
              \* once another request has changed it (history)

vars == <<sermon, like, comment, req, lone>>
tables == <<sermon, like, comment>>

\* Roles only matter by what they allow, and are those of the authentication: a
\* request keeps whether its user was an administrator then.
Roles == {"admin", "predicateur", "fidele"}
Reaction == [user : Users, sermon : SermonIds]
Codes == {0, 200, 201, 403, 404, 500}

\* likes, comments: the collections loaded with the sermon; is_liked: the
\* reply to a toggle; code: the status of the reply.
Request == [op : {"none", "create", "update", "delete", "toggle", "comment", "uncomment"},
            pc : {"idle", "insert", "load", "save", "confirm", "delete", "find", "like",
                  "unlike", "refresh", "reread", "drop"},
            user : Users, admin : BOOLEAN, sid : SermonIds \union {NoId},
            lid : LikeIds \union {NoId}, cid : CommentIds \union {NoId},
            likes : SUBSET LikeIds, comments : SUBSET CommentIds,
            is_liked : BOOLEAN, code : Codes]

Sermons == {s \in SermonIds : sermon[s] \notin {NoRow, Gone}}
Likes == {l \in LikeIds : like[l] \notin {NoRow, Gone}}
Comments == {c \in CommentIds : comment[c] \notin {NoRow, Gone}}

LikesOf(s) == {l \in Likes : like[l].sermon = s}
CommentsOf(s) == {c \in Comments : comment[c].sermon = s}
LikesBy(u, s) == {l \in LikesOf(s) : like[l].user = u}

IsPublisher(role) == role \in {"admin", "predicateur"}
OwnerOrAdmin(r, author) == req[r].user = author \/ req[r].admin

-----------------------------------------------------------------------------
Init ==
    /\ sermon = [s \in SermonIds |-> NoRow]
    /\ like = [l \in LikeIds |-> NoRow]
    /\ comment = [c \in CommentIds |-> NoRow]
    /\ req \in [Requests -> [op : {"none"}, pc : {"idle"}, user : Users, admin : {FALSE},
                             sid : {NoId}, lid : {NoId}, cid : {NoId}, likes : {{}},
                             comments : {{}}, is_liked : {FALSE}, code : {0}]]
    /\ lone = [r \in Requests |-> "no"]

Begin(r, op, pc, u, admin, s, c) ==
    /\ req[r].pc = "idle"
    /\ req' = [req EXCEPT ![r] =
                 [op |-> op, pc |-> pc, user |-> u, admin |-> admin, sid |-> s, lid |-> NoId,
                  cid |-> c, likes |-> {}, comments |-> {}, is_liked |-> FALSE,
                  code |-> 0]]
    /\ lone' = [lone EXCEPT ![r] = IF op # "toggle" THEN "no"
                                   ELSE IF LikesBy(u, s) = {} THEN "unliked" ELSE "liked"]
    /\ UNCHANGED tables

Goto(r, pc) == req' = [req EXCEPT ![r].pc = pc]

\* The reply.  (A toggle's like_count, the size of the collection it holds, is left out.)
Reply(r, code) ==
    req' = [req EXCEPT ![r].pc = "idle", ![r].code = code, ![r].admin = FALSE, ![r].likes = {},
                       ![r].comments = {}, ![r].is_liked = @ /\ code = 200]
ReplyIf(r, there, code) == Reply(r, IF there THEN code ELSE 500)

\* The other toggles of the same likes are not alone any more.
Touch(r, pairs) ==
    lone' = [o \in Requests |-> IF o # r /\ <<req[o].user, req[o].sid>> \in pairs
                                THEN "no" ELSE lone[o]]

-----------------------------------------------------------------------------
(* POST, PUT and DELETE of a sermon *)

\* The bound: a row is only asked for while there is a key left for it.
KeyLeft(table, ids, op, pcs) ==
    Cardinality({k \in ids : table[k] = NoRow})
        > Cardinality({r \in Requests : req[r].op = op /\ req[r].pc \in pcs})

\* Publishers only; the others are refused before the first await.
CreateSermon(r, u, role) ==
    /\ IsPublisher(role)
    /\ KeyLeft(sermon, SermonIds, "create", {"insert"})
    /\ Begin(r, "create", "insert", u, FALSE, NoId, NoId)

InsertSermon(r) ==
    /\ req[r].pc = "insert" /\ req[r].op = "create"
    /\ \E s \in SermonIds :
          /\ sermon[s] = NoRow
          /\ sermon' = [sermon EXCEPT ![s] = req[r].user]
          /\ req' = [req EXCEPT ![r].pc = "confirm", ![r].sid = s]
    /\ UNCHANGED <<like, comment, lone>>

\* The refresh after the commit of a new or an edited sermon, and the SELECT after
\* that: both fail on a sermon that is gone.
ConfirmSermon(r) ==
    /\ req[r].pc = "confirm"
    /\ ReplyIf(r, req[r].sid \in Sermons, IF req[r].op = "create" THEN 201 ELSE 200)
    /\ UNCHANGED <<tables, lone>>

UpdateSermon(r, u, role, s) == Begin(r, "update", "load", u, role = "admin", s, NoId)
DeleteSermon(r, u, role, s) == Begin(r, "delete", "load", u, role = "admin", s, NoId)

\* The SELECT of a sermon comes with its likes and comments (lazy="selectin").
LoadSermon(r) ==
    /\ req[r].pc = "load" /\ req[r].op # "uncomment"
    /\ LET s == req[r].sid IN
       CASE s \notin Sermons -> Reply(r, 404)
         [] /\ s \in Sermons
            /\ req[r].op \in {"update", "delete"} /\ ~OwnerOrAdmin(r, sermon[s]) -> Reply(r, 403)
         [] OTHER ->
               req' = [req EXCEPT ![r].pc = CASE req[r].op = "update" -> "save"
                                              [] req[r].op = "delete" -> "delete"
                                              [] req[r].op = "toggle" -> "find"
                                              [] OTHER -> "insert",
                                  ![r].likes = LikesOf(s), ![r].comments = CommentsOf(s)]
    /\ UNCHANGED <<tables, lone>>

\* The text is not modelled: what remains is that the UPDATE of a row that is gone
\* fails.
SaveSermon(r) ==
    /\ req[r].pc = "save"
    /\ IF req[r].sid \in Sermons THEN Goto(r, "confirm") ELSE Reply(r, 500)
    /\ UNCHANGED <<tables, lone>>

\* What the flush of the deletion does: the reactions loaded, then the sermon.
DropSermon(r) ==
    /\ sermon' = [sermon EXCEPT ![req[r].sid] = Gone]
    /\ like' = [l \in LikeIds |-> IF l \in req[r].likes THEN Gone ELSE like[l]]
    /\ comment' = [c \in CommentIds |-> IF c \in req[r].comments THEN Gone ELSE comment[c]]
    /\ Reply(r, 200)
    /\ Touch(r, {<<like[l].user, req[r].sid>> : l \in req[r].likes \intersect Likes})

\* Mutant: the foreign keys to the sermon are missing.
RemoveUnchecked(r) == req[r].pc = "delete" /\ DropSermon(r)

\* Reactions that others deleted are passed over; one that came in after the load
\* keeps its foreign key, and makes the whole deletion fail.
RemoveSermon(r) ==
    /\ req[r].pc = "delete"
    /\ IF /\ LikesOf(req[r].sid) \subseteq req[r].likes
          /\ CommentsOf(req[r].sid) \subseteq req[r].comments
       THEN DropSermon(r)
       ELSE Reply(r, 500) /\ UNCHANGED <<tables, lone>>

-----------------------------------------------------------------------------
(* POST /sermons/{sermon_id}/like *)

\* Any user may like; his role is not looked at.
ToggleLike(r, u, s) ==
    /\ KeyLeft(like, LikeIds, "toggle", {"load", "find", "like"})
    /\ Begin(r, "toggle", "load", u, FALSE, s, NoId)

\* The SELECT of the user's like, whatever the loaded collection says.
FindLike(r) ==
    /\ req[r].pc = "find"
    /\ LET mine == LikesBy(req[r].user, req[r].sid) IN
       \/ mine = {} /\ Goto(r, "like")
       \/ \E l \in mine : req' = [req EXCEPT ![r].pc = "unlike", ![r].lid = l]
    /\ UNCHANGED <<tables, lone>>

\* Mutant: the unique constraint uq_faith_sermon_like is missing.
LikeTwice(r) == req[r].sid \notin Sermons

\* Which of the two constraints of the table the INSERT violates, if any.
LikeFails(r) ==
    \/ req[r].sid \notin Sermons
    \/ LikesBy(req[r].user, req[r].sid) # {}

InsertLike(r) ==
    /\ req[r].pc = "like"
    /\ ~LikeFails(r)
    /\ \E l \in LikeIds :
          /\ like[l] = NoRow
          /\ like' = [like EXCEPT ![l] = [user |-> req[r].user, sermon |-> req[r].sid]]
          /\ req' = [req EXCEPT ![r].pc = "refresh", ![r].lid = l, ![r].is_liked = TRUE]
    /\ Touch(r, {<<req[r].user, req[r].sid>>})
    /\ UNCHANGED <<sermon, comment>>

\* A constraint fails, and the request with it: nothing catches IntegrityError.
LikeRejected(r) ==
    /\ req[r].pc = "like"
    /\ LikeFails(r)
    /\ Reply(r, 500)
    /\ UNCHANGED <<tables, lone>>

RefreshLike(r) ==
    /\ req[r].pc = "refresh" /\ req[r].op = "toggle"
    /\ IF req[r].lid \in Likes THEN Goto(r, "reread") ELSE Reply(r, 500)
    /\ UNCHANGED <<tables, lone>>

RemoveAs(r, is_liked) ==
    /\ req[r].pc = "unlike"
    /\ like' = [like EXCEPT ![req[r].lid] = Gone]
    /\ req' = [req EXCEPT ![r].pc = "reread", ![r].is_liked = is_liked]
    /\ Touch(r, {<<req[r].user, req[r].sid>> : l \in {req[r].lid} \intersect Likes})
    /\ UNCHANGED <<sermon, comment>>

\* Mutant: is_liked is looked up in the collection the session holds.
RemoveAsLoaded(r) == RemoveAs(r, req[r].lid \in req[r].likes)

RemoveLike(r) == RemoveAs(r, FALSE)

\* The second SELECT finds the sermon with the collection it was loaded with, or
\* not at all, which the handler does not expect.
RereadSermon(r) ==
    /\ req[r].pc = "reread"
    /\ ReplyIf(r, req[r].sid \in Sermons, 200)
    /\ UNCHANGED <<tables, lone>>

-----------------------------------------------------------------------------
(* POST and DELETE of a comment *)

AddComment(r, u, s) ==
    /\ KeyLeft(comment, CommentIds, "comment", {"load", "insert"})
    /\ Begin(r, "comment", "load", u, FALSE, s, NoId)

InsertComment(r) ==
    /\ req[r].pc = "insert" /\ req[r].op = "comment"
    /\ req[r].sid \in Sermons
    /\ \E c \in CommentIds :
          /\ comment[c] = NoRow
          /\ comment' = [comment EXCEPT ![c] = [user |-> req[r].user, sermon |-> req[r].sid]]
          /\ req' = [req EXCEPT ![r].pc = "refresh", ![r].cid = c]
    /\ UNCHANGED <<sermon, like, lone>>

CommentRejected(r) ==
    /\ req[r].pc = "insert" /\ req[r].op = "comment"
    /\ req[r].sid \notin Sermons
    /\ Reply(r, 500)
    /\ UNCHANGED <<tables, lone>>

RefreshComment(r) ==
    /\ req[r].pc = "refresh" /\ req[r].op = "comment"
    /\ ReplyIf(r, req[r].cid \in Comments, 201)
    /\ UNCHANGED <<tables, lone>>

DeleteComment(r, u, role, c) == Begin(r, "uncomment", "load", u, role = "admin", NoId, c)

\* Mutant: any user may delete any comment.
LoadCommentUnchecked(r) ==
    /\ req[r].pc = "load" /\ req[r].op = "uncomment"
    /\ IF req[r].cid \in Comments THEN Goto(r, "drop") ELSE Reply(r, 404)
    /\ UNCHANGED <<tables, lone>>

\* The comment is looked up by its own id: the sermon id of the path is not read.
LoadComment(r) ==
    /\ req[r].pc = "load" /\ req[r].op = "uncomment"
    /\ LET c == req[r].cid IN
       CASE c \notin Comments -> Reply(r, 404)
         [] c \in Comments /\ ~OwnerOrAdmin(r, comment[c].user) -> Reply(r, 403)
         [] OTHER -> Goto(r, "drop")
    /\ UNCHANGED <<tables, lone>>

RemoveComment(r) ==
    /\ req[r].pc = "drop"
    /\ comment' = [comment EXCEPT ![req[r].cid] = Gone]
    /\ Reply(r, 200)
    /\ UNCHANGED <<sermon, like, lone>>

-----------------------------------------------------------------------------
Arrive(r) ==
    \E u \in Users :
       \/ \E s \in Sermons \union {NoId} : ToggleLike(r, u, s) \/ AddComment(r, u, s)
       \/ \E role \in Roles :
             \/ CreateSermon(r, u, role)
             \/ \E s \in Sermons \union {NoId} :
                   UpdateSermon(r, u, role, s) \/ DeleteSermon(r, u, role, s)
             \/ \E c \in Comments \union {NoId} : DeleteComment(r, u, role, c)

Proceed(r) ==
    \/ InsertSermon(r) \/ ConfirmSermon(r) \/ LoadSermon(r) \/ SaveSermon(r) \/ RemoveSermon(r)
    \/ FindLike(r) \/ InsertLike(r) \/ LikeRejected(r) \/ RefreshLike(r)
    \/ RemoveLike(r) \/ RereadSermon(r)
    \/ InsertComment(r) \/ CommentRejected(r) \/ RefreshComment(r)
    \/ LoadComment(r) \/ RemoveComment(r)

Next == \E r \in Requests : Arrive(r) \/ Proceed(r)

Spec == Init /\ [][Next]_vars

-----------------------------------------------------------------------------
TypeOK ==
    /\ sermon \in [SermonIds -> Users \union {NoRow, Gone}]
    /\ like \in [LikeIds -> Reaction \union {NoRow, Gone}]
    /\ comment \in [CommentIds -> Reaction \union {NoRow, Gone}]
    /\ req \in [Requests -> Request]
    /\ lone \in [Requests -> {"no", "liked", "unliked"}]

\* "Un utilisateur ne peut liker une prédication qu'une seule fois", however many
\* toggles of his run at once.
OneLikePerUser ==
    \A l1, l2 \in Likes : like[l1] = like[l2] => l1 = l2

\* No reaction outlives its sermon, whatever deletions and reactions race.
NoOrphan ==
    /\ \A l \in Likes : like[l].sermon \in Sermons
    /\ \A c \in Comments : comment[c].sermon \in Sermons

\* What the columns and the foreign keys of likes and comments promise of the tables.
TablesOK == TypeOK /\ NoOrphan

\* A request that ends in a 500 leaves nothing of its own behind, though it fails
\* after its commit when the row or the sermon is gone by the time it is read again.
FailedLeavesNothing ==
    \A r \in Requests :
       req[r].code = 500
       => /\ req[r].lid \notin Likes
          /\ req[r].cid \notin Comments
          /\ req[r].op = "create" => req[r].sid \notin Sermons

\* A toggle no other request interferes with succeeds, inverts the like and says
\* truly what it now is, though it looks it up, changes it and reports it in
\* separate steps and from a session that holds stale likes.
LoneToggle ==
    [][\A r \in Requests :
          /\ req[r].op = "toggle" /\ req[r].pc # "idle" /\ req'[r].pc = "idle"
          /\ lone[r] # "no" /\ req[r].sid \in Sermons
          => /\ req'[r].code = 200
             /\ req'[r].is_liked <=> lone[r] = "unliked"
             /\ req'[r].is_liked <=> LikesBy(req[r].user, req[r].sid) # {}]_vars

\* A like only goes in a toggle of the user who gave it, a comment in its deletion
\* by its author or an administrator, or both with their sermon, deleted by its
\* author or an administrator, whose session had seen them.
ReactionsRemovedRightly ==
    [][/\ \A l \in Likes : like'[l] = Gone =>
             \E r \in Requests :
                \/ req[r].pc = "unlike" /\ req[r].user = like[l].user
                \/ /\ req[r].pc = "delete" /\ l \in req[r].likes
                   /\ OwnerOrAdmin(r, sermon[like[l].sermon])
       /\ \A c \in Comments : comment'[c] = Gone =>
             \E r \in Requests :
                \/ req[r].pc = "drop" /\ OwnerOrAdmin(r, comment[c].user)
                \/ /\ req[r].pc = "delete" /\ c \in req[r].comments
                   /\ OwnerOrAdmin(r, sermon[comment[c].sermon])]_vars
=============================================================================
