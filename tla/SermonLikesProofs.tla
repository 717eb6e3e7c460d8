------------------------- MODULE SermonLikesProofs -------------------------
(***************************************************************************)
(* Proofs about SermonLikes, for any number of users, requests in flight,   *)
(* sermons, likes and comments.                                            *)
(***************************************************************************)
EXTENDS SermonLikes, TLAPS

\* The likes of the sermon that the user of a request gave it: at most one.
Mine(r) == LikesBy(req[r].user, req[r].sid)

\* What the request in slot r may rely on after each await, whatever the others do.
InHand(r) ==
    LET s == req[r].sid
        l == req[r].lid
        c == req[r].cid
        op == req[r].op
        pc == req[r].pc
    IN
    /\ pc # "idle" => req[r].code = 0
    /\ pc \in {"find", "like", "unlike", "reread"} => op = "toggle"
    /\ pc = "refresh" => op \in {"toggle", "comment"}
    /\ pc \in {"save", "confirm", "drop"} => op # "toggle"
    /\ pc = "delete" => op = "delete"
    \* Its keys were keys of rows when it got them; they may be gone by now.
    /\ s # NoId => sermon[s] # NoRow
    /\ l # NoId => like[l] # NoRow /\ op = "toggle" /\ pc \in {"idle", "unlike", "refresh", "reread"}
    /\ c # NoId => /\ comment[c] # NoRow
                   /\ \/ op = "uncomment" /\ pc \in {"idle", "load", "drop"}
                      \/ op = "comment" /\ pc \in {"idle", "refresh"}
    \* A like it has found or given is its user's and of this sermon.
    /\ l \in Likes /\ pc # "idle" => l \in Mine(r)
    \* What is about to be deleted belongs together, and to the user.
    /\ pc = "delete" =>
          /\ s \in SermonIds
          /\ \A k \in req[r].likes : like[k] # NoRow /\ (k \in Likes => like[k].sermon = s)
          /\ \A k \in req[r].comments : comment[k] # NoRow /\ (k \in Comments => comment[k].sermon = s)
          /\ s \in Sermons => OwnerOrAdmin(r, sermon[s])
    /\ pc = "unlike" => l \in LikeIds
    /\ pc = "drop" => c \in CommentIds /\ (c \in Comments => OwnerOrAdmin(r, comment[c].user))
    \* A failure leaves nothing behind.
    /\ req[r].code = 500 =>
          l \notin Likes /\ c \notin Comments /\ (op = "create" => s \notin Sermons)

\* How the like, as it was when an undisturbed toggle began, and as it is now, agree.
InTune(r) ==
    LET pc == req[r].pc IN
    /\ req[r].op # "toggle" => lone[r] = "no"
    /\ lone[r] # "no" =>
          /\ pc \in {"load", "find"} => (lone[r] = "unliked" <=> Mine(r) = {})
          /\ pc = "like" => lone[r] = "unliked" /\ Mine(r) = {}
          /\ pc = "unlike" => lone[r] = "liked" /\ req[r].lid \in Mine(r)
          /\ pc = "refresh" => lone[r] = "unliked" /\ req[r].lid \in Mine(r) /\ req[r].is_liked = TRUE
          /\ pc = "reread" => /\ req[r].is_liked = TRUE <=> lone[r] = "unliked"
                              /\ req[r].is_liked = TRUE <=> Mine(r) # {}

IInv ==
    /\ TypeOK /\ NoOrphan /\ OneLikePerUser
    /\ \A r \in Requests : InHand(r) /\ InTune(r)
-----------------------------------------------------------------------------
(* Stability *)

\* A row never comes back, and does not change while it is there.
RowsKept ==
    /\ \A s \in SermonIds : sermon[s] # NoRow => sermon'[s] \in {Gone, sermon[s]}
    /\ \A l \in LikeIds : like[l] # NoRow => like'[l] \in {Gone, like[l]}
    /\ \A c \in CommentIds : comment[c] # NoRow => comment'[c] \in {Gone, comment[c]}

\* A toggle whose like another request changes is not alone any more.
LoneKept(p) == lone'[p] = "no" \/ (lone'[p] = lone[p] /\ Mine(p)' = Mine(p))

LEMMA KeysKept ==
    ASSUME RowsKept
    PROVE  /\ \A s \in SermonIds : sermon[s] # NoRow =>
                 sermon'[s] # NoRow /\ (s \in Sermons' => s \in Sermons /\ sermon'[s] = sermon[s])
           /\ \A l \in LikeIds : like[l] # NoRow =>
                 like'[l] # NoRow /\ (l \in Likes' => l \in Likes /\ like'[l] = like[l])
           /\ \A c \in CommentIds : comment[c] # NoRow =>
                 comment'[c] # NoRow /\ (c \in Comments' => c \in Comments /\ comment'[c] = comment[c])
BY RowAssumption DEF RowsKept, Sermons, Likes, Comments

\* Whatever a step does to the tables, the other requests keep what they hold.
LEMMA OthersInHand ==
    ASSUME IInv, RowsKept, NEW p \in Requests, req'[p] = req[p]
    PROVE  InHand(p)'
<1>0. req[p] \in Request /\ InHand(p)
  BY DEF IInv, TypeOK
<1> DEFINE s == req[p].sid
           l == req[p].lid
           c == req[p].cid
<1>1. /\ s # NoId => s \in SermonIds
      /\ l # NoId => l \in LikeIds
      /\ c # NoId => c \in CommentIds
      /\ \A k \in req[p].likes : k \in LikeIds
      /\ \A k \in req[p].comments : k \in CommentIds
  BY <1>0 DEF Request
<1>2. s # NoId => sermon'[s] # NoRow /\ (s \in Sermons' => s \in Sermons /\ sermon'[s] = sermon[s])
  BY <1>0, <1>1, KeysKept DEF InHand
<1>3. l # NoId => like'[l] # NoRow /\ (l \in Likes' => l \in Likes /\ like'[l] = like[l])
  BY <1>0, <1>1, KeysKept DEF InHand
<1>4. c # NoId => comment'[c] # NoRow /\ (c \in Comments' => c \in Comments /\ comment'[c] = comment[c])
  BY <1>0, <1>1, KeysKept DEF InHand
<1>5. NoId \notin Likes' /\ NoId \notin Comments' /\ NoId \notin Sermons' /\ NoId \notin SermonIds
  BY IdAssumption DEF Likes, Comments, Sermons
<1>6. l \in Likes' /\ req[p].pc # "idle" => l \in Mine(p)'
  BY <1>0, <1>3, <1>5 DEF InHand, Mine, LikesBy, LikesOf
<1>7. req[p].pc = "delete" =>
        /\ \A k \in req[p].likes : like'[k] # NoRow /\ (k \in Likes' => like'[k].sermon = s)
        /\ \A k \in req[p].comments :
              comment'[k] # NoRow /\ (k \in Comments' => comment'[k].sermon = s)
  BY <1>0, <1>1, KeysKept DEF InHand
<1> QED
  BY <1>0, <1>2, <1>3, <1>4, <1>5, <1>6, <1>7 DEF InHand, OwnerOrAdmin

LEMMA OthersInTune ==
    ASSUME IInv, NEW p \in Requests, req'[p] = req[p], LoneKept(p)
    PROVE  InTune(p)'
BY DEF IInv, InTune, LoneKept

-----------------------------------------------------------------------------
(* What remains to be shown of a step that moves one request *)

LEMMA OneMoves ==
    ASSUME IInv, RowsKept, NEW r \in Requests, NEW n \in Request, req' = [req EXCEPT ![r] = n],
           sermon' \in [SermonIds -> Users \union {NoRow, Gone}],
           like' \in [LikeIds -> Reaction \union {NoRow, Gone}],
           comment' \in [CommentIds -> Reaction \union {NoRow, Gone}],
           lone' \in [Requests -> {"no", "liked", "unliked"}],
           \A p \in Requests \ {r} : LoneKept(p),
           NoOrphan', OneLikePerUser', InHand(r)', InTune(r)'
    PROVE  IInv'
<1>1. req'[r] = n /\ \A p \in Requests \ {r} : req'[p] = req[p]
  BY DEF IInv, TypeOK
<1>2. TypeOK'
  BY DEF IInv, TypeOK
<1>3. \A p \in Requests : InHand(p)' /\ InTune(p)'
  BY <1>1, OthersInHand, OthersInTune
<1> QED
  BY <1>2, <1>3 DEF IInv

\* The tables stay: what remains is what the request itself holds.
LEMMA QuietStep ==
    ASSUME IInv, UNCHANGED tables, NEW r \in Requests, NEW n \in Request,
           req' = [req EXCEPT ![r] = n],
           lone' \in [Requests -> {"no", "liked", "unliked"}],
           \A p \in Requests \ {r} : lone'[p] = lone[p],
           InHand(r)', InTune(r)'
    PROVE  IInv'
<1>1. Likes' = Likes /\ Sermons' = Sermons /\ Comments' = Comments
  BY DEF tables, Likes, Sermons, Comments
<1>2. NoOrphan' /\ OneLikePerUser'
  BY <1>1 DEF tables, IInv, NoOrphan, OneLikePerUser
<1>3. RowsKept
  BY DEF tables, RowsKept
<1>4. \A p \in Requests \ {r} : req'[p] = req[p]
  BY DEF IInv, TypeOK
<1>5. \A p \in Requests \ {r} : LoneKept(p)
  BY <1>1, <1>4 DEF tables, LoneKept, Mine, LikesBy, LikesOf
<1>6. /\ sermon' \in [SermonIds -> Users \union {NoRow, Gone}]
      /\ like' \in [LikeIds -> Reaction \union {NoRow, Gone}]
      /\ comment' \in [CommentIds -> Reaction \union {NoRow, Gone}]
  BY DEF tables, IInv, TypeOK
<1> QED
  BY <1>2, <1>3, <1>5, <1>6, OneMoves, Zenon

\* The record a reply leaves.
LEMMA ReplyRecord ==
    ASSUME TypeOK, NEW r \in Requests, NEW code \in Codes, Reply(r, code)
    PROVE  \E n \in Request :
              /\ req' = [req EXCEPT ![r] = n]
              /\ n.pc = "idle" /\ n.code = code /\ n.op = req[r].op /\ n.user = req[r].user
              /\ n.sid = req[r].sid /\ n.lid = req[r].lid /\ n.cid = req[r].cid
              /\ n.is_liked = (req[r].is_liked /\ code = 200)
<1> DEFINE n == [req[r] EXCEPT !.pc = "idle", !.code = code, !.admin = FALSE, !.likes = {},
                               !.comments = {}, !.is_liked = (req[r].is_liked /\ code = 200)]
<1>1. req[r] \in Request
  BY DEF TypeOK
<1>2. n \in Request
  BY <1>1, ZenonT(60) DEF Request
<1>3. /\ n.pc = "idle" /\ n.code = code /\ n.op = req[r].op /\ n.user = req[r].user
      /\ n.sid = req[r].sid /\ n.lid = req[r].lid /\ n.cid = req[r].cid
      /\ n.is_liked = (req[r].is_liked /\ code = 200)
  BY <1>1 DEF Request
<1>4. req' = [req EXCEPT ![r] = n]
  BY <1>1 DEF Reply, TypeOK, Request
<1> QED
  BY <1>2, <1>3, <1>4

LEMMA ReplyStep ==
    ASSUME IInv, UNCHANGED <<tables, lone>>, NEW r \in Requests, NEW code \in Codes,
           Reply(r, code),
           code = 500 => /\ req[r].lid \notin Likes /\ req[r].cid \notin Comments
                         /\ req[r].op = "create" => req[r].sid \notin Sermons
    PROVE  IInv'
<1>1. PICK n \in Request :
         /\ req' = [req EXCEPT ![r] = n]
         /\ n.pc = "idle" /\ n.code = code /\ n.op = req[r].op /\ n.user = req[r].user
         /\ n.sid = req[r].sid /\ n.lid = req[r].lid /\ n.cid = req[r].cid
  BY ReplyRecord DEF IInv
<1>2. req'[r] = n /\ InHand(r) /\ InTune(r)
  BY <1>1 DEF IInv, TypeOK
<1>3. Likes' = Likes /\ Sermons' = Sermons /\ Comments' = Comments
  BY DEF tables, Likes, Sermons, Comments
<1>4. InHand(r)'
  BY <1>1, <1>2, <1>3 DEF InHand, tables
<1>5. InTune(r)'
  BY <1>1, <1>2 DEF InTune
<1>6. lone' \in [Requests -> {"no", "liked", "unliked"}]
  BY DEF IInv, TypeOK
<1> QED
  BY <1>1, <1>4, <1>5, <1>6, QuietStep
LEMMA NoIdIsNoRow == NoId \notin Likes /\ NoId \notin Comments /\ NoId \notin Sermons
BY IdAssumption DEF Likes, Comments, Sermons

\* A request that goes on with what it has.
LEMMA GotoStep ==
    ASSUME IInv, UNCHANGED <<tables, lone>>, NEW r \in Requests,
           NEW pc \in {"confirm", "like", "reread", "drop"}, Goto(r, pc), req[r].pc # "idle",
           pc = "confirm" => req[r].pc = "save",
           pc = "like" => req[r].pc = "find" /\ Mine(r) = {},
           pc = "reread" => req[r].pc = "refresh" /\ req[r].op = "toggle" /\ req[r].lid \in Likes,
           pc = "drop" => /\ req[r].pc = "load" /\ req[r].op = "uncomment"
                          /\ req[r].cid \in Comments /\ OwnerOrAdmin(r, comment[req[r].cid].user)
    PROVE  IInv'
<1> DEFINE n == [req[r] EXCEPT !.pc = pc]
<1>1. req[r] \in Request /\ InHand(r) /\ InTune(r)
  BY DEF IInv, TypeOK
<1>2. /\ n \in Request
      /\ n.pc = pc /\ n.sid = req[r].sid /\ n.lid = req[r].lid /\ n.cid = req[r].cid
      /\ n.is_liked = req[r].is_liked /\ n.op = req[r].op /\ n.code = req[r].code
      /\ n.user = req[r].user /\ n.admin = req[r].admin
  BY <1>1 DEF Request
<1>3. req' = [req EXCEPT ![r] = n] /\ req'[r] = n
  BY <1>1 DEF Goto, IInv, TypeOK, Request
<1> HIDE DEF n
<1>4. Likes' = Likes /\ Sermons' = Sermons /\ Comments' = Comments
  BY DEF tables, Likes, Sermons, Comments
<1>5. Mine(r)' = Mine(r)
  BY <1>2, <1>3, <1>4 DEF Mine, LikesBy, LikesOf, tables
<1>6. InHand(r)'
  <2>1. pc = "drop" => /\ req[r].cid \in CommentIds
                       /\ OwnerOrAdmin(r, comment[req[r].cid].user)'
    BY <1>2, <1>3 DEF OwnerOrAdmin, Comments, tables
  <2>2. req[r].code = 0
    BY <1>1 DEF InHand
  <2> QED
    BY <1>1, <1>2, <1>3, <1>4, <1>5, <2>1, <2>2 DEF InHand, tables
<1>7. InTune(r)'
  BY <1>1, <1>2, <1>3, <1>5 DEF InTune
<1>8. lone' \in [Requests -> {"no", "liked", "unliked"}] /\ req' = [req EXCEPT ![r] = n]
  BY <1>3 DEF IInv, TypeOK
<1> QED
  BY <1>2, <1>6, <1>7, <1>8, QuietStep

-----------------------------------------------------------------------------
(* The requests as they come in, and the steps that only read *)

LEMMA ArriveStep ==
    ASSUME IInv, NEW r \in Requests, Arrive(r)
    PROVE  IInv'
<1>1. PICK op \in {"create", "update", "delete", "toggle", "comment", "uncomment"},
           pc \in {"insert", "load"}, u \in Users, admin \in BOOLEAN,
           s \in Sermons \union {NoId}, c \in Comments \union {NoId} :
         /\ Begin(r, op, pc, u, admin, s, c)
         /\ pc = "insert" => op = "create"
         /\ c # NoId => op = "uncomment" /\ pc = "load"
  BY ZenonT(60) DEF Arrive, CreateSermon, UpdateSermon, DeleteSermon, ToggleLike, AddComment, DeleteComment
<1> DEFINE n == [op |-> op, pc |-> pc, user |-> u, admin |-> admin, sid |-> s, lid |-> NoId,
                 cid |-> c, likes |-> {}, comments |-> {}, is_liked |-> FALSE, code |-> 0]
           was == IF op # "toggle" THEN "no"
                  ELSE IF LikesBy(u, s) = {} THEN "unliked" ELSE "liked"
<1>2. n \in Request
  BY DEF Request, Codes, Sermons, Comments
<1>3. /\ n.pc = pc /\ n.op = op /\ n.code = 0 /\ n.sid = s /\ n.lid = NoId /\ n.cid = c
      /\ n.user = u
  OBVIOUS
<1>4. /\ req' = [req EXCEPT ![r] = n] /\ req'[r] = n /\ UNCHANGED tables
      /\ lone' = [lone EXCEPT ![r] = was]
  BY <1>1 DEF Begin, IInv, TypeOK
<1>5. /\ lone' \in [Requests -> {"no", "liked", "unliked"}] /\ lone'[r] = was
      /\ \A p \in Requests \ {r} : lone'[p] = lone[p]
  BY <1>4 DEF IInv, TypeOK
<1> HIDE DEF n
<1>6. s \in Sermons => sermon[s] # NoRow
  BY DEF Sermons
<1>7. c \in Comments => comment[c] # NoRow
  BY DEF Comments
<1>8. NoId \notin Likes'
  BY NoIdIsNoRow, <1>4 DEF tables, Likes
<1>9. InHand(r)'
  BY <1>1, <1>3, <1>4, <1>6, <1>7, <1>8 DEF InHand, tables
<1>10. Mine(r)' = LikesBy(u, s)
  BY <1>3, <1>4 DEF Mine, LikesBy, LikesOf, Likes, tables
<1>11. InTune(r)'
  BY <1>1, <1>3, <1>4, <1>5, <1>10 DEF InTune
<1>12. req' = [req EXCEPT ![r] = n]
  BY <1>4
<1> QED
  BY <1>2, <1>4, <1>5, <1>9, <1>11, <1>12, QuietStep, Zenon

LEMMA LoadSermonStep ==
    ASSUME IInv, NEW r \in Requests, LoadSermon(r)
    PROVE  IInv'
<1> DEFINE s == req[r].sid
<1>1. /\ req[r].pc = "load" /\ req[r].op # "uncomment" /\ UNCHANGED <<tables, lone>>
      /\ req[r] \in Request /\ InHand(r) /\ InTune(r)
  BY DEF LoadSermon, IInv, TypeOK
<1>2. CASE Reply(r, 404) \/ Reply(r, 403)
  BY <1>1, <1>2, ReplyStep DEF Codes
<1>3. CASE ~(Reply(r, 404) \/ Reply(r, 403))
  <2>1. /\ s \in Sermons
        /\ req[r].op \in {"update", "delete"} => OwnerOrAdmin(r, sermon[s])
        /\ req' = [req EXCEPT ![r].pc = CASE req[r].op = "update" -> "save"
                                          [] req[r].op = "delete" -> "delete"
                                          [] req[r].op = "toggle" -> "find"
                                          [] OTHER -> "insert",
                              ![r].likes = LikesOf(s), ![r].comments = CommentsOf(s)]
    BY <1>1, <1>3 DEF LoadSermon
  <2>2. PICK pc \in {"save", "delete", "find", "insert"} :
           /\ pc = CASE req[r].op = "update" -> "save"
                     [] req[r].op = "delete" -> "delete"
                     [] req[r].op = "toggle" -> "find"
                     [] OTHER -> "insert"
           /\ pc = "find" => req[r].op = "toggle"
           /\ pc = "delete" => req[r].op = "delete"
           /\ pc # "find" => req[r].op # "toggle"
    BY <2>1
  <2> DEFINE n == [req[r] EXCEPT !.pc = pc, !.likes = LikesOf(s), !.comments = CommentsOf(s)]
  <2>3. LikesOf(s) \subseteq LikeIds /\ CommentsOf(s) \subseteq CommentIds
    BY DEF LikesOf, Likes, CommentsOf, Comments
  <2>4. n \in Request
    BY <1>1, <2>3 DEF Request
  <2>5. /\ n.pc = pc /\ n.op = req[r].op /\ n.user = req[r].user /\ n.admin = req[r].admin
        /\ n.sid = s /\ n.lid = req[r].lid /\ n.cid = req[r].cid /\ n.code = req[r].code
        /\ n.likes = LikesOf(s) /\ n.comments = CommentsOf(s)
    BY <1>1 DEF Request
  <2>6. req' = [req EXCEPT ![r] = n] /\ req'[r] = n
    BY <2>1, <2>2 DEF IInv, TypeOK
  <2> HIDE DEF n
  <2>7. n.code = 0 /\ n.lid = NoId /\ n.cid = NoId
    BY <1>1, <2>5 DEF InHand
  <2>8. Likes' = Likes /\ Sermons' = Sermons /\ Comments' = Comments
    BY <1>1 DEF tables, Likes, Sermons, Comments
  <2>9. Mine(r)' = Mine(r)
    BY <1>1, <2>5, <2>6, <2>8 DEF Mine, LikesBy, LikesOf, tables
  <2>10. InHand(r)'
    <3>1. s \in SermonIds /\ sermon[s] # NoRow
      BY <2>1 DEF Sermons
    <3>2. /\ \A k \in LikesOf(s) : like[k] # NoRow /\ like[k].sermon = s
          /\ \A k \in CommentsOf(s) : comment[k] # NoRow /\ comment[k].sermon = s
      BY DEF LikesOf, Likes, CommentsOf, Comments
    <3>3. pc = "delete" => OwnerOrAdmin(r, sermon[s])
      BY <2>1, <2>2
    <3>4. NoId \notin Likes'
      BY NoIdIsNoRow, <2>8
    <3> QED
      BY <1>1, <2>2, <2>5, <2>6, <2>7, <2>8, <3>1, <3>2, <3>3, <3>4 DEF InHand, OwnerOrAdmin, tables
  <2>11. InTune(r)'
    BY <1>1, <2>5, <2>6, <2>9 DEF InTune
  <2>12. lone' \in [Requests -> {"no", "liked", "unliked"}] /\ req' = [req EXCEPT ![r] = n]
    BY <1>1, <2>6 DEF IInv, TypeOK
  <2> QED
    BY <1>1, <2>4, <2>10, <2>11, <2>12, QuietStep
<1> QED
  BY <1>2, <1>3

LEMMA FindLikeStep ==
    ASSUME IInv, NEW r \in Requests, FindLike(r)
    PROVE  IInv'
<1>1. /\ req[r].pc = "find" /\ UNCHANGED <<tables, lone>>
      /\ req[r] \in Request /\ InHand(r) /\ InTune(r)
  BY DEF FindLike, IInv, TypeOK
<1>2. CASE Mine(r) = {} /\ Goto(r, "like")
  BY <1>1, <1>2, GotoStep
<1>3. CASE \E l \in Mine(r) : req' = [req EXCEPT ![r].pc = "unlike", ![r].lid = l]
  <2>1. PICK l \in Mine(r) : req' = [req EXCEPT ![r].pc = "unlike", ![r].lid = l]
    BY <1>3
  <2>2. l \in Likes /\ l \in LikeIds /\ like[l] # NoRow
    BY DEF Mine, LikesBy, LikesOf, Likes
  <2> DEFINE n == [req[r] EXCEPT !.pc = "unlike", !.lid = l]
  <2>3. /\ n \in Request
        /\ n.pc = "unlike" /\ n.sid = req[r].sid /\ n.lid = l /\ n.cid = req[r].cid
        /\ n.op = req[r].op /\ n.code = req[r].code /\ n.user = req[r].user
    BY <1>1, <2>2 DEF Request
  <2>4. req' = [req EXCEPT ![r] = n] /\ req'[r] = n
    BY <1>1, <2>1 DEF IInv, TypeOK, Request
  <2> HIDE DEF n
  <2>5. Likes' = Likes /\ Sermons' = Sermons /\ Comments' = Comments
    BY <1>1 DEF tables, Likes, Sermons, Comments
  <2>6. Mine(r)' = Mine(r)
    BY <1>1, <2>3, <2>4, <2>5 DEF Mine, LikesBy, LikesOf, tables
  <2>7. InHand(r)'
    BY <1>1, <2>2, <2>3, <2>4, <2>5, <2>6 DEF InHand, tables
  <2>8. InTune(r)'
    <3>1. lone[r] \in {"no", "liked", "unliked"}
      BY DEF IInv, TypeOK
    <3> QED
      BY <1>1, <2>3, <2>4, <2>6, <3>1 DEF InTune
  <2>9. lone' \in [Requests -> {"no", "liked", "unliked"}] /\ req' = [req EXCEPT ![r] = n]
    BY <1>1, <2>4 DEF IInv, TypeOK
  <2> QED
    BY <1>1, <2>3, <2>7, <2>8, <2>9, QuietStep
<1> QED
  BY <1>2, <1>3 DEF FindLike, Mine
\* The steps of a request that only read, or fail before they write.
LEMMA ReadingStep ==
    ASSUME IInv, NEW r \in Requests,
           \/ ConfirmSermon(r) \/ SaveSermon(r) \/ LikeRejected(r) \/ RefreshLike(r)
           \/ RereadSermon(r) \/ CommentRejected(r) \/ RefreshComment(r) \/ LoadComment(r)
    PROVE  IInv'
<1>0. InHand(r)
  BY DEF IInv
<1>1. CASE ConfirmSermon(r)
  <2>1. /\ req[r].pc = "confirm" /\ UNCHANGED <<tables, lone>>
        /\ \/ Reply(r, 201) \/ Reply(r, 200)
           \/ Reply(r, 500) /\ req[r].sid \notin Sermons
    BY <1>1 DEF ConfirmSermon, ReplyIf
  <2>2. req[r].lid = NoId /\ req[r].cid = NoId
    BY <1>0, <2>1 DEF InHand
  <2> QED
    BY <2>1, <2>2, NoIdIsNoRow, ReplyStep DEF Codes
<1>2. CASE SaveSermon(r)
  <2>1. /\ req[r].pc = "save" /\ UNCHANGED <<tables, lone>>
        /\ \/ Goto(r, "confirm")
           \/ Reply(r, 500) /\ req[r].sid \notin Sermons
    BY <1>2 DEF SaveSermon
  <2>2. req[r].lid = NoId /\ req[r].cid = NoId
    BY <1>0, <2>1 DEF InHand
  <2>3. CASE Goto(r, "confirm")
    BY <2>1, <2>3, GotoStep
  <2>4. CASE ~Goto(r, "confirm")
    BY <2>1, <2>2, <2>4, NoIdIsNoRow, ReplyStep DEF Codes
  <2> QED
    BY <2>3, <2>4
<1>3. CASE LikeRejected(r)
  <2>1. req[r].pc = "like" /\ UNCHANGED <<tables, lone>> /\ Reply(r, 500)
    BY <1>3 DEF LikeRejected
  <2>2. req[r].lid = NoId /\ req[r].cid = NoId /\ req[r].op # "create"
    BY <1>0, <2>1 DEF InHand
  <2> QED
    BY <2>1, <2>2, NoIdIsNoRow, ReplyStep DEF Codes
<1>4. CASE RefreshLike(r)
  <2>1. /\ req[r].pc = "refresh" /\ req[r].op = "toggle" /\ UNCHANGED <<tables, lone>>
        /\ \/ Goto(r, "reread") /\ req[r].lid \in Likes
           \/ Reply(r, 500) /\ req[r].lid \notin Likes
    BY <1>4 DEF RefreshLike
  <2>2. req[r].cid = NoId
    BY <1>0, <2>1 DEF InHand
  <2>3. CASE Goto(r, "reread") /\ req[r].lid \in Likes
    BY <2>1, <2>3, GotoStep
  <2>4. CASE ~(Goto(r, "reread") /\ req[r].lid \in Likes)
    BY <2>1, <2>2, <2>4, NoIdIsNoRow, ReplyStep DEF Codes
  <2> QED
    BY <2>3, <2>4
<1>5. CASE RereadSermon(r)
  <2>1. /\ req[r].pc = "reread" /\ UNCHANGED <<tables, lone>>
        /\ \/ Reply(r, 200)
           \/ Reply(r, 500) /\ req[r].sid \notin Sermons
    BY <1>5 DEF RereadSermon, ReplyIf
  <2>2. req[r].cid = NoId /\ req[r].op = "toggle"
    BY <1>0, <2>1 DEF InHand
  <2>3. req[r].sid \notin Sermons => req[r].lid \notin Likes
    BY <1>0, <2>1 DEF InHand, Mine, LikesBy, LikesOf, IInv, NoOrphan
  <2> QED
    BY <2>1, <2>2, <2>3, NoIdIsNoRow, ReplyStep DEF Codes
<1>6. CASE CommentRejected(r)
  <2>1. /\ req[r].pc = "insert" /\ req[r].op = "comment" /\ UNCHANGED <<tables, lone>>
        /\ Reply(r, 500)
    BY <1>6 DEF CommentRejected
  <2>2. req[r].lid = NoId /\ req[r].cid = NoId
    BY <1>0, <2>1 DEF InHand
  <2> QED
    BY <2>1, <2>2, NoIdIsNoRow, ReplyStep DEF Codes
<1>7. CASE RefreshComment(r)
  <2>1. /\ req[r].pc = "refresh" /\ req[r].op = "comment" /\ UNCHANGED <<tables, lone>>
        /\ \/ Reply(r, 201)
           \/ Reply(r, 500) /\ req[r].cid \notin Comments
    BY <1>7 DEF RefreshComment, ReplyIf
  <2>2. req[r].lid = NoId
    BY <1>0, <2>1 DEF InHand
  <2> QED
    BY <2>1, <2>2, NoIdIsNoRow, ReplyStep DEF Codes
<1>8. CASE LoadComment(r)
  <2>1. /\ req[r].pc = "load" /\ req[r].op = "uncomment" /\ UNCHANGED <<tables, lone>>
        /\ \/ Reply(r, 404) \/ Reply(r, 403)
           \/ /\ req[r].cid \in Comments /\ OwnerOrAdmin(r, comment[req[r].cid].user)
              /\ Goto(r, "drop")
    BY <1>8 DEF LoadComment
  <2>2. CASE Goto(r, "drop") /\ req[r].cid \in Comments /\ OwnerOrAdmin(r, comment[req[r].cid].user)
    BY <2>1, <2>2, GotoStep
  <2>3. CASE Reply(r, 404) \/ Reply(r, 403)
    BY <2>1, <2>3, ReplyStep DEF Codes
  <2> QED
    BY <2>1, <2>2, <2>3
<1> QED
  BY <1>1, <1>2, <1>3, <1>4, <1>5, <1>6, <1>7, <1>8

-----------------------------------------------------------------------------
(* The steps that write *)

LEMMA InsertSermonStep ==
    ASSUME IInv, NEW r \in Requests, InsertSermon(r)
    PROVE  IInv'
<1>1. PICK s \in SermonIds :
         /\ sermon[s] = NoRow
         /\ sermon' = [sermon EXCEPT ![s] = req[r].user]
         /\ req' = [req EXCEPT ![r].pc = "confirm", ![r].sid = s]
  BY DEF InsertSermon
<1>2. /\ UNCHANGED <<like, comment, lone>> /\ req[r].pc = "insert" /\ req[r].op = "create"
      /\ req[r] \in Request /\ InHand(r) /\ InTune(r) /\ req[r].user \in Users
  BY DEF InsertSermon, IInv, TypeOK, Request
<1> DEFINE n == [req[r] EXCEPT !.pc = "confirm", !.sid = s]
<1>3. /\ n \in Request /\ n.pc = "confirm" /\ n.sid = s /\ n.lid = req[r].lid
      /\ n.cid = req[r].cid /\ n.op = req[r].op /\ n.code = req[r].code
  BY <1>2 DEF Request
<1>4. req' = [req EXCEPT ![r] = n] /\ req'[r] = n /\ \A p \in Requests \ {r} : req'[p] = req[p]
  BY <1>1 DEF IInv, TypeOK
<1> HIDE DEF n
<1>5. /\ sermon' \in [SermonIds -> Users \union {NoRow, Gone}] /\ sermon'[s] = req[r].user
      /\ \A x \in SermonIds \ {s} : sermon'[x] = sermon[x]
  BY <1>1, <1>2 DEF IInv, TypeOK
<1>6. sermon'[s] \notin {NoRow, Gone}
  BY <1>2, <1>5, RowAssumption
<1>7. Sermons' = Sermons \union {s} /\ Likes' = Likes /\ Comments' = Comments
  BY <1>1, <1>2, <1>5, <1>6 DEF Sermons, Likes, Comments
<1>8. RowsKept
  BY <1>1, <1>2, <1>5 DEF RowsKept
<1>9. NoOrphan' /\ OneLikePerUser'
  BY <1>2, <1>7 DEF IInv, NoOrphan, OneLikePerUser
<1>10. \A p \in Requests \ {r} : LoneKept(p)
  BY <1>2, <1>4, <1>7 DEF LoneKept, Mine, LikesBy, LikesOf
<1>11. InHand(r)'
  <2>1. n.lid = NoId /\ n.cid = NoId /\ n.code = 0
    BY <1>2, <1>3 DEF InHand
  <2> QED
    BY <1>2, <1>3, <1>4, <1>6, <1>7, <2>1, NoIdIsNoRow DEF InHand
<1>12. InTune(r)'
  BY <1>2, <1>3, <1>4 DEF InTune
<1>13. /\ like' \in [LikeIds -> Reaction \union {NoRow, Gone}]
       /\ comment' \in [CommentIds -> Reaction \union {NoRow, Gone}]
       /\ lone' \in [Requests -> {"no", "liked", "unliked"}]
       /\ req' = [req EXCEPT ![r] = n]
  BY <1>2, <1>4 DEF IInv, TypeOK
<1> QED
  BY <1>3, <1>5, <1>8, <1>9, <1>10, <1>11, <1>12, <1>13, OneMoves
LEMMA InsertLikeStep ==
    ASSUME IInv, NEW r \in Requests, InsertLike(r)
    PROVE  IInv'
<1> DEFINE s == req[r].sid
           u == req[r].user
           row == [user |-> u, sermon |-> s]
<1>1. PICK l \in LikeIds :
         /\ like[l] = NoRow
         /\ like' = [like EXCEPT ![l] = row]
         /\ req' = [req EXCEPT ![r].pc = "refresh", ![r].lid = l, ![r].is_liked = TRUE]
  BY DEF InsertLike
<1>2. /\ UNCHANGED <<sermon, comment>> /\ req[r].pc = "like" /\ req[r] \in Request
      /\ InHand(r) /\ InTune(r) /\ s \in Sermons /\ Mine(r) = {}
      /\ lone' = [o \in Requests |-> IF o # r /\ req[o].user = u /\ req[o].sid = s
                                     THEN "no" ELSE lone[o]]
  BY DEF InsertLike, LikeFails, Touch, Mine, IInv, TypeOK
<1> DEFINE n == [req[r] EXCEPT !.pc = "refresh", !.lid = l, !.is_liked = TRUE]
<1>3. /\ n \in Request /\ n.pc = "refresh" /\ n.sid = s /\ n.lid = l /\ n.user = u
      /\ n.cid = req[r].cid /\ n.op = req[r].op /\ n.code = req[r].code /\ n.is_liked = TRUE
  BY <1>2 DEF Request
<1>4. req' = [req EXCEPT ![r] = n] /\ req'[r] = n /\ \A p \in Requests \ {r} : req'[p] = req[p]
  BY <1>1 DEF IInv, TypeOK
<1>5. row \in Reaction /\ row.user = u /\ row.sermon = s
  BY <1>2 DEF Reaction, Request, Sermons
<1>6. row \notin {NoRow, Gone}
  BY <1>5, RowAssumption DEF Reaction
<1> HIDE DEF n, row
<1>7. /\ like' \in [LikeIds -> Reaction \union {NoRow, Gone}] /\ like'[l] = row
      /\ \A k \in LikeIds \ {l} : like'[k] = like[k]
  BY <1>1, <1>5 DEF IInv, TypeOK
<1>8. /\ l \notin Likes /\ Likes' = Likes \union {l} /\ \A k \in Likes : like'[k] = like[k]
      /\ Sermons' = Sermons /\ Comments' = Comments
  BY <1>1, <1>2, <1>6, <1>7 DEF Sermons, Likes, Comments
<1>9. RowsKept
  BY <1>1, <1>2, <1>7 DEF RowsKept
<1>10. NoOrphan'
  BY <1>2, <1>5, <1>7, <1>8 DEF IInv, NoOrphan
<1>11. OneLikePerUser'
  <2>1. \A k \in Likes : like[k] # row
    BY <1>2, <1>5 DEF Mine, LikesBy, LikesOf
  <2> QED
    BY <1>7, <1>8, <2>1 DEF IInv, OneLikePerUser
<1>12. ASSUME NEW p \in Requests \ {r}
       PROVE  LoneKept(p)
  <2>1. CASE req[p].user = u /\ req[p].sid = s
    BY <1>2, <2>1 DEF LoneKept
  <2>2. CASE ~(req[p].user = u /\ req[p].sid = s)
    <3>1. Mine(p)' = Mine(p)
      BY <1>4, <1>5, <1>7, <1>8, <2>2 DEF Mine, LikesBy, LikesOf
    <3> QED
      BY <1>2, <2>2, <3>1 DEF LoneKept
  <2> QED
    BY <2>1, <2>2
<1>13. l \in Mine(r)' /\ l # NoId /\ like'[l] # NoRow
  BY <1>3, <1>4, <1>5, <1>6, <1>7, <1>8, IdAssumption DEF Mine, LikesBy, LikesOf
<1>14. InHand(r)'
  BY <1>2, <1>3, <1>4, <1>8, <1>13 DEF InHand
<1>15. InTune(r)'
  BY <1>2, <1>3, <1>4, <1>13 DEF InTune
<1>16. /\ sermon' \in [SermonIds -> Users \union {NoRow, Gone}]
       /\ comment' \in [CommentIds -> Reaction \union {NoRow, Gone}]
       /\ lone' \in [Requests -> {"no", "liked", "unliked"}]
       /\ req' = [req EXCEPT ![r] = n]
  BY <1>2, <1>4 DEF IInv, TypeOK
<1> QED
  BY <1>3, <1>7, <1>9, <1>10, <1>11, <1>12, <1>14, <1>15, <1>16, OneMoves

LEMMA RemoveLikeStep ==
    ASSUME IInv, NEW r \in Requests, RemoveLike(r)
    PROVE  IInv'
<1> DEFINE s == req[r].sid
           u == req[r].user
           l == req[r].lid
           n == [req[r] EXCEPT !.pc = "reread", !.is_liked = FALSE]
<1>1. /\ like' = [like EXCEPT ![l] = Gone] /\ UNCHANGED <<sermon, comment>>
      /\ req' = [req EXCEPT ![r].pc = "reread", ![r].is_liked = FALSE]
      /\ req[r].pc = "unlike" /\ req[r] \in Request /\ InHand(r) /\ InTune(r)
  BY DEF RemoveLike, RemoveAs, IInv, TypeOK
<1>2. \A o \in Requests : lone'[o] = IF o # r /\ l \in Likes /\ req[o].user = u /\ req[o].sid = s
                                     THEN "no" ELSE lone[o]
  <2>1. lone' = [o \in Requests |-> IF o # r /\ <<req[o].user, req[o].sid>> \in
                                              {<<u, s>> : k \in {l} \intersect Likes}
                                    THEN "no" ELSE lone[o]]
    BY DEF RemoveLike, RemoveAs, Touch
  <2> QED
    BY <2>1
<1>3. l \in LikeIds /\ like[l] # NoRow /\ (l \in Likes => l \in Mine(r))
  BY <1>1, IdAssumption DEF InHand
<1>4. /\ n \in Request /\ n.pc = "reread" /\ n.sid = s /\ n.lid = l /\ n.user = u
      /\ n.cid = req[r].cid /\ n.op = req[r].op /\ n.code = req[r].code /\ n.is_liked = FALSE
  BY <1>1 DEF Request
<1>5. req' = [req EXCEPT ![r] = n] /\ req'[r] = n /\ \A p \in Requests \ {r} : req'[p] = req[p]
  BY <1>1 DEF IInv, TypeOK
<1> HIDE DEF n
<1>6. /\ like' \in [LikeIds -> Reaction \union {NoRow, Gone}] /\ like'[l] = Gone
      /\ \A k \in LikeIds \ {l} : like'[k] = like[k]
  BY <1>1, <1>3 DEF IInv, TypeOK
<1>7. /\ Likes' = Likes \ {l} /\ \A k \in Likes' : like'[k] = like[k]
      /\ Sermons' = Sermons /\ Comments' = Comments
  BY <1>1, <1>3, <1>6 DEF Sermons, Likes, Comments
<1>8. RowsKept
  BY <1>1, <1>6 DEF RowsKept
<1>9. NoOrphan' /\ OneLikePerUser'
  BY <1>1, <1>7 DEF IInv, NoOrphan, OneLikePerUser
<1>10. ASSUME NEW p \in Requests \ {r}
       PROVE  LoneKept(p)
  <2>1. CASE l \in Likes /\ req[p].user = u /\ req[p].sid = s
    BY <1>2, <2>1 DEF LoneKept
  <2>2. CASE ~(l \in Likes /\ req[p].user = u /\ req[p].sid = s)
    <3>1. l \notin Mine(p)
      BY <1>3, <2>2 DEF Mine, LikesBy, LikesOf
    <3>2. Mine(p)' = Mine(p)
      BY <1>5, <1>7, <3>1 DEF Mine, LikesBy, LikesOf
    <3> QED
      BY <1>2, <2>2, <3>2 DEF LoneKept
  <2> QED
    BY <2>1, <2>2
<1>11. l \in Likes => Mine(r)' = {}
  <2>1. ASSUME l \in Likes, NEW k \in Mine(r)
        PROVE  k = l
    <3>1. l \in Mine(r)
      BY <1>3, <2>1
    <3>2. /\ k \in Likes /\ l \in Likes /\ like[k] \in Reaction /\ like[l] \in Reaction
          /\ like[k].user = like[l].user /\ like[k].sermon = like[l].sermon
      BY <3>1 DEF Mine, LikesBy, LikesOf, Likes, IInv, TypeOK
    <3>3. like[k] = like[l]
      BY <3>2 DEF Reaction
    <3> QED
      BY <3>2, <3>3 DEF IInv, OneLikePerUser
  <2>2. Mine(r)' \subseteq Mine(r) \ {l}
    BY <1>4, <1>5, <1>7 DEF Mine, LikesBy, LikesOf
  <2> QED
    BY <2>1, <2>2
<1>12. l \notin Likes' /\ like'[l] # NoRow
  BY <1>6, <1>7, RowAssumption
<1>13. InHand(r)'
  BY <1>1, <1>4, <1>5, <1>7, <1>12 DEF InHand
<1>14. InTune(r)'
  <2>1. lone'[r] = lone[r]
    BY <1>2
  <2>2. lone[r] # "no" => lone[r] = "liked" /\ Mine(r)' = {}
    BY <1>1, <1>11 DEF InTune, Mine, LikesBy, LikesOf
  <2> QED
    BY <1>1, <1>4, <1>5, <2>1, <2>2 DEF InTune
<1>15. lone' \in [Requests -> {"no", "liked", "unliked"}]
  BY DEF RemoveLike, RemoveAs, Touch, IInv, TypeOK
<1>16. /\ sermon' \in [SermonIds -> Users \union {NoRow, Gone}]
       /\ comment' \in [CommentIds -> Reaction \union {NoRow, Gone}]
       /\ req' = [req EXCEPT ![r] = n]
  BY <1>1, <1>5 DEF IInv, TypeOK
<1> QED
  BY <1>4, <1>6, <1>8, <1>9, <1>10, <1>13, <1>14, <1>15, <1>16, OneMoves

LEMMA InsertCommentStep ==
    ASSUME IInv, NEW r \in Requests, InsertComment(r)
    PROVE  IInv'
<1> DEFINE row == [user |-> req[r].user, sermon |-> req[r].sid]
<1>1. PICK c \in CommentIds :
         /\ comment[c] = NoRow
         /\ comment' = [comment EXCEPT ![c] = row]
         /\ req' = [req EXCEPT ![r].pc = "refresh", ![r].cid = c]
  BY DEF InsertComment
<1>2. /\ UNCHANGED <<sermon, like, lone>> /\ req[r].pc = "insert" /\ req[r].op = "comment"
      /\ req[r] \in Request /\ InHand(r) /\ InTune(r) /\ req[r].sid \in Sermons
  BY DEF InsertComment, IInv, TypeOK
<1> DEFINE n == [req[r] EXCEPT !.pc = "refresh", !.cid = c]
<1>3. /\ n \in Request /\ n.pc = "refresh" /\ n.sid = req[r].sid /\ n.lid = req[r].lid
      /\ n.cid = c /\ n.op = req[r].op /\ n.code = req[r].code
  BY <1>2 DEF Request
<1>4. req' = [req EXCEPT ![r] = n] /\ req'[r] = n /\ \A p \in Requests \ {r} : req'[p] = req[p]
  BY <1>1 DEF IInv, TypeOK
<1>5. row \in Reaction /\ row.sermon = req[r].sid
  BY <1>2 DEF Reaction, Request, Sermons
<1>6. row \notin {NoRow, Gone}
  BY <1>5, RowAssumption DEF Reaction
<1> HIDE DEF n, row
<1>7. /\ comment' \in [CommentIds -> Reaction \union {NoRow, Gone}] /\ comment'[c] = row
      /\ \A k \in CommentIds \ {c} : comment'[k] = comment[k]
  BY <1>1, <1>5 DEF IInv, TypeOK
<1>8. /\ Comments' = Comments \union {c} /\ \A k \in Comments : comment'[k] = comment[k]
      /\ Sermons' = Sermons /\ Likes' = Likes
  BY <1>1, <1>2, <1>6, <1>7 DEF Sermons, Likes, Comments
<1>9. RowsKept
  BY <1>1, <1>2, <1>7 DEF RowsKept
<1>10. NoOrphan' /\ OneLikePerUser'
  BY <1>2, <1>5, <1>7, <1>8 DEF IInv, NoOrphan, OneLikePerUser
<1>11. \A p \in Requests \ {r} : LoneKept(p)
  BY <1>2, <1>4, <1>8 DEF LoneKept, Mine, LikesBy, LikesOf
<1>12. InHand(r)'
  <2>1. n.lid = NoId /\ n.code = 0
    BY <1>2, <1>3 DEF InHand
  <2> QED
    BY <1>2, <1>3, <1>4, <1>6, <1>7, <1>8, <2>1, NoIdIsNoRow DEF InHand
<1>13. InTune(r)'
  BY <1>2, <1>3, <1>4 DEF InTune
<1>14. /\ sermon' \in [SermonIds -> Users \union {NoRow, Gone}]
       /\ like' \in [LikeIds -> Reaction \union {NoRow, Gone}]
       /\ lone' \in [Requests -> {"no", "liked", "unliked"}]
       /\ req' = [req EXCEPT ![r] = n]
  BY <1>2, <1>4 DEF IInv, TypeOK
<1> QED
  BY <1>3, <1>7, <1>9, <1>10, <1>11, <1>12, <1>13, <1>14, OneMoves
LEMMA RemoveCommentStep ==
    ASSUME IInv, NEW r \in Requests, RemoveComment(r)
    PROVE  IInv'
<1> DEFINE c == req[r].cid
<1>1. /\ comment' = [comment EXCEPT ![c] = Gone] /\ UNCHANGED <<sermon, like, lone>>
      /\ Reply(r, 200) /\ req[r].pc = "drop" /\ InHand(r) /\ InTune(r)
  BY DEF RemoveComment, IInv
<1>2. c \in CommentIds /\ c # NoId /\ comment[c] # NoRow
  BY <1>1, IdAssumption DEF InHand
<1>3. PICK n \in Request :
         /\ req' = [req EXCEPT ![r] = n]
         /\ n.pc = "idle" /\ n.code = 200 /\ n.op = req[r].op /\ n.user = req[r].user
         /\ n.sid = req[r].sid /\ n.lid = req[r].lid /\ n.cid = c
  BY <1>1, ReplyRecord DEF IInv, Codes
<1>4. req'[r] = n /\ \A p \in Requests \ {r} : req'[p] = req[p]
  BY <1>3 DEF IInv, TypeOK
<1>5. /\ comment' \in [CommentIds -> Reaction \union {NoRow, Gone}] /\ comment'[c] = Gone
      /\ \A k \in CommentIds \ {c} : comment'[k] = comment[k]
  BY <1>1, <1>2 DEF IInv, TypeOK
<1>6. /\ Comments' = Comments \ {c} /\ \A k \in Comments' : comment'[k] = comment[k]
      /\ Sermons' = Sermons /\ Likes' = Likes
  BY <1>1, <1>2, <1>5 DEF Sermons, Likes, Comments
<1>7. RowsKept
  BY <1>1, <1>5 DEF RowsKept
<1>8. NoOrphan' /\ OneLikePerUser'
  BY <1>1, <1>6 DEF IInv, NoOrphan, OneLikePerUser
<1>9. \A p \in Requests \ {r} : LoneKept(p)
  BY <1>1, <1>4, <1>6 DEF LoneKept, Mine, LikesBy, LikesOf
<1>10. InHand(r)'
  <2>1. comment'[c] # NoRow
    BY <1>5, RowAssumption
  <2> QED
    BY <1>1, <1>3, <1>4, <1>6, <2>1 DEF InHand
<1>11. InTune(r)'
  BY <1>1, <1>3, <1>4 DEF InTune
<1>12. /\ sermon' \in [SermonIds -> Users \union {NoRow, Gone}]
       /\ like' \in [LikeIds -> Reaction \union {NoRow, Gone}]
       /\ lone' \in [Requests -> {"no", "liked", "unliked"}]
       /\ req' = [req EXCEPT ![r] = n]
  BY <1>1, <1>3 DEF IInv, TypeOK
<1> QED
  BY <1>5, <1>7, <1>8, <1>9, <1>10, <1>11, <1>12, OneMoves

LEMMA RemoveSermonStep ==
    ASSUME IInv, NEW r \in Requests, RemoveSermon(r)
    PROVE  IInv'
<1> DEFINE s == req[r].sid
           ls == req[r].likes
           cs == req[r].comments
<1>0. req[r].pc = "delete" /\ req[r] \in Request /\ InHand(r) /\ InTune(r)
  BY DEF RemoveSermon, IInv, TypeOK
<1>1. CASE ~(LikesOf(s) \subseteq ls /\ CommentsOf(s) \subseteq cs)
  <2>1. Reply(r, 500) /\ UNCHANGED <<tables, lone>>
    BY <1>1 DEF RemoveSermon
  <2>2. req[r].lid = NoId /\ req[r].cid = NoId
    BY <1>0 DEF InHand
  <2>3. req[r].op = "create" => req[r].sid \notin Sermons
    BY <1>0 DEF InHand
  <2> QED
    BY <2>1, <2>2, <2>3, NoIdIsNoRow, ReplyStep DEF Codes
<1>2. CASE LikesOf(s) \subseteq ls /\ CommentsOf(s) \subseteq cs
  <2>1. /\ sermon' = [sermon EXCEPT ![s] = Gone]
        /\ like' = [l \in LikeIds |-> IF l \in ls THEN Gone ELSE like[l]]
        /\ comment' = [c \in CommentIds |-> IF c \in cs THEN Gone ELSE comment[c]]
        /\ Reply(r, 200)
        /\ lone' = [o \in Requests |-> IF o # r /\ <<req[o].user, req[o].sid>> \in
                                                {<<like[l].user, s>> : l \in ls \intersect Likes}
                                      THEN "no" ELSE lone[o]]
    BY <1>2 DEF RemoveSermon, DropSermon, Touch
  <2>2. /\ s \in SermonIds /\ s # NoId /\ sermon[s] # NoRow
        /\ \A k \in ls : k \in LikeIds /\ like[k] # NoRow /\ (k \in Likes => like[k].sermon = s)
        /\ \A k \in cs : /\ k \in CommentIds /\ comment[k] # NoRow
                         /\ k \in Comments => comment[k].sermon = s
    BY <1>0, IdAssumption DEF InHand, Request
  <2>3. PICK n \in Request :
           /\ req' = [req EXCEPT ![r] = n]
           /\ n.pc = "idle" /\ n.code = 200 /\ n.op = req[r].op /\ n.user = req[r].user
           /\ n.sid = s /\ n.lid = req[r].lid /\ n.cid = req[r].cid
    BY <2>1, ReplyRecord DEF IInv, Codes
  <2>4. req'[r] = n /\ \A p \in Requests \ {r} : req'[p] = req[p]
    BY <2>3 DEF IInv, TypeOK
  <2>5. /\ sermon' \in [SermonIds -> Users \union {NoRow, Gone}] /\ sermon'[s] = Gone
        /\ \A x \in SermonIds \ {s} : sermon'[x] = sermon[x]
    BY <2>1, <2>2 DEF IInv, TypeOK
  <2>6. /\ like' \in [LikeIds -> Reaction \union {NoRow, Gone}]
        /\ comment' \in [CommentIds -> Reaction \union {NoRow, Gone}]
    BY <2>1 DEF IInv, TypeOK
  <2>7. /\ Sermons' = Sermons \ {s}
        /\ Likes' = Likes \ ls /\ \A k \in Likes' : like'[k] = like[k]
        /\ Comments' = Comments \ cs /\ \A k \in Comments' : comment'[k] = comment[k]
    BY <2>1, <2>2, <2>5 DEF Sermons, Likes, Comments
  <2>8. RowsKept
    BY <2>1, <2>5 DEF RowsKept
  <2>9. NoOrphan'
    <3>1. ASSUME NEW k \in Likes' PROVE like'[k].sermon \in Sermons'
      BY <1>2, <2>7, <3>1 DEF IInv, NoOrphan, LikesOf
    <3>2. ASSUME NEW k \in Comments' PROVE comment'[k].sermon \in Sermons'
      BY <1>2, <2>7, <3>2 DEF IInv, NoOrphan, CommentsOf
    <3> QED
      BY <3>1, <3>2 DEF NoOrphan
  <2>10. OneLikePerUser'
    BY <2>7 DEF IInv, OneLikePerUser
  <2>11. ASSUME NEW p \in Requests \ {r}
         PROVE  LoneKept(p)
    <3>1. CASE \E k \in ls : k \in Mine(p)
      <4>1. PICK k \in ls : k \in Mine(p)
        BY <3>1
      <4>2. k \in ls \intersect Likes /\ like[k].user = req[p].user /\ req[p].sid = s
        BY <2>2, <4>1 DEF Mine, LikesBy, LikesOf
      <4> QED
        BY <2>1, <4>2 DEF LoneKept
    <3>2. CASE ~\E k \in ls : k \in Mine(p)
      <4>1. Mine(p)' = Mine(p)
        BY <2>4, <2>7, <3>2 DEF Mine, LikesBy, LikesOf
      <4>2. lone'[p] \in {"no", lone[p]}
        BY <2>1
      <4> QED
        BY <4>1, <4>2 DEF LoneKept
    <3> QED
      BY <3>1, <3>2
  <2>12. InHand(r)'
    <3>1. sermon'[s] # NoRow /\ req[r].lid = NoId /\ req[r].cid = NoId
      BY <1>0, <2>5, RowAssumption DEF InHand
    <3>2. NoId \notin Likes' /\ NoId \notin Comments'
      BY <2>7, NoIdIsNoRow
    <3> QED
      BY <2>3, <2>4, <3>1, <3>2 DEF InHand
  <2>13. InTune(r)'
    BY <1>0, <2>1, <2>3, <2>4 DEF InTune
  <2>14. lone' \in [Requests -> {"no", "liked", "unliked"}]
    BY <2>1 DEF IInv, TypeOK
  <2> QED
    BY <2>3, <2>5, <2>6, <2>8, <2>9, <2>10, <2>11, <2>12, <2>13, <2>14, OneMoves
<1> QED
  BY <1>1, <1>2

-----------------------------------------------------------------------------
(* The inductive invariant *)

LEMMA Initially == Init => IInv
<1> SUFFICES ASSUME Init PROVE IInv
  OBVIOUS
<1>1. \A r \in Requests :
         /\ req[r] \in Request /\ req[r].pc = "idle" /\ req[r].op = "none" /\ req[r].code = 0
         /\ req[r].sid = NoId /\ req[r].lid = NoId /\ req[r].cid = NoId /\ lone[r] = "no"
  <2> DEFINE First == [op : {"none"}, pc : {"idle"}, user : Users, admin : {FALSE}, sid : {NoId},
                       lid : {NoId}, cid : {NoId}, likes : {{}}, comments : {{}},
                       is_liked : {FALSE}, code : {0}]
  <2>1. \A r \in Requests : req[r] \in First /\ lone[r] = "no"
    BY DEF Init
  <2>2. \A n \in First : /\ n \in Request /\ n.pc = "idle" /\ n.op = "none" /\ n.code = 0
                         /\ n.sid = NoId /\ n.lid = NoId /\ n.cid = NoId
    BY ZenonT(60) DEF Request, Codes
  <2> HIDE DEF First
  <2> QED
    BY <2>1, <2>2
<1>2. TypeOK
  <2>1. req \in [Requests -> Request] /\ lone \in [Requests -> {"no", "liked", "unliked"}]
    BY <1>1 DEF Init
  <2>2. sermon \in [SermonIds -> Users \union {NoRow, Gone}]
    BY DEF Init
  <2>3. like \in [LikeIds -> Reaction \union {NoRow, Gone}]
    BY DEF Init
  <2>4. comment \in [CommentIds -> Reaction \union {NoRow, Gone}]
    BY DEF Init
  <2> QED
    BY <2>1, <2>2, <2>3, <2>4 DEF TypeOK
<1>3. Sermons = {} /\ Likes = {} /\ Comments = {}
  BY DEF Init, Sermons, Likes, Comments
<1>4. \A r \in Requests : InHand(r) /\ InTune(r)
  BY <1>1, <1>3 DEF InHand, InTune
<1> QED
  BY <1>2, <1>3, <1>4 DEF IInv, NoOrphan, OneLikePerUser

LEMMA Inductive ==
    ASSUME IInv, [Next]_vars
    PROVE  IInv'
<1>1. ASSUME NEW r \in Requests, Arrive(r)
      PROVE  IInv'
  BY <1>1, ArriveStep
<1>2. ASSUME NEW r \in Requests, Proceed(r)
      PROVE  IInv'
  <2>1. CASE InsertSermon(r)
    BY <2>1, InsertSermonStep
  <2>2. CASE LoadSermon(r)
    BY <2>2, LoadSermonStep
  <2>3. CASE RemoveSermon(r)
    BY <2>3, RemoveSermonStep
  <2>4. CASE FindLike(r)
    BY <2>4, FindLikeStep
  <2>5. CASE InsertLike(r)
    BY <2>5, InsertLikeStep
  <2>6. CASE RemoveLike(r)
    BY <2>6, RemoveLikeStep
  <2>7. CASE InsertComment(r)
    BY <2>7, InsertCommentStep
  <2>8. CASE RemoveComment(r)
    BY <2>8, RemoveCommentStep
  <2>9. CASE \/ ConfirmSermon(r) \/ SaveSermon(r) \/ LikeRejected(r) \/ RefreshLike(r)
             \/ RereadSermon(r) \/ CommentRejected(r) \/ RefreshComment(r) \/ LoadComment(r)
    BY <2>9, ReadingStep
  <2> QED
    BY <1>2, <2>1, <2>2, <2>3, <2>4, <2>5, <2>6, <2>7, <2>8, <2>9 DEF Proceed
<1>3. CASE UNCHANGED vars
  BY <1>3, SMTT(60) DEF vars, IInv, TypeOK, NoOrphan, OneLikePerUser, InHand, InTune, Sermons, Likes,
              Comments, LikesOf, LikesBy, Mine, OwnerOrAdmin
<1> QED
  BY <1>1, <1>2, <1>3 DEF Next

\* Every reachable state satisfies the inductive invariant: the tables hang together,
\* every request in flight holds what its handler takes for granted, and an undisturbed
\* toggle knows the state of its like.
THEOREM Invariance == Spec => []IInv
<1>1. IInv /\ [Next]_vars => IInv'
  BY Inductive
<1> QED
  BY Initially, <1>1, PTL DEF Spec

-----------------------------------------------------------------------------
(* The invariants *)

\* The tables keep their columns and foreign keys: no like and no comment outlives its
\* sermon, although delete_sermon only deletes the reactions it loaded.
THEOREM ForeignKeysHold == Spec => []TablesOK
<1>1. IInv => TablesOK
  BY DEF IInv, TablesOK
<1> QED
  BY Invariance, <1>1, PTL

\* A user likes a sermon at most once, however many toggles of his run at once.
THEOREM LikedOnce == Spec => []OneLikePerUser
<1>1. IInv => OneLikePerUser
  BY DEF IInv
<1> QED
  BY Invariance, <1>1, PTL

\* A request that fails with 500 leaves no row of its own behind, though it fails after
\* its commit, at the refresh or the second SELECT.
THEOREM FailureLeavesNothing == Spec => []FailedLeavesNothing
<1>1. IInv => FailedLeavesNothing
  BY DEF IInv, FailedLeavesNothing, InHand
<1> QED
  BY Invariance, <1>1, PTL
-----------------------------------------------------------------------------
(* The action properties *)

\* The steps that leave the likes, or the comments, alone.
LEMMA LikesStay ==
    ASSUME Next, \A r \in Requests : ~InsertLike(r) /\ ~RemoveLike(r) /\ ~RemoveSermon(r)
    PROVE  like' = like
<1>1. CASE \E r \in Requests : Arrive(r)
  BY <1>1 DEF Arrive, CreateSermon, UpdateSermon, DeleteSermon, ToggleLike, AddComment,
              DeleteComment, Begin, tables
<1>2. CASE \E r \in Requests : Proceed(r)
  <2>1. PICK r \in Requests : Proceed(r)
    BY <1>2
  <2>2. CASE InsertSermon(r) \/ ConfirmSermon(r) \/ LoadSermon(r) \/ SaveSermon(r) \/ FindLike(r)
    BY <2>2 DEF tables, InsertSermon, ConfirmSermon, LoadSermon, SaveSermon, FindLike
  <2>3. CASE LikeRejected(r) \/ RefreshLike(r) \/ RereadSermon(r)
    BY <2>3 DEF tables, LikeRejected, RefreshLike, RereadSermon
  <2>4. CASE \/ InsertComment(r) \/ CommentRejected(r) \/ RefreshComment(r) \/ LoadComment(r)
             \/ RemoveComment(r)
    BY <2>4 DEF tables, InsertComment, CommentRejected, RefreshComment, LoadComment, RemoveComment
  <2> QED
    BY <2>1, <2>2, <2>3, <2>4 DEF Proceed
<1> QED
  BY <1>1, <1>2 DEF Next

LEMMA CommentsStay ==
    ASSUME Next, \A r \in Requests : ~InsertComment(r) /\ ~RemoveComment(r) /\ ~RemoveSermon(r)
    PROVE  comment' = comment
<1>1. CASE \E r \in Requests : Arrive(r)
  BY <1>1 DEF Arrive, CreateSermon, UpdateSermon, DeleteSermon, ToggleLike, AddComment,
              DeleteComment, Begin, tables
<1>2. CASE \E r \in Requests : Proceed(r)
  <2>1. PICK r \in Requests : Proceed(r)
    BY <1>2
  <2>2. CASE InsertSermon(r) \/ ConfirmSermon(r) \/ LoadSermon(r) \/ SaveSermon(r) \/ FindLike(r)
    BY <2>2 DEF tables, InsertSermon, ConfirmSermon, LoadSermon, SaveSermon, FindLike
  <2>3. CASE \/ InsertLike(r) \/ LikeRejected(r) \/ RefreshLike(r) \/ RemoveLike(r)
             \/ RereadSermon(r)
    BY <2>3 DEF tables, InsertLike, LikeRejected, RefreshLike, RemoveLike, RemoveAs, RereadSermon
  <2>4. CASE CommentRejected(r) \/ RefreshComment(r) \/ LoadComment(r)
    BY <2>4 DEF tables, CommentRejected, RefreshComment, LoadComment
  <2> QED
    BY <2>1, <2>2, <2>3, <2>4 DEF Proceed
<1> QED
  BY <1>1, <1>2 DEF Next

\* What the deletion of a sermon deletes belongs to the sermon, which is its user's, or
\* the user is an administrator.
LEMMA RemovedWithSermon ==
    ASSUME IInv, NEW r \in Requests, RemoveSermon(r)
    PROVE  /\ req[r].pc = "delete"
           /\ \A l \in Likes : like'[l] = Gone =>
                 l \in req[r].likes /\ OwnerOrAdmin(r, sermon[like[l].sermon])
           /\ \A c \in Comments : comment'[c] = Gone =>
                 c \in req[r].comments /\ OwnerOrAdmin(r, sermon[comment[c].sermon])
<1>1. req[r].pc = "delete" /\ InHand(r)
  BY DEF RemoveSermon, IInv
<1>2. ASSUME NEW l \in Likes, like'[l] = Gone
      PROVE  l \in req[r].likes /\ OwnerOrAdmin(r, sermon[like[l].sermon])
  <2>1. l \in LikeIds /\ like[l] # Gone /\ like[l].sermon \in Sermons
    BY DEF Likes, IInv, NoOrphan
  <2>2. l \in req[r].likes
    BY <1>2, <2>1 DEF RemoveSermon, DropSermon, tables
  <2> QED
    BY <1>1, <2>1, <2>2 DEF InHand
<1>3. ASSUME NEW c \in Comments, comment'[c] = Gone
      PROVE  c \in req[r].comments /\ OwnerOrAdmin(r, sermon[comment[c].sermon])
  <2>1. c \in CommentIds /\ comment[c] # Gone /\ comment[c].sermon \in Sermons
    BY DEF Comments, IInv, NoOrphan
  <2>2. c \in req[r].comments
    BY <1>3, <2>1 DEF RemoveSermon, DropSermon, tables
  <2> QED
    BY <1>1, <2>1, <2>2 DEF InHand
<1> QED
  BY <1>1, <1>2, <1>3

\* A reaction disappears only in a toggle, or a deletion, of the user who gave it, or in
\* one by an administrator, or with its sermon, by a session that had loaded it.
THEOREM RemovedRightly == Spec => ReactionsRemovedRightly
<1> DEFINE LikesGo ==
             \A l \in Likes : like'[l] = Gone =>
                \E r \in Requests :
                   \/ req[r].pc = "unlike" /\ req[r].user = like[l].user
                   \/ /\ req[r].pc = "delete" /\ l \in req[r].likes
                      /\ OwnerOrAdmin(r, sermon[like[l].sermon])
           CommentsGo ==
             \A c \in Comments : comment'[c] = Gone =>
                \E r \in Requests :
                   \/ req[r].pc = "drop" /\ OwnerOrAdmin(r, comment[c].user)
                   \/ /\ req[r].pc = "delete" /\ c \in req[r].comments
                      /\ OwnerOrAdmin(r, sermon[comment[c].sermon])
<1>1. IInv /\ [Next]_vars => LikesGo
  <2> SUFFICES ASSUME IInv, [Next]_vars, NEW l \in Likes, like'[l] = Gone
               PROVE  \E r \in Requests :
                         \/ req[r].pc = "unlike" /\ req[r].user = like[l].user
                         \/ /\ req[r].pc = "delete" /\ l \in req[r].likes
                            /\ OwnerOrAdmin(r, sermon[like[l].sermon])
    OBVIOUS
  <2>1. /\ l \in LikeIds /\ like[l] # NoRow /\ like'[l] # like[l]
        /\ like \in [LikeIds -> Reaction \union {NoRow, Gone}]
    BY DEF Likes, IInv, TypeOK
  <2>2. ASSUME NEW r \in Requests, InsertLike(r)
        PROVE  FALSE
    BY <2>1, <2>2 DEF InsertLike
  <2>3. ASSUME NEW r \in Requests, RemoveLike(r)
        PROVE  req[r].pc = "unlike" /\ req[r].user = like[l].user
    <3>1. InHand(r) /\ req[r].pc = "unlike"
      BY <2>3 DEF IInv, RemoveLike, RemoveAs
    <3>2. req[r].lid = l
      BY <2>1, <2>3 DEF RemoveLike, RemoveAs
    <3> QED
      BY <3>1, <3>2 DEF InHand, Mine, LikesBy
  <2>4. ASSUME NEW r \in Requests, RemoveSermon(r)
        PROVE  /\ req[r].pc = "delete" /\ l \in req[r].likes
               /\ OwnerOrAdmin(r, sermon[like[l].sermon])
    BY <2>4, RemovedWithSermon
  <2> QED
    BY <2>1, <2>2, <2>3, <2>4, LikesStay DEF vars
<1>2. IInv /\ [Next]_vars => CommentsGo
  <2> SUFFICES ASSUME IInv, [Next]_vars, NEW c \in Comments, comment'[c] = Gone
               PROVE  \E r \in Requests :
                         \/ req[r].pc = "drop" /\ OwnerOrAdmin(r, comment[c].user)
                         \/ /\ req[r].pc = "delete" /\ c \in req[r].comments
                            /\ OwnerOrAdmin(r, sermon[comment[c].sermon])
    OBVIOUS
  <2>1. /\ c \in CommentIds /\ comment[c] # NoRow /\ comment'[c] # comment[c]
        /\ comment \in [CommentIds -> Reaction \union {NoRow, Gone}]
    BY DEF Comments, IInv, TypeOK
  <2>2. ASSUME NEW r \in Requests, InsertComment(r)
        PROVE  FALSE
    BY <2>1, <2>2 DEF InsertComment
  <2>3. ASSUME NEW r \in Requests, RemoveComment(r)
        PROVE  req[r].pc = "drop" /\ OwnerOrAdmin(r, comment[c].user)
    <3>1. InHand(r) /\ req[r].pc = "drop"
      BY <2>3 DEF IInv, RemoveComment
    <3>2. req[r].cid = c
      BY <2>1, <2>3 DEF RemoveComment
    <3> QED
      BY <3>1, <3>2 DEF InHand
  <2>4. ASSUME NEW r \in Requests, RemoveSermon(r)
        PROVE  /\ req[r].pc = "delete" /\ c \in req[r].comments
               /\ OwnerOrAdmin(r, sermon[comment[c].sermon])
    BY <2>4, RemovedWithSermon
  <2> QED
    BY <2>1, <2>2, <2>3, <2>4, CommentsStay DEF vars
<1>3. IInv /\ [Next]_vars => [LikesGo /\ CommentsGo]_vars
  BY <1>1, <1>2
<1> QED
  BY Invariance, <1>3, PTL DEF Spec, ReactionsRemovedRightly

\* A step moves one request only.
LEMMA OthersStay ==
    ASSUME TypeOK, NEW r \in Requests, NEW p \in Requests \ {r}, Arrive(p) \/ Proceed(p)
    PROVE  req'[r] = req[r]
<1>1. CASE Arrive(p)
  <2>1. \E op, pc, u, admin, s, c : Begin(p, op, pc, u, admin, s, c)
    BY <1>1 DEF Arrive, CreateSermon, UpdateSermon, DeleteSermon, ToggleLike, AddComment,
                DeleteComment
  <2>2. \E n : req' = [req EXCEPT ![p] = n]
    BY <2>1 DEF Begin
  <2> QED
    BY <2>2 DEF TypeOK
<1>2. CASE Proceed(p)
  <2>1. CASE InsertSermon(p)
    BY <2>1 DEF TypeOK, InsertSermon
  <2>2. CASE ConfirmSermon(p)
    BY <2>2 DEF TypeOK, ConfirmSermon, ReplyIf, Reply
  <2>3. CASE LoadSermon(p)
    BY <2>3 DEF TypeOK, LoadSermon, Reply
  <2>4. CASE SaveSermon(p)
    BY <2>4 DEF TypeOK, SaveSermon, Goto, Reply
  <2>5. CASE RemoveSermon(p)
    BY <2>5 DEF TypeOK, RemoveSermon, DropSermon, Reply
  <2>6. CASE FindLike(p)
    BY <2>6 DEF TypeOK, FindLike, Goto
  <2>7. CASE InsertLike(p)
    BY <2>7 DEF TypeOK, InsertLike
  <2>8. CASE LikeRejected(p)
    BY <2>8 DEF TypeOK, LikeRejected, Reply
  <2>9. CASE RefreshLike(p)
    BY <2>9 DEF TypeOK, RefreshLike, Goto, Reply
  <2>10. CASE RemoveLike(p)
    BY <2>10 DEF TypeOK, RemoveLike, RemoveAs
  <2>11. CASE RereadSermon(p)
    BY <2>11 DEF TypeOK, RereadSermon, ReplyIf, Reply
  <2>12. CASE InsertComment(p)
    BY <2>12 DEF TypeOK, InsertComment
  <2>13. CASE CommentRejected(p)
    BY <2>13 DEF TypeOK, CommentRejected, Reply
  <2>14. CASE RefreshComment(p)
    BY <2>14 DEF TypeOK, RefreshComment, ReplyIf, Reply
  <2>15. CASE LoadComment(p)
    BY <2>15 DEF TypeOK, LoadComment, Goto, Reply
  <2>16. CASE RemoveComment(p)
    BY <2>16 DEF TypeOK, RemoveComment, Reply
  <2> QED
    BY <1>2, <2>1, <2>2, <2>3, <2>4, <2>5, <2>6, <2>7, <2>8,
       <2>9, <2>10, <2>11, <2>12, <2>13, <2>14, <2>15, <2>16 DEF Proceed
<1> QED
  BY <1>1, <1>2

\* A toggle that no other request interferes with, on a sermon that is there, succeeds,
\* inverts the like and reports what it now is.
THEOREM UndisturbedToggle == Spec => LoneToggle
<1> DEFINE Truly(r) ==
             /\ req[r].op = "toggle" /\ req[r].pc # "idle" /\ req'[r].pc = "idle"
             /\ lone[r] # "no" /\ req[r].sid \in Sermons
             => /\ req'[r].code = 200
                /\ req'[r].is_liked <=> lone[r] = "unliked"
                /\ req'[r].is_liked <=> LikesBy(req[r].user, req[r].sid) # {}
<1>1. ASSUME IInv, [Next]_vars, NEW r \in Requests
      PROVE  Truly(r)
  <2> SUFFICES ASSUME req[r].op = "toggle", req[r].pc # "idle", req'[r].pc = "idle",
                      lone[r] # "no", req[r].sid \in Sermons
               PROVE  /\ req'[r].code = 200
                      /\ req'[r].is_liked <=> lone[r] = "unliked"
                      /\ req'[r].is_liked <=> Mine(r) # {}
    BY DEF Mine
  <2>1. req[r] \in Request /\ InHand(r) /\ InTune(r)
    BY <1>1 DEF IInv, TypeOK
  <2>2. Arrive(r) \/ Proceed(r)
    BY <1>1, OthersStay DEF IInv, Next, vars
  <2>3. ~Arrive(r)
    BY DEF Arrive, CreateSermon, UpdateSermon, DeleteSermon, ToggleLike, AddComment,
           DeleteComment, Begin
  <2>5. ~InsertSermon(r) /\ ~InsertComment(r) /\ ~CommentRejected(r) /\ ~RefreshComment(r)
        /\ ~LoadComment(r)
    BY DEF InsertSermon, InsertComment, CommentRejected, RefreshComment, LoadComment
  <2>6. ~ConfirmSermon(r) /\ ~SaveSermon(r) /\ ~RemoveSermon(r) /\ ~RemoveComment(r)
    BY <2>1 DEF InHand, ConfirmSermon, SaveSermon, RemoveSermon, RemoveComment
  <2>7. ~LoadSermon(r)
    <3> SUFFICES ASSUME LoadSermon(r)
                 PROVE  FALSE
      OBVIOUS
    <3>1. req' = [req EXCEPT ![r].pc = "find", ![r].likes = LikesOf(req[r].sid),
                             ![r].comments = CommentsOf(req[r].sid)]
      BY DEF LoadSermon
    <3>2. req'[r].pc = "find"
      BY <1>1, <2>1, <3>1 DEF IInv, TypeOK, Request
    <3> QED
      BY <3>2
  <2>8. ~FindLike(r)
    BY <1>1, <2>1 DEF FindLike, Goto, IInv, TypeOK, Request
  <2>9. ~InsertLike(r) /\ ~RemoveLike(r)
    <3>1. ASSUME InsertLike(r)
          PROVE  FALSE
      <4>1. PICK l \in LikeIds :
               req' = [req EXCEPT ![r].pc = "refresh", ![r].lid = l, ![r].is_liked = TRUE]
        BY <3>1 DEF InsertLike
      <4>2. req'[r].pc = "refresh"
        BY <1>1, <2>1, <4>1 DEF IInv, TypeOK, Request
      <4> QED
        BY <4>2
    <3>2. ASSUME RemoveLike(r)
          PROVE  FALSE
      <4>1. req' = [req EXCEPT ![r].pc = "reread", ![r].is_liked = FALSE]
        BY <3>2 DEF RemoveLike, RemoveAs
      <4>2. req'[r].pc = "reread"
        BY <1>1, <2>1, <4>1 DEF IInv, TypeOK, Request
      <4> QED
        BY <4>2
    <3> QED
      BY <3>1, <3>2
  <2>10. ~LikeRejected(r)
    BY <2>1 DEF LikeRejected, LikeFails, InTune, Mine
  <2>11. ~RefreshLike(r)
    BY <1>1, <2>1 DEF RefreshLike, Goto, InTune, Mine, LikesBy, LikesOf, IInv, TypeOK, Request
  <2>12. RereadSermon(r)
    BY <2>2, <2>3, <2>5, <2>6, <2>7, <2>8, <2>9, <2>10, <2>11 DEF Proceed
  <2>13. req[r].pc = "reread" /\ Reply(r, 200)
    BY <2>12 DEF RereadSermon, ReplyIf
  <2>14. PICK n \in Request :
            req' = [req EXCEPT ![r] = n] /\ n.code = 200 /\ n.is_liked = (req[r].is_liked /\ 200 = 200)
    BY <1>1, <2>13, ReplyRecord DEF IInv, Codes
  <2>15. req'[r] = n
    BY <1>1, <2>14 DEF IInv, TypeOK
  <2>16. /\ req[r].is_liked = TRUE <=> lone[r] = "unliked"
         /\ req[r].is_liked = TRUE <=> Mine(r) # {}
    BY <2>1, <2>13 DEF InTune
  <2>17. req[r].is_liked \in BOOLEAN
    BY <2>1 DEF Request
  <2> QED
    BY <2>14, <2>15, <2>16, <2>17
<1>2. IInv /\ [Next]_vars => [\A r \in Requests : Truly(r)]_vars
  BY <1>1
<1> QED
  BY Invariance, <1>2, PTL DEF Spec, LoneToggle
=============================================================================
