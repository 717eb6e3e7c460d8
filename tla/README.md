# Faith Social in TLA+

Specifications of the parts of this repository (`faith_api`) that carry its own
logic: the social module *Faith Social* (friends, private messages, questions,
sermons, roles), both sides of the messaging plugin (WebSocket and HTTP), and
what all requests share, the event loop and the two pools of database
connections. TLC checks them on small instances; TLAPS proves the safety and the
action properties of every module for all of its instances.

    tlc  -config FriendRequests.cfg MCFriendRequests     # any run: X.cfg with its MC module
    tlapm FriendRequestsProofs.tla                       # the proofs: any XProofs.tla

## 1. The system

A FastAPI application (`src/app/main.py`), one process with one asyncio event
loop, in front of one PostgreSQL database. `main.py` mounts the routers of the
social module and of about thirty framework plugins.

### Components, their state and their operations

| component | state | operations | hard behaviours | here |
|---|---|---|---|---|
| friends (`faith_service.py` 390-453, `CRUDFriendship`) | `faith_friendships` | ask, accept/reject, list | check-then-insert, load-then-update, a constraint that covers one direction only | `FriendRequests`, `FriendGraph` |
| private messages (455-521, `CRUDMessage`) | `faith_messages` | send, open a thread (marks it as read), list | the thread is selected twice; `sent_at` is older than the commit | `PrivateMessages` |
| questions (276-388, `CRUDQuestion`, `CRUDAnswer`) | `faith_questions`, `faith_answers` | post, edit, delete, answer, delete an answer | answer and mark are two transactions; cascade over a loaded collection | `QuestionAnswers` |
| sermons (107-221, `CRUDSermon*`) | `faith_sermons`, likes, comments | publish, edit, delete, toggle a like, comment | a toggle of three statements; stale collections; failure after the commit | `SermonLikes` |
| administration (525-580) with `update_user`, `delete_user` of advanced_auth | `user.role_id` | change a role, edit and delete an account | an UPDATE skipped because of what was loaded; the account is gone | `AdminRoles` |
| live conversations (`main.py` 99-304, `websocket_manager.py`) | four dictionaries in memory, the states of the sockets | connect, receive, broadcast, leave; register and unregister | sets that change under an iteration that awaits; cleanup after a failed send; a loop that does not yield | `LiveConversations` |
| messaging service, HTTP side (`conversation_service.py`, `message_service.py` and their routes) | conversations, settings (the membership), messages, receipts | open or create, add, leave, delete, post, read, list | find-or-create over soft deletion, two rows of one user, hard deletion against foreign keys, failure after the commit | `MessagingService` |
| sessions and pools (`core/db.py`, `get_current_user`) | the connections of two engines, the event loop | every request, from its first dependency to its last exit | a query that blocks the loop, connections kept until the exit, refresh after commit, timeouts | `SyncSessions` |
| testimonies | `faith_testimonies` | post, edit, delete | those of a sermon without likes | not modelled: `SermonLikes` shows it |
| accounts and tokens (advanced_auth) | users, tokens | login, refresh, logout | reuse of a token after its logout | planned |
| rate limit (`core/rate_limit.py`) | a counter per client in memory | count | window boundary; nothing is awaited between read and write | planned as a pure algorithm |
| start-up, seeding, configuration | the tables | once, before the first request | none | not modelled |
| the other plugins | their own tables | CRUD, providers, metrics | none that is the application's own | not modelled, see below |

How they interact: the parts of the social module share the user table (foreign
keys) and nothing else; a handler touches the tables of its own part. The
messaging plugin's HTTP handlers call the WebSocket manager in memory directly.
Every request of either asks `get_current_user` first, whose query runs on a
synchronous session inside the event loop.
No background worker touches the tables of the social module.

### What cannot be reached

Reading the plugins from their routes inward showed code that no request can
run; modelling it would say nothing about the program.

- payments and refunds: the routes pass keyword arguments the service functions
  do not take and fail before the first statement; the approval workflow is
  called only from there;
- workflow: its routes index a user object and use a class they do not import;
- offline_sync: `on_startup` is never awaited and `_register_routes` never
  called, so its router has none of its routes;
- push_notifications: the scheduled set is written and nobody reads it;
- messaging_service: `/ws/{id}` and `/ws-direct` accept a socket twice,
  `/ws-user` imports a missing module, `/ws-root/global` is shadowed by
  `/ws-root/{conversation_id}`; only the latter works, and
  `NotificationHandler` never gets its manager;
- `ws_server.py` fails on import.

The remaining plugins (audit, i18n, logging, scheduler, ai_integration,
api_gateway, api_versioning, alerts, data_exchange, signatures, storage, kyc,
matomo, messaging providers, monitoring, privacy, pwa, recommendation, security,
subscriptions, analytics, webhooks) are framework code, mostly single statements
over their own tables or calls to services outside; none is modelled.

## 2. How the code is turned into actions

**Handlers of the social module.** A request occupies a slot of `Requests`;
`req[r]` is where its handler is (`pc`) and what its session and its local
variables hold. Slots are used again, so a run covers long sequences of
requests, of which as many overlap as there are slots. Coroutines give way at
`await` only, so what lies between two awaits of the database is one action. An
`Arrive(r)` action is a request that comes in, `Proceed(r)` the rest.
`code` is 0 until the reply, then its HTTP status. An action that raises
(`IntegrityError`, `StaleDataError`, a refresh without a row) is the 500 the
client sees, and the transaction is rolled back.

**Database and session** (PostgreSQL under SQLAlchemy, `src/app/core/db.py`;
modelled from how the code uses them):

- READ COMMITTED: a statement sees what is committed when it runs;
- a commit is atomic; a constraint that fails leaves nothing of it;
- the flush and the commit of one `await db.commit()` are one step. The time a
  statement waits for a row lock is not a step of its own: the lock only delays
  the later of two commits, which is one of the orders explored;
- `expire_on_commit=False` (db.py:25): objects and collections of a session stay
  as they were first loaded; a later SELECT does not renew them, `refresh` does,
  and fails if the row is gone;
- an UPDATE carries the columns whose value differs from the one loaded: none,
  no UPDATE; an UPDATE of a row that is gone fails, a DELETE of one does not;
- a session cascade deletes the objects in the loaded collection, and those only;
- `now()` in a default is the time the transaction began.

**Handlers that use a synchronous session** (`update_user`, `delete_user`,
group creation and deletion) block the loop from beginning to end: one action.

The handlers of conversations and messages do too: they are coroutines that wait
for nothing before their last commit. `send_to_user` is given ids that no live
client is registered under and returns without suspending.

**Loop and pools.** In `SyncSessions` a request is what it holds: `sync` and
`async` are the connections out of `engine` and `async_engine`, `loop` the
request whose synchronous query has the event loop in its hands (`NoRequest`
when callbacks run). Steps of a thread, or of the code that holds up the loop,
need nothing else; the rest needs `LoopFree`. From the libraries (FastAPI 0.115,
SQLAlchemy 2.0, modelled from how the code uses them): exits of dependencies run
in the reverse of their order of entry, those of plain generators in a thread;
a session takes a connection with its first statement and gives it back with
commit or close; both pools have the default 5 + 10 connections and give up
after 30 seconds.

**WebSocket handlers** run between two points at which they really wait for a
peer: sending, or receiving from their own client. A dictionary operation never
yields. Starlette's socket is two sets: a send that fails sets
`application_state` (`app_closed`), a disconnect that was received sets
`client_state` (`client_disconnected`). The first makes `receive_json` fail at
once (`LoopBack`), the second is what `send_to_user` looks at.

Ids are model values, texts are left out, and keys are never used again (uuid4).
In `MessagingService` ids of messages are numbers in the order of `created_at`;
a refused request (400, 403, 404) changes nothing and is not a step. A request may
be answered by 500 after it has committed (`AfterCommit`): the queries that follow
a commit ask the pool for a connection again, and the broadcast at the end of
`POST .../read` is cut short by a client that connects (`LiveConversations`). The
tables are then what they are after a success, and `answer` tells the two apart.
History variables (`held`, `answered`, `cut`, `before`, `lone`, the field `owed`)
serve the properties and guard nothing.

## 3. Modules

| module | models | variables and the code behind them |
|---|---|---|
| `FriendGraph` | abstract: what the module promises of friendships | `rel[<<a, b>>]`: none, pending, accepted, rejected |
| `FriendRequests` | `send_friend_request`, `respond_friend_request`, `CRUDFriendship` | `friendship`: the table; `req` |
| `PrivateMessages` | `send_message`, `get_conversation` with `mark_read` | `message`: the table; `now`: the database clock; `before[m]`: what was visible as `m` was begun |
| `QuestionAnswers` | posting, editing, deleting, answering, and `Restart` of the process | `question`, `answer`: the tables; `answered`, `cut`: history |
| `SermonLikes` | sermons, `toggle_sermon_like`, comments | `sermon`, `like`, `comment`: the tables; `lone`: toggles nobody interfered with |
| `MessagingService` | conversations, members, messages and receipts: one action per route | `kind`: the type of a conversation row; `settings`, `message`, `receipt`: tables; `last`: messages so far; `answer`: the last request where a property looks at it |
| `SyncSessions` | `get_db`, `get_async_db`, `get_current_user` and three kinds of handlers | `req`; `sync`, `async`: who holds a connection; `loop` |
| `AdminRoles` | `admin_change_user_role`, `update_user`, `delete_user` | `role`: `user.role_id` by name; `held`: roles in force during a request |
| `LiveConversations` | `websocket_root`, `MessageWebSocketManager` and its HTTP callers | the four dictionaries under their own names, the two socket states, `hdl`: the handlers |
| `...Proofs` | the theorems of the module so called, one for each of the eight above that has states of its own (`FriendGraph` is proved of by `FriendRequestsProofs`) | |

Each `MC...` module only instantiates its module and defines the symmetry of its
run. `LiveConversations` composes the handlers of the clients, the manager's
tables and the HTTP side in one module since they share every variable; the
modules of the social part share none and are not composed. `SyncSessions`
abstracts every handler to the connections it holds; the other modules take for
granted what it shows, that a wait for a connection ends.

Definitions called `...Unchecked`, `...OneWay` and the like, marked
"Mutant" in their comment, are faulty variants of the definition next to them:
no specification uses them; put in its place, each breaks the property
`PROJECT.json` pairs it with.

## 4. Runs

Invariants that concern the same tables are checked under one name: `TablesOK`
is the type invariant with what the foreign keys, or the two mappings of the
manager, promise (`NoOrphan`, `TwoWays`); `ThreadOrder`, `MarksAgree`, `RolesOK`
and `DirectOK` are conjunctions of named parts too, and `IInv` of
`FriendRequests` contains its type invariant, `DirectedUnique` and
`AnsweredStaysAnswered`. The table says what each run shows.

Deadlock is checked where requests can always come in; the clients of
`LiveConversations` are finitely many and never come back under their old id, so
that system does end (`CHECK_DEADLOCK FALSE`).

| run | bounds | what it shows |
|---|---|---|
| `friend_requests` | 2 users, 1 unknown id, 2 slots, 2 rows | in every interleaving: directed uniqueness, a request ends with the two related whatever its reply, an answered request stays answered and by its addressee, no row beside a relation known at the start; the handlers implement `FriendGraph`; every request is answered |
| `private_messages` | 2 users, 1 unknown id, 2 slots, 2 messages, clock 0..1 | a returned thread is read; threads grow at their end unless sends overlap; the reply to a sender is never older than his message; only the receiver's own visit marks; opening a thread gets it read |
| `question_answers` | 2 users, 2 slots, 1 question, 2 answers, restarts | no orphan; an answered question is marked, or is about to be, or was cut off by a restart; marks are kept and never precede an answer; removals are authorised and never take an unseen answer |
| `sermon_likes` | 2 users, 2 slots, 1 sermon, 3 likes, 1 comment | one like per user; no orphan; a 500 leaves nothing behind; a toggle without interference inverts and tells the truth; removals are authorised |
| `admin_roles` | 2 users, 1 unknown, 2 roles, 1 unknown role, 2 slots | an acknowledged role was in force during the request, though the UPDATE may be skipped; a deleted account stays deleted |
| `live_conversations` | 3 clients, 1 member, 1 HTTP broadcast, 1 conversation, 1 client message or request | the two mappings agree; a live client is never unlisted by another's failure; a confirmed message was sent to everybody who was there; a broadcast passes somebody over only because another connected to the conversation meanwhile |
| `messaging_service` | 2 users, 2 conversations, 2 messages, 1 of them with receipts, 2 rows in a new group | nothing survives what it belongs to; two users have one direct conversation and one of them sees it; a group keeps an administrator; a view comes back by one's own request; receipts never go back; what is marked as read is no longer counted as unread; a request is done completely or not at all, also where the error comes after its commit |
| `sync_sessions` | 3 requests of 3 kinds, 2 connections per pool, slots used again | connections come back; a request fails only in excess load; a frozen loop goes on by the timeout alone; the two pools do not block each other; every request is answered |

Why these bounds are enough for the questions: every hazard listed of the social
module is a race of two handlers over one row or one pair of rows, and the tables have one more row
than a handler writes; `sermon_likes` has three like ids so that a like can be
given, taken and given again while another request holds the first one.
`live_conversations` needs three clients: one that sends, one that is being sent
to, one that joins, is gone, or is still to be sent to; departures broadcast
too and are not counted in `MaxMessages`, so several broadcasts overlap with one
message. `messaging_service` needs a second conversation for a reply across two
(which blocks a deletion) and for a second creation; two users give all cases of
"own" and "other" and, with a creator who lists himself, of two rows; the second
message is the reply, the system message or the one without receipts.
`sync_sessions` has one request more than connections: one that waits and two
that hold, which is every configuration the properties tell apart (the theorems
of section 6 remove the bound). Symmetry is used where only safety is checked and nothing orders the
values (slots, ids, clients).

Four runs show where the code and its own comments part (each an expected
violation):

| run | property | disagreement |
|---|---|---|
| `friend_requests_one_relation` | `OneRelationPerPair` | two users who ask each other at once get two relations; `get_between` (`crud_faith.py:288`) and the 409 of `faith_service.py:412` take it there is one |
| `private_messages_read_unseen` | `ReadWasReturned` | `faith_service.py:518`: a message can be marked as read without having been returned |
| `live_conversations_loop` | `LoopEnds` | `main.py:283` "exit the loop to avoid infinite loops": it does not, and holds the event loop for ever |
| `messaging_service_sender_status` | `SenderSeesRecipients` | `message_service.py:532` "the most advanced status among recipients": the sender's own receipt counts too, and marking the conversation as read makes him see his message as read |

Others were seen while modelling and have no run, as one request shows each, or
a property that holds already says how far the code goes:

- `disconnect` is called without `await` at its four places in `main.py` (262,
  287, 294, 302) and does nothing;
- the session of `toggle_sermon_like` keeps the likes it loaded first
  (`expire_on_commit=False`), so `like_count` (`faith_service.py:175`) is that
  from before the toggle; the reply of `admin_change_user_role` names the role
  from before the change for the same reason (576);
- `send_message` returns the last message of the thread (479), which may be one
  that came in meanwhile: `ReplyNotOlder`, a part of `ThreadOrder`, is
  what is left;
- a client that connects during a broadcast ends it, as the iteration runs over
  the set that grows (`websocket_manager.py:251`): `ReachesAllUnlessGrown`;
- `respond_friend_request` accepts an answer to a request that was answered
  already, which `FriendGraph` allows since nothing says otherwise;
- `update_message` compares a string with a UUID and always answers 403;
  `POST .../messages/status` uses names it does not import; `POST .../read`
  fails as soon as somebody else's message has no receipt of the user;
- a 500 may come after the commit: the view of a conversation that has a message
  cannot be built; `refresh` after a commit of a synchronous session asks for a
  connection again and may time out; the broadcast that `POST .../read` awaits
  (`conversation_service.py:1421`) raises when a client connects meanwhile.
  `AllOrNothing` says what is left of the promise: such a request has been done
  completely.

## 5. Fairness

`FairSpec` of `FriendRequests` and `PrivateMessages` is weak fairness of
`Proceed(r)`: the event loop resumes every coroutine whose await has returned,
and the database answers every statement; no handler waits for another one.
Nothing obliges a client to send a request (`Arrive` is not fair). `FairSpec` of
`LiveConversations` is weak fairness of each handler's steps: a send returns or
fails, since the server closes a peer that answers no ping, and `receive`
returns once the peer is gone. Clients need not send, leave, or stay. A handler
in `spin` disables every step but that of the network: it never suspends, so
nothing else runs. `FairSpec` of `SyncSessions` is weak fairness of `Running(r)`
(the operating system runs every thread, and the code that holds up the loop)
and strong fairness of `Scheduled(r)`: asyncio runs its callbacks in the order in
which they became ready, so one that is ready whenever the loop is free gets its
turn though the loop is held up again and again in between. The timeout is part
of `Running`: a wait for a connection ends one way or the other.

## 6. Proofs

`FriendRequestsProofs` proves, for any sets of users, slots and rows, from the
two assumptions that `NoRow` is no row and `NoId` no id:

| theorem | says |
|---|---|
| `Invariance` | `Spec => []IInv` |
| `TypeCorrect` | type correctness: no row names a user without an account |
| `DirectionsUnique` | one row per direction, none to oneself |
| `SendsEndRelated` | a request between real users leaves them related, also on 409 and 500 |
| `AnswersStay` | an acknowledged answer is never pending again |
| `AddresseeAnswers` | only the addressee's answer in flight changes a row |
| `NoDoubleOfTheKnown` | a double relation needs two requests that overlap |
| `Refinement` | `FriendRequests` implements `FriendGraph` |

The properties are not inductive alone: an INSERT that fails may only reply 500
because the other row is still there, an UPDATE may only be skipped because the
loaded status is still answered. `IInv` adds what a handler may rely on after
each await (`InHand`) and which rows it had seen to be absent (`Known`). The
argument is one of stability: no step removes a row or changes its two users,
and an answered row stays answered (`RowsKept`), so what the other requests hold
survives (`OthersInHand`), and each action has to be shown right for its own
request only (`ReadOnlyStep`, `WritingStep`, then a lemma per action). The
action properties and the refinement follow from `IInv` and from the effects of
the two steps that write (`OnlyTwoStepsWrite`). The run `friend_requests` checks
`IInv`, and with it every invariant of this table.

`MessagingServiceProofs` proves, for any users, conversations and bounds:

| theorem | says |
|---|---|
| `Invariance` | `Spec => []IInv` |
| `TablesKept` | types, and no row without the conversation or message it refers to |
| `AdminNeverGone` | a group has an administrator as long as it exists |
| `OneDirectSeen` | two users have at most one direct conversation, with both its rows, and one of them sees it |
| `ReadingClears` | a successful `POST .../read` leaves unread only what the user has two receipts of |
| `ForwardOnly` | no receipt goes back, nor away before its message |
| `BackByOwn` | a conversation comes back to a view by a request of its user only |
| `NothingHalfDone` | a request that is answered with success, or has changed a table whatever its answer, is done completely |

Thirteen actions make only a handful of changes: a row turns (is deleted from a
view, or comes back), a direct conversation or a group opens, somebody joins or
leaves; a message is posted, receipts are marked; or all of a conversation
vanishes. `Change` says so, `Changes` shows that every request is one of them
(one lemma per action), and each conjunct of `IInv` is kept by every change,
whichever request made it. Why `IInv` is what it is: the deletion of one view
leaves the other only because the two rows differ by their keys (`OneRowEach`)
and there is no third one (`BothRows`, which also stands for the counting in
`DirectIsSeen`); `find` and `create` keep a single conversation per pair
(`OnePerPair`) only because the users of a direct conversation never change and
a fresh conversation has no rows yet (`NoOrphan`); receipts go with their own
message only because no id is given twice (`Ids`). That handlers do not
interleave is built into the model (section 2): the theorems are about any
sequence of requests, not about requests that overlap. `ReadingClears` compares
two counts: the messages are finitely many as their ids are bounded and unique
(`MessagesFinite`), and one that is pending after it was marked has its second
receipt unmarked (`Cleared`), where receipts differ by their keys
(`OneReceiptEach`) and there are only two copies (`BothReceipts`).
`NothingHalfDone` needs `IInv` before and after the step: the row a user deletes
from his view is his only one because the other of the two is somebody else's
(`SoftDone`), and what `POST .../read` leaves pending has two receipts whatever is
answered (`ReadDone`).

`SyncSessionsProofs` proves, for any finite set of slots and any capacity of at
least one:

| theorem | says |
|---|---|
| `Invariance` | `Spec => []IInv` |
| `TypeCorrect` | no pool lends more than it has |
| `NoLeak` | a connection belongs to a request that will give it back |
| `WaitingForLeavers` | the second pool is empty only while somebody who holds one of its connections has closed his first |
| `FailuresAreExcess` | a request fails for want of a connection only while more requests are in progress than a pool has |
| `FreezeEndsInFailure` | the loop held up by a wait for what its own coroutines hold goes on by the timeout alone |

`IInv` adds to the types who holds a connection at which point of its request
(`NothingLeaks` one way, `Holders` the other) and that a coroutine
which asks for a connection or uses it has the loop (`LoopHeld`). Each action concerns one request, so `OwnStep`
and `Rows` reduce every action to a fact about its own row. The two bounds are
counting arguments over finite sets: a full pool and one more who asks are more
than `Capacity` in progress (`OneMore`); everybody in a full second pool who has
not closed his first session holds a connection of the first, and so does the
one who waits, which is one too many (`EmptiedByLeavers`).

`PrivateMessagesProofs` proves, for any users, slots, messages and clock, from the
assumptions `PrivateMessages` names:

| theorem | says |
|---|---|
| `Invariance` | `Spec => []IInv` |
| `TypeCorrect` | type correctness of the table and of the requests |
| `ReturnedIsRead` | what a returned thread shows of the messages its reader received is read |
| `ThreadsInOrder` | a thread grows at its end unless sends overlap; the reply to a sender is not older than his message |
| `ReadByItsReceiver` | a message only changes by being read, by its receiver's own visit |

`get_conversation` selects the thread twice and marks what the first SELECT had
loaded as unread, so `ShownIsRead` needs what a visitor may rely on in between:
what he holds is of this thread, and of what he received there is nothing unread
beyond what he is about to mark. It survives the others because no step removes
a message, changes its users or its `sent_at`, or takes back a mark. `Ordered`
relates each message to the clock and to what was visible as it was begun; from it
follows `ThreadOrder`, and `InHand` keeps the sender's own message in the thread
that is read for the reply.

`QuestionAnswersProofs` proves, for any users, slots and ids:

| theorem | says |
|---|---|
| `Invariance` | `Spec => []IInv` |
| `ForeignKeyHolds` | no answer outlives its question |
| `MarksAreRight` | a question is marked if it was answered, unless the mark is on its way or was cut off by a restart |
| `AcknowledgedAnswers` | an answer acknowledged with 201 leaves its question marked, or gone |
| `MarksStay` | a mark stays as long as its question |
| `AnswersRemovedRightly` | removals are authorised and never take an answer that had not been loaded |

`add_answer` skips its mark when the question it loaded was marked: that is right
only because a mark is never taken back, so `InHand` carries "what was loaded as
marked is still marked, or the question is gone" over the awaits. A deletion cannot
leave an orphan since its commit fails on the foreign key for an answer it had
not loaded. Keys are not used again, so what a request holds is the row it
loaded or no row (`Gone`); this needs the assumption that the values for "never
used" and "deleted" differ, which the module now states.

`SermonLikesProofs` proves, for any users, slots and ids:

| theorem | says |
|---|---|
| `Invariance` | `Spec => []IInv` |
| `ForeignKeysHold` | no like and no comment outlives its sermon |
| `LikedOnce` | a user likes a sermon at most once |
| `FailureLeavesNothing` | a 500 leaves no row of its request |
| `RemovedRightly` | a reaction is removed by its user, an administrator, or with its sermon by who had loaded it |
| `UndisturbedToggle` | a toggle without interference succeeds, inverts the like and tells the truth |

`InHand` says which keys a request may hold at each point of its handler and that
they are those of its own user; `InTune` is the strengthening of `LoneToggle`: at
each await of an undisturbed toggle the like is what it was when the toggle began,
or already its inverse. An interfering request ends `lone`, and a request that
does not interfere leaves the likes of this user for this sermon alone. That a 500
leaves nothing is not a matter of one action: `toggle_sermon_like` fails after its
commit only if the row it wrote, or the sermon and with it the row, has been
deleted meanwhile.

`AdminRolesProofs` proves, for any accounts, roles and slots:

| theorem | says |
|---|---|
| `Invariance` | `Spec => []IInv` |
| `ChangeTakesEffect` | an acknowledged role was in force during the request |
| `DeletedForGood` | a deleted account stays deleted |

`InHand` is about `held`, the roles in force since the user was loaded: the UPDATE
is skipped only where the loaded role, a member of `held`, is the one asked for.

`LiveConversationsProofs` proves, for any clients, posts, conversations and bound on
the messages, from the assumptions that there is a conversation, and that clients,
members and posts are different things:

| theorem | says |
|---|---|
| `Invariance` | `Spec => []IInv` |
| `MappingsAgree` | the two mappings of the manager say the same |
| `LiveClientsListed` | nobody's failure unlists a live client |
| `ConfirmationIsTrue` | a confirmed message was sent to everybody who was there, or he has left |
| `BroadcastReachesAll` | a broadcast ends early only because somebody joined |

None of the last three is inductive. `IInv` adds `SocketsOK` (only the socket of a
client that left is ever closed, and the users of a conversation have been through
`connect`) and, for each handler, `Sound`: while it sends, whoever it still owes has
left, is still to be visited, or is the one it is sending to. That a client passed
over has left (`MissedHaveLeft`) needs all three at once: a live client is listed
and flagged, and his socket is open. `OnwardIs` says where a broadcast stands after
the users it passes over and `PassOverShrinks` what that takes from the tables;
`HandlerMoves` shows once that any step of one handler which only shrinks the
tables by clients that left keeps `IInv`, and eleven actions are instances of
it. `Connect`, `Accept`, `Drop` and the two HTTP steps are shown one by one. The
theorem about broadcasts comes from `LastSend` and from `OnlySendsEnd`: no step of
another kind, or of another handler, ends a broadcast.

Every invariant and action property that a passing run checks is a theorem, and
each `IInv` was checked by TLC on the instance of its run before it was proved.
Only model-checked: liveness (`EveryRequestAnswered` of `FriendRequests` and of
`SyncSessions`, `OpenedGetsRead`), which is out of the prover's reach as it needs
`ENABLED`; and the four expected violations, which are about single behaviours.

## 7. Left out of the modules

- authentication, except in `SyncSessions`: a request comes with a user that
  exists; his rights are taken when it arrives, as `get_current_user` does;
- in `SyncSessions`, handlers that query nothing after their commit: `Commit`
  always asks for a connection again, so that a request holds one longer than some
  do;
- deletion of an account while the social module holds rows of it (the foreign
  keys would cascade or refuse) other than in `AdminRoles`;
- listings, paging and search: they read;
- contents, names, wording of errors; JSON that is no object, which changes
  nothing in the receive loop;
- a database that fails or disconnects in the middle (only `QuestionAnswers`,
  where a handler has two transactions, has a restart), and, in the modules of the
  social part, a refresh that times out for a connection: `FailedLeavesNothing` and
  `UndisturbedToggle` presuppose that there is one;
- in `AdminRoles`, superusers who delete each other, and a change of
  `is_superuser` by `update_user`;
- in `MessagingService`: `unread_count` and `last_read_message_id`, which are
  written and never read; blocks, search, forwarding, editing of conversations
  and deletion of single messages, whose routes answer 501; upload with an
  attachment (422 for every request);
- in `SyncSessions`: plugins that open a session of their own, and the WebSocket
  endpoint, which takes none.

Most lines of the repository are outside for one reason: they are framework
plugins (providers, dashboards, generated migrations) that this application
mounts without using them, or that no request can reach (section 1). Modelling
them would check statements over single tables, or code that never runs.

## 8. Plan

1. Done: all eight modules have their model, their runs and their proofs; friends
   with an abstract specification.
2. Extend: `AuthTokens` (login, refresh, logout of advanced_auth); the window of
   `core/rate_limit.py` as a function checked against a reference definition.
3. State and prove: an abstract specification of a like (a set of users per
   sermon) that `SermonLikes` implements, and one of a mark in `QuestionAnswers`;
   `IInv` already holds what the step lemmas of both would need.
