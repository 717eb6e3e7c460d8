------------------------- MODULE LiveConversations -------------------------
(***************************************************************************)
(* The live side of the messaging service: the WebSocket handlers of       *)
(* src/app/main.py (websocket_root) over the tables in memory of one        *)
(* MessageWebSocketManager.  A handler gives way only where it really waits *)
(* for its peer: sending to a socket, or receiving from its own.  What lies *)
(* between two such points is one action.                                   *)
(***************************************************************************)
EXTENDS Naturals

CONSTANTS
    Clients,        \* connections; each has a user id of its own (uuid4)
    Members,        \* users of the database that are in a group, without a socket
    Posts,          \* HTTP requests that broadcast, such as POST /messages
    Conversations,  \* conversation ids
    MaxMessages,    \* bound on the messages and the requests that are broadcast
    NoUser          \* nobody

ASSUME MessagesAssumption == MaxMessages \in Nat
ASSUME ConversationsAssumption == Conversations # {}
ASSUME ApartAssumption == /\ Clients \intersect Members = {}
                          /\ Clients \intersect Posts = {}
                          /\ NoUser \notin Clients \union Members

VARIABLES
    peer,                 \* the client's side: "away", then "open", then "gone"
    app_closed,           \* sockets whose application_state is DISCONNECTED
    client_disconnected,  \* sockets whose client_state is DISCONNECTED
    active_connections,   \* users that have a socket in the manager
    connection_active,    \* users whose flag is set
    user_conversations,   \* user_conversations[u]
    conversation_users,   \* conversation_users[v]; no entry and no user are one
    exists,               \* conversations that are in the database
    msgs,                 \* messages and requests received so far
    hdl                   \* hdl[a]: where a handler is

sockets == <<peer, app_closed, client_disconnected, msgs>>
tables == <<active_connections, connection_active, user_conversations, conversation_users>>
vars == <<sockets, tables, exists, hdl>>

Users == Clients \union Members
Actors == Clients \union Posts

\* stage: what is broadcast; left: the users the broadcast has still to visit;
\* at: the one it is sending to; broken: the set it walks has grown; attached:
\* that set is still the one of the conversation; owed: those of the live users
\* it began with that it has not been sent to (history, for the properties only).
Handler == [pc : {"idle", "welcome", "receive", "sending", "confirm", "reply", "spin", "done"},
            room : Conversations, stage : {"none", "message", "notice", "presence", "post"},
            exclude : Clients \union {NoUser}, left : SUBSET Clients,
            at : Clients \union {NoUser}, broken : BOOLEAN, attached : BOOLEAN,
            owed : SUBSET Clients]

\* A handler in "spin" calls receive_json, which fails at once, again and again
\* without waiting for anything: no other coroutine of the process runs.
LoopFree == \A c \in Clients : hdl[c].pc # "spin"

\* Back at the top of the loop: receive_json fails on a socket closed on this side.
LoopBack(closed) == IF closed THEN "spin" ELSE "receive"

-----------------------------------------------------------------------------
(* MessageWebSocketManager.broadcast_to_conversation, send_to_user *)

\* Whom a broadcast still sends to.  A user that is not one of them now will
\* never be again, so the order in which they are passed over is immaterial.
Targets(h) ==
    {u \in h.left \ {h.exclude} : /\ u \in active_connections /\ u \in connection_active
                                  /\ u \notin client_disconnected \union app_closed}

\* A broadcast is over: all of it, or cut short by "Set changed size during
\* iteration", which the handler of a message catches before the confirmation.
EndedAt(h, pc) ==
    [h EXCEPT !.pc = pc, !.stage = "none", !.exclude = NoUser, !.left = {}, !.at = NoUser,
              !.broken = FALSE, !.attached = FALSE, !.owed = IF pc = "confirm" THEN h.owed ELSE {}]

Ended(h, whole, closed) ==
    EndedAt(h, CASE h.stage \in {"presence", "post"} -> "done"
                 [] h.stage = "message" /\ whole /\ ~closed -> "confirm"
                 [] OTHER -> LoopBack(closed))

\* Mutant: the first user that cannot be sent to ends the broadcast.
OnwardStops(h, closed) ==
    IF Targets(h) # h.left \ {h.exclude} \/ Targets(h) = {} THEN {Ended(h, TRUE, closed)}
    ELSE {[h EXCEPT !.pc = "sending", !.at = u, !.left = Targets(h) \ {u}] : u \in Targets(h)}

Onward(h, closed) ==
    IF Targets(h) = {} THEN {Ended(h, TRUE, closed)}
    ELSE {[h EXCEPT !.pc = "sending", !.at = u, !.left = Targets(h) \ {u}] : u \in Targets(h)}

\* What passing over users does: the flag of a disconnected socket is cleared,
\* and a socket that is closed on this side fails at once and is removed.
PassOver(h, failed) ==
    LET passed == {u \in h.left \ {h.exclude} : u \in active_connections \intersect connection_active}
        removed == failed \union ((passed \intersect app_closed) \ client_disconnected)
    IN  /\ active_connections' = active_connections \ removed
        /\ connection_active' = connection_active \ (removed \union (passed \intersect client_disconnected))
        /\ UNCHANGED <<user_conversations, conversation_users>>

\* The first stretch of a broadcast, up to its first send.
Broadcast(a, v, stage, exclude, closed) ==
    LET users == conversation_users[v]
        h == [hdl[a] EXCEPT !.room = v, !.stage = stage, !.exclude = exclude, !.left = users,
                            !.broken = FALSE, !.attached = TRUE,
                            !.owed = {u \in (users \intersect Clients) \ {exclude} : peer[u] = "open"}]
    IN  /\ \E k \in Onward(h, closed) : hdl' = [hdl EXCEPT ![a] = k]
        /\ PassOver(h, {})

\* From one send of a broadcast to the next, or to its end.
Continue(a, h, closed, failed) ==
    IF h.broken
    THEN /\ hdl' = [hdl EXCEPT ![a] = Ended(h, FALSE, closed)]
         /\ PassOver([h EXCEPT !.left = {}], failed)
    ELSE /\ \E k \in Onward(h, closed) : hdl' = [hdl EXCEPT ![a] = k]
         /\ PassOver(h, failed)

SendDone(a) ==
    /\ LoopFree
    /\ hdl[a].pc = "sending"
    /\ hdl[a].at \notin app_closed
    /\ Continue(a, [hdl[a] EXCEPT !.owed = @ \ {hdl[a].at}], a \in app_closed, {})
    /\ UNCHANGED <<sockets, exists>>

\* Mutant: the cleanup after a failed send takes the sender's entry.
SendFailedDropsSender(a) ==
    /\ LoopFree
    /\ hdl[a].pc = "sending"
    /\ peer[hdl[a].at] = "gone"
    /\ app_closed' = app_closed \union {hdl[a].at}
    /\ Continue(a, hdl[a], a \in app_closed', {a})
    /\ UNCHANGED <<peer, client_disconnected, msgs, exists>>

\* Mutant: a send that fails ends the broadcast.
SendFailedEnds(a) ==
    /\ LoopFree
    /\ hdl[a].pc = "sending"
    /\ peer[hdl[a].at] = "gone"
    /\ app_closed' = app_closed \union {hdl[a].at}
    /\ Continue(a, [hdl[a] EXCEPT !.broken = TRUE], a \in app_closed', {hdl[a].at})
    /\ UNCHANGED <<peer, client_disconnected, msgs, exists>>

SendFailed(a) ==
    /\ LoopFree
    /\ hdl[a].pc = "sending"
    /\ peer[hdl[a].at] = "gone"
    /\ app_closed' = app_closed \union {hdl[a].at}
    /\ Continue(a, hdl[a], a \in app_closed', {hdl[a].at})
    /\ UNCHANGED <<peer, client_disconnected, msgs, exists>>

-----------------------------------------------------------------------------
(* websocket_root *)

\* The connection is accepted, and the welcome message on its way.
Accept(c, v) ==
    /\ LoopFree
    /\ peer[c] = "away"
    /\ peer' = [peer EXCEPT ![c] = "open"]
    /\ hdl' = [hdl EXCEPT ![c].pc = "welcome", ![c].room = v]
    /\ UNCHANGED <<app_closed, client_disconnected, msgs, tables, exists>>

WelcomeFails(c) ==
    /\ LoopFree
    /\ hdl[c].pc = "welcome"
    /\ peer[c] = "gone"
    /\ app_closed' = app_closed \union {c}
    /\ hdl' = [hdl EXCEPT ![c].pc = "done"]
    /\ UNCHANGED <<peer, client_disconnected, msgs, tables, exists>>

\* MessageWebSocketManager.connect: every broadcast that walks the set of the
\* conversation at this moment finds it grown.
Connect(c) ==
    /\ LoopFree
    /\ hdl[c].pc = "welcome"
    /\ LET v == hdl[c].room IN
       /\ active_connections' = active_connections \union {c}
       /\ connection_active' = connection_active \union {c}
       /\ user_conversations' = [user_conversations EXCEPT ![c] = @ \union {v}]
       /\ conversation_users' = [conversation_users EXCEPT ![v] = @ \union {c}]
       /\ hdl' = [a \in Actors |->
                    IF a = c THEN [hdl[c] EXCEPT !.pc = "receive"]
                    ELSE IF hdl[a].pc = "sending" /\ hdl[a].room = v /\ hdl[a].attached
                         THEN [hdl[a] EXCEPT !.broken = TRUE] ELSE hdl[a]]
    /\ UNCHANGED <<sockets, exists>>

\* receive_json returns: what a client has sent before it left is still read.
Received(c) ==
    /\ LoopFree
    /\ hdl[c].pc = "receive"
    /\ msgs < MaxMessages
    /\ msgs' = msgs + 1
    /\ UNCHANGED <<peer, app_closed, client_disconnected, exists>>

ReceiveMessage(c) ==
    /\ Received(c)
    /\ Broadcast(c, hdl[c].room, "message", c, c \in app_closed)

\* A typing indicator, or a read receipt, which excludes whom it names as reader.
ReceiveNotice(c) ==
    /\ Received(c)
    /\ \E exclude \in Clients \union {NoUser} :
          Broadcast(c, hdl[c].room, "notice", exclude, c \in app_closed)

\* A ping, or a type the handler does not know: answered to the client alone.
ReceivePing(c) ==
    /\ Received(c)
    /\ hdl' = [hdl EXCEPT ![c].pc = IF c \in app_closed THEN "spin" ELSE "reply"]
    /\ UNCHANGED tables

ReplySent(c) ==
    /\ LoopFree
    /\ hdl[c].pc \in {"confirm", "reply"}
    /\ hdl' = [hdl EXCEPT ![c].pc = LoopBack(c \in app_closed), ![c].owed = {}]
    /\ UNCHANGED <<sockets, tables, exists>>

\* The confirmation of a message cannot be sent: WebSocketDisconnect is caught
\* as an error of the broadcast, and the loop goes on.
ConfirmFails(c) ==
    /\ LoopFree
    /\ hdl[c].pc = "confirm"
    /\ peer[c] = "gone"
    /\ app_closed' = app_closed \union {c}
    /\ hdl' = [hdl EXCEPT ![c].pc = "spin", ![c].owed = {}]
    /\ UNCHANGED <<peer, client_disconnected, msgs, tables, exists>>

\* disconnect is called and its coroutine never awaited, so it does nothing;
\* the others are told that the user is offline, and the handler ends.
Goodbye(c, closed) == Broadcast(c, hdl[c].room, "presence", c, closed)

ReplyFails(c) ==
    /\ LoopFree
    /\ hdl[c].pc = "reply"
    /\ peer[c] = "gone"
    /\ app_closed' = app_closed \union {c}
    /\ Goodbye(c, TRUE)
    /\ UNCHANGED <<peer, client_disconnected, msgs, exists>>

Leave(c) ==
    /\ LoopFree
    /\ hdl[c].pc = "receive"
    /\ peer[c] = "gone"
    /\ client_disconnected' = client_disconnected \union {c}
    /\ Goodbye(c, c \in app_closed)
    /\ UNCHANGED <<peer, app_closed, msgs, exists>>

-----------------------------------------------------------------------------
(* The network and the HTTP side of the service *)

Drop(c) ==
    /\ peer[c] = "open"
    /\ peer' = [peer EXCEPT ![c] = "gone"]
    /\ UNCHANGED <<app_closed, client_disconnected, msgs, tables, exists, hdl>>

\* A request has stored its message and broadcasts it; the user it excludes has
\* no socket, and the conversation may have been deleted since.
Post(p, v) ==
    /\ LoopFree
    /\ hdl[p].pc = "idle"
    /\ msgs < MaxMessages
    /\ msgs' = msgs + 1
    /\ Broadcast(p, v, "post", NoUser, FALSE)
    /\ UNCHANGED <<peer, app_closed, client_disconnected, exists>>

\* create_group_conversation: register_conversation under an id nobody knows yet.
CreateGroup(v, users) ==
    /\ LoopFree
    /\ v \notin exists
    /\ \A a \in Actors : hdl[a].pc # "idle" => hdl[a].room # v
    /\ exists' = exists \union {v}
    /\ conversation_users' = [conversation_users EXCEPT ![v] = @ \union users]
    /\ user_conversations' = [u \in Users |-> user_conversations[u]
                                \union (IF u \in users THEN {v} ELSE {})]
    /\ UNCHANGED <<sockets, active_connections, connection_active, hdl>>

Detach(v) ==
    hdl' = [a \in Actors |-> IF hdl[a].room = v THEN [hdl[a] EXCEPT !.attached = FALSE] ELSE hdl[a]]

\* Mutant: the users of a deleted conversation are left with it.
DeleteOneWay(v) ==
    /\ LoopFree
    /\ v \in exists
    /\ exists' = exists \ {v}
    /\ conversation_users' = [conversation_users EXCEPT ![v] = {}]
    /\ Detach(v)
    /\ UNCHANGED <<sockets, active_connections, connection_active, user_conversations>>

\* _hard_delete_conversation: unregister_conversation.  A running broadcast goes
\* on walking the set, to which nobody can be added any more.
DeleteConversation(v) ==
    /\ LoopFree
    /\ v \in exists
    /\ exists' = exists \ {v}
    /\ conversation_users' = [conversation_users EXCEPT ![v] = {}]
    /\ user_conversations' = [u \in Users |->
                                IF u \in conversation_users[v] THEN user_conversations[u] \ {v}
                                ELSE user_conversations[u]]
    /\ Detach(v)
    /\ UNCHANGED <<sockets, active_connections, connection_active>>

-----------------------------------------------------------------------------
Init ==
    /\ peer = [c \in Clients |-> "away"]
    /\ app_closed = {} /\ client_disconnected = {}
    /\ active_connections = {} /\ connection_active = {}
    /\ user_conversations = [u \in Users |-> {}]
    /\ conversation_users = [v \in Conversations |-> {}]
    /\ exists \in SUBSET Conversations
    /\ msgs = 0
    /\ hdl \in [Actors -> [pc : {"idle"}, room : {CHOOSE v \in Conversations : TRUE},
                           stage : {"none"}, exclude : {NoUser}, left : {{}}, at : {NoUser},
                           broken : {FALSE}, attached : {FALSE}, owed : {{}}]]

Broadcasting(a) == SendDone(a) \/ SendFailed(a)

Serving(c) ==
    \/ WelcomeFails(c) \/ Connect(c) \/ ReplySent(c) \/ ConfirmFails(c)
    \/ ReplyFails(c) \/ Leave(c)

Outside ==
    \/ \E c \in Clients : Drop(c) \/ ReceiveMessage(c) \/ ReceiveNotice(c) \/ ReceivePing(c)
    \/ \E v \in Conversations :
          \/ \E c \in Clients : Accept(c, v)
          \/ \E p \in Posts : Post(p, v)
          \/ CreateGroup(v, Members)
          \/ DeleteConversation(v)

Next ==
    \/ Outside
    \/ \E c \in Clients : Serving(c)
    \/ \E a \in Actors : Broadcasting(a)

Spec == Init /\ [][Next]_vars

\* Every wait of a handler ends: a send returns or fails (the server closes a
\* peer that answers no ping), and receive returns once the peer is gone.
FairSpec ==
    /\ Spec
    /\ \A c \in Clients : WF_vars(Serving(c))
    /\ \A a \in Actors : WF_vars(Broadcasting(a))

-----------------------------------------------------------------------------
TypeOK ==
    /\ peer \in [Clients -> {"away", "open", "gone"}]
    /\ app_closed \subseteq Clients /\ client_disconnected \subseteq Clients
    /\ active_connections \subseteq Clients /\ connection_active \subseteq Clients
    /\ user_conversations \in [Users -> SUBSET Conversations]
    /\ conversation_users \in [Conversations -> SUBSET Users]
    /\ exists \subseteq Conversations
    /\ msgs \in 0 .. MaxMessages
    /\ hdl \in [Actors -> Handler]

\* "Maintenir les mappages bidirectionnels": whatever joins, leaves and deletions
\* come together, the two mappings of the manager say the same.
TwoWays ==
    \A u \in Users, v \in Conversations :
       u \in conversation_users[v] <=> v \in user_conversations[u]

\* What the tables of the manager keep through every failure in between.
TablesOK == TypeOK /\ TwoWays

\* A connected client whose peer is there never loses its socket in the manager,
\* nor its flag, to the cleanup after somebody else's failure.
LiveStaysListed ==
    \A c \in Clients :
       peer[c] = "open" /\ hdl[c].pc \notin {"idle", "welcome"}
       => c \in active_connections \intersect connection_active

\* A client whose message is confirmed may believe it: everybody who was
\* connected to the conversation when the broadcast began has been sent it, or
\* has left, whoever joined and whatever was deleted meanwhile.
ConfirmedIsDelivered ==
    \A c \in Clients :
       hdl[c].pc = "confirm"
       => \A d \in hdl[c].owed : peer[d] = "gone"

\* "In case of a serious error, exit the loop to avoid infinite loops": the
\* handler of a client that is gone ends.
LoopEnds == \A c \in Clients : peer[c] = "gone" ~> hdl[c].pc = "done"

\* "Broadcast a message to all users in a conversation": when a broadcast of any kind
\* ends, all the live users it began with have been sent it or are gone, unless
\* somebody joined the conversation meanwhile, which cuts it short.
ReachesAllUnlessGrown ==
    [][\A a \in Actors :
          hdl[a].pc = "sending" /\ hdl'[a].pc # "sending" /\ ~hdl[a].broken
          => \A d \in hdl[a].owed \ {hdl[a].at} : peer[d] = "gone"]_vars
=============================================================================
