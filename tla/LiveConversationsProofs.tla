---------------------- MODULE LiveConversationsProofs ----------------------
(***************************************************************************)
(* Proofs about LiveConversations, for any number of connections, posts and *)
(* conversations, and any bound on the messages.                           *)
(***************************************************************************)
EXTENDS LiveConversations, TLAPS

Left(d) == peer[d] = "gone"

\* connect has been called for this client.
Joined(d) == hdl[d].pc \notin {"idle", "welcome"}

\* What a handler owes to the live users its broadcast began with: while it sends,
\* whoever is still owed has left, is still to be visited or is being sent to.
Sound(a) ==
    LET h == hdl[a] IN
    /\ \A d \in h.owed : Joined(d)
    /\ h.pc = "sending" =>
          h.at \in Clients /\ \A d \in h.owed : Left(d) \/ d \in h.left \ {h.exclude} \/ d = h.at
    /\ h.pc = "confirm" => \A d \in h.owed : Left(d)

\* Only a socket whose peer has left is closed, and only who joined is listed.
SocketsOK ==
    /\ \A c \in Clients : peer[c] = "away" => hdl[c].pc = "idle"
    /\ \A c \in app_closed \union client_disconnected : Left(c)
    /\ \A v \in Conversations : \A c \in conversation_users[v] \intersect Clients : Joined(c)

IInv ==
    /\ TypeOK /\ TwoWays /\ LiveStaysListed /\ SocketsOK
    /\ \A a \in Actors : Sound(a)
-----------------------------------------------------------------------------
(* What a broadcast does to its own handler *)

\* A handler that walks all the users of its conversation, those without a socket too.
Walker == [pc : {"idle", "welcome", "receive", "sending", "confirm", "reply", "spin", "done"},
           room : Conversations, stage : {"none", "message", "notice", "presence", "post"},
           exclude : Clients \union {NoUser}, left : SUBSET Users,
           at : Clients \union {NoUser}, broken : BOOLEAN, attached : BOOLEAN,
           owed : SUBSET Clients]

LEMMA HandlersWalk == \A h \in Handler : h \in Walker
BY DEF Handler, Walker, Users

LEMMA EndedAtIs ==
    ASSUME NEW h \in Walker, NEW pc \in {"confirm", "done", "spin", "receive"}
    PROVE  /\ EndedAt(h, pc) \in Handler /\ EndedAt(h, pc).pc = pc
           /\ EndedAt(h, pc).owed \subseteq h.owed
           /\ EndedAt(h, pc).owed = IF pc = "confirm" THEN h.owed ELSE {}
<1> DEFINE owed == IF pc = "confirm" THEN h.owed ELSE {}
           k == [pc |-> pc, room |-> h.room, stage |-> "none", exclude |-> NoUser, left |-> {},
                 at |-> NoUser, broken |-> FALSE, attached |-> FALSE, owed |-> owed]
<1>1. owed \in SUBSET Clients /\ owed \subseteq h.owed
  BY DEF Walker
<1>2. EndedAt(h, pc) = k
  <2>1. EndedAt(h, pc) =
          [h EXCEPT !.pc = pc, !.stage = "none", !.exclude = NoUser, !.left = {}, !.at = NoUser,
                    !.broken = FALSE, !.attached = FALSE, !.owed = owed]
    BY DEF EndedAt
  <2> HIDE DEF owed
  <2> QED
    BY <2>1 DEF Walker
<1> HIDE DEF owed
<1>3. k \in Handler /\ k.pc = pc /\ k.owed = owed
  BY <1>1 DEF Handler, Walker
<1> HIDE DEF k
<1> QED
  BY <1>1, <1>2, <1>3 DEF owed

LEMMA EndedIs ==
    ASSUME NEW h \in Walker, NEW whole \in BOOLEAN, NEW closed \in BOOLEAN,
           NEW k, k = Ended(h, whole, closed)
    PROVE  /\ k \in Handler /\ k.owed \subseteq h.owed
           /\ k.pc \in {"confirm", "done", "spin", "receive"}
           /\ k.pc = "confirm" => whole
           /\ k.pc # "confirm" => k.owed = {}
<1>1. PICK pc \in {"confirm", "done", "spin", "receive"} :
         k = EndedAt(h, pc) /\ (pc = "confirm" => whole)
  <2>1. CASE h.stage \in {"presence", "post"}
    BY <2>1 DEF Ended
  <2>2. CASE h.stage = "message" /\ whole /\ ~closed
    BY <2>2 DEF Ended
  <2>3. CASE h.stage \notin {"presence", "post"} /\ ~(h.stage = "message" /\ whole /\ ~closed)
    BY <2>3 DEF Ended, LoopBack
  <2> QED
    BY <2>1, <2>2, <2>3
<1> QED
  BY <1>1, EndedAtIs

LEMMA TargetsLive == \A h : Targets(h) \subseteq h.left \ {h.exclude}
BY DEF Targets

LEMMA TargetsAreClients == ASSUME TypeOK PROVE \A h : Targets(h) \subseteq Clients
BY DEF Targets, TypeOK

\* A client that joined and is passed over has left.
LEMMA MissedHaveLeft ==
    ASSUME IInv, NEW h \in Walker, NEW d \in Clients, Joined(d),
           d \in h.left \ {h.exclude}, d \notin Targets(h)
    PROVE  Left(d)
<1> SUFFICES ASSUME ~Left(d) PROVE FALSE
  OBVIOUS
<1>1. peer[d] = "open"
  <2>1. peer[d] \in {"away", "open", "gone"}
    BY DEF IInv, TypeOK
  <2>2. peer[d] # "away"
    BY DEF IInv, SocketsOK, Joined
  <2> QED
    BY <2>1, <2>2 DEF Left
<1>2. d \in active_connections /\ d \in connection_active
  BY <1>1 DEF IInv, LiveStaysListed, Joined
<1>3. d \notin client_disconnected \union app_closed
  BY DEF IInv, SocketsOK
<1> QED
  BY <1>2, <1>3 DEF Targets

\* Where a broadcast stands after the users it could pass over.
LEMMA OnwardIs ==
    ASSUME IInv, NEW h \in Walker, NEW closed \in BOOLEAN, NEW k \in Onward(h, closed),
           \A d \in h.owed : Joined(d) /\ (Left(d) \/ d \in h.left \ {h.exclude})
    PROVE  /\ k \in Handler /\ k.pc \notin {"idle", "welcome"}
           /\ \A d \in k.owed : Joined(d)
           /\ k.pc = "sending" =>
                 k.at \in Clients /\ \A d \in k.owed : Left(d) \/ d \in k.left \ {k.exclude} \/ d = k.at
           /\ k.pc # "sending" => \A d \in h.owed : Left(d)
           /\ k.pc = "confirm" => \A d \in k.owed : Left(d)
<1>1. \A d \in h.owed : Left(d) \/ d \in Targets(h)
  <2> SUFFICES ASSUME NEW d \in h.owed, ~Left(d), d \notin Targets(h) PROVE FALSE
    OBVIOUS
  <2>1. d \in Clients
    BY DEF Walker
  <2>2. Joined(d) /\ d \in h.left \ {h.exclude}
    OBVIOUS
  <2> QED
    BY <2>1, <2>2, MissedHaveLeft
<1>2. CASE Targets(h) = {}
  <2>1. k = Ended(h, TRUE, closed)
    BY <1>2 DEF Onward
  <2>2. /\ k \in Handler /\ k.owed \subseteq h.owed
        /\ k.pc \in {"confirm", "done", "spin", "receive"}
    BY <2>1, EndedIs
  <2>3. \A d \in h.owed : Left(d)
    BY <1>1, <1>2
  <2> QED
    BY <2>2, <2>3
<1>3. CASE Targets(h) # {}
  <2>1. PICK u \in Targets(h) :
           k = [h EXCEPT !.pc = "sending", !.at = u, !.left = Targets(h) \ {u}]
    BY <1>3 DEF Onward
  <2>2. Targets(h) \subseteq Clients /\ h.exclude \notin Targets(h)
    BY TargetsLive, TargetsAreClients DEF IInv
  <2>3. k \in Handler
    BY <2>1, <2>2 DEF Handler, Walker
  <2>4. /\ k.pc = "sending" /\ k.at = u /\ k.left = Targets(h) \ {u}
        /\ k.owed = h.owed /\ k.exclude = h.exclude
    BY <2>1 DEF Walker
  <2>5. \A d \in k.owed : Left(d) \/ d \in k.left \ {k.exclude} \/ d = k.at
    BY <2>4, <2>2, <1>1
  <2> QED
    BY <2>2, <2>3, <2>4, <2>5
<1> QED
  BY <1>2, <1>3

\* All that a send, and the users that are passed over, take from the tables.
Shrunk ==
    /\ active_connections' \subseteq active_connections
    /\ connection_active' \subseteq connection_active
    /\ \A d \in active_connections \ active_connections' : Left(d)
    /\ \A d \in connection_active \ connection_active' : Left(d)
    /\ UNCHANGED <<user_conversations, conversation_users>>

LEMMA PassOverShrinks ==
    ASSUME IInv, NEW h, NEW failed, \A d \in failed : Left(d), PassOver(h, failed)
    PROVE  Shrunk
BY DEF PassOver, Shrunk, IInv, SocketsOK

-----------------------------------------------------------------------------
(* One handler moves and nobody joins *)

LEMMA HandlerMoves ==
    ASSUME IInv, NEW a \in Actors, NEW k \in Handler,
           hdl' = [hdl EXCEPT ![a] = k], k.pc \notin {"idle", "welcome"},
           a \in Clients => Joined(a) \/ Left(a),
           UNCHANGED <<peer, exists>>, Shrunk, msgs' \in 0 .. MaxMessages,
           app_closed' \subseteq Clients, client_disconnected' \subseteq Clients,
           \A c \in app_closed' \union client_disconnected' : Left(c),
           \A d \in k.owed : Joined(d),
           k.pc = "sending" =>
              k.at \in Clients /\ \A d \in k.owed : Left(d) \/ d \in k.left \ {k.exclude} \/ d = k.at,
           k.pc = "confirm" => \A d \in k.owed : Left(d)
    PROVE  IInv'
<1>1. /\ hdl'[a] = k
      /\ \A b \in Actors : b # a => hdl'[b] = hdl[b]
      /\ hdl' \in [Actors -> Handler]
  BY DEF IInv, TypeOK
<1>2. TypeOK'
  BY <1>1 DEF IInv, TypeOK, Shrunk
<1>3. TwoWays'
  BY DEF IInv, TwoWays, Shrunk
<1>4. \A d \in Clients : Joined(d) => Joined(d)'
  BY <1>1 DEF Joined, Actors
<1>5. \A d : Left(d)' <=> Left(d)
  BY DEF Left
<1>6. LiveStaysListed'
  <2> SUFFICES ASSUME NEW c \in Clients, peer[c] = "open", hdl'[c].pc \notin {"idle", "welcome"}
               PROVE  c \in active_connections' /\ c \in connection_active'
    BY DEF LiveStaysListed
  <2>1. ~Left(c)
    BY DEF Left
  <2>2. Joined(c)
    BY <1>1, <2>1 DEF Joined, Actors
  <2>3. c \in active_connections /\ c \in connection_active
    BY <2>2 DEF IInv, LiveStaysListed, Joined
  <2> QED
    BY <2>1, <2>3 DEF Shrunk
<1>7. SocketsOK'
  <2>1. ASSUME NEW c \in Clients, peer'[c] = "away" PROVE hdl'[c].pc = "idle"
    <3>1. hdl[c].pc = "idle" /\ peer[c] = "away"
      BY <2>1 DEF IInv, SocketsOK
    <3>2. c # a
      BY <3>1 DEF Joined, Left
    <3> QED
      BY <3>1, <3>2, <1>1 DEF Actors
  <2>2. ASSUME NEW c \in app_closed' \union client_disconnected' PROVE Left(c)'
    BY <1>5
  <2>3. ASSUME NEW v \in Conversations, NEW c \in conversation_users'[v] \intersect Clients
        PROVE Joined(c)'
    <3>1. c \in conversation_users[v] \intersect Clients
      BY DEF Shrunk
    <3> QED
      BY <3>1, <1>4 DEF IInv, SocketsOK
  <2> QED
    BY <2>1, <2>2, <2>3 DEF SocketsOK
<1>8. ASSUME NEW b \in Actors PROVE Sound(b)'
  <2>1. CASE b = a
    <3>1. k.owed \subseteq Clients
      BY DEF Handler
    <3> QED
      BY <2>1, <3>1, <1>1, <1>4, <1>5 DEF Sound
  <2>2. CASE b # a
    <3>1. hdl'[b] = hdl[b] /\ hdl[b].owed \subseteq Clients
      BY <2>2, <1>1 DEF IInv, TypeOK, Handler
    <3>2. Sound(b)
      BY DEF IInv
    <3> QED
      BY <3>1, <3>2, <1>4, <1>5 DEF Sound
  <2> QED
    BY <2>1, <2>2
<1> QED
  BY <1>2, <1>3, <1>6, <1>7, <1>8 DEF IInv

\* A handler begins, or goes on with, a broadcast.
LEMMA BroadcastMoves ==
    ASSUME IInv, NEW a \in Actors, NEW h \in Walker, NEW closed \in BOOLEAN,
           NEW k \in Onward(h, closed), NEW failed, PassOver(h, failed),
           hdl' = [hdl EXCEPT ![a] = k],
           a \in Clients => Joined(a),
           \A d \in h.owed : Joined(d) /\ (Left(d) \/ d \in h.left \ {h.exclude}),
           \A d \in failed : Left(d),
           UNCHANGED <<peer, exists>>, msgs' \in 0 .. MaxMessages,
           app_closed' \subseteq Clients, client_disconnected' \subseteq Clients,
           \A c \in app_closed' \union client_disconnected' : Left(c)
    PROVE  IInv'
<1>1. /\ k \in Handler /\ k.pc \notin {"idle", "welcome"}
      /\ \A d \in k.owed : Joined(d)
      /\ k.pc = "sending" =>
            k.at \in Clients /\ \A d \in k.owed : Left(d) \/ d \in k.left \ {k.exclude} \/ d = k.at
      /\ k.pc = "confirm" => \A d \in k.owed : Left(d)
  BY OnwardIs
<1>2. Shrunk
  BY PassOverShrinks
<1> QED
  BY <1>1, <1>2, HandlerMoves

\* The users a broadcast begins with: the live ones have joined and are all visited.
LEMMA BroadcastStep ==
    ASSUME IInv, NEW a \in Actors, NEW v \in Conversations,
           NEW stage \in {"message", "notice", "presence", "post"},
           NEW exclude \in Clients \union {NoUser}, NEW closed \in BOOLEAN,
           Broadcast(a, v, stage, exclude, closed), a \in Clients => Joined(a),
           UNCHANGED <<peer, exists>>, msgs' \in 0 .. MaxMessages,
           app_closed' \subseteq Clients, client_disconnected' \subseteq Clients,
           \A c \in app_closed' \union client_disconnected' : Left(c)
    PROVE  IInv'
<1> DEFINE users == conversation_users[v]
           live == {u \in (users \intersect Clients) \ {exclude} : peer[u] = "open"}
           h == [hdl[a] EXCEPT !.room = v, !.stage = stage, !.exclude = exclude, !.left = users,
                               !.broken = FALSE, !.attached = TRUE, !.owed = live]
<1>1. PICK k \in Onward(h, closed) : hdl' = [hdl EXCEPT ![a] = k]
  BY DEF Broadcast
<1>2. PICK failed : failed = {} /\ PassOver(h, failed)
  BY DEF Broadcast
<1>3. users \subseteq Users /\ live \subseteq Clients
  BY DEF IInv, TypeOK
<1>4. \A d \in live : Joined(d) /\ d \in users \ {exclude}
  BY DEF IInv, SocketsOK
<1> HIDE DEF live, users
<1>5. /\ h \in Walker /\ h.owed = live /\ h.left = users /\ h.exclude = exclude
  <2>1. hdl[a] \in Walker
    BY HandlersWalk DEF IInv, TypeOK
  <2> QED
    BY <2>1, <1>3 DEF Walker
<1> HIDE DEF h
<1>6. \A d \in h.owed : Joined(d) /\ (Left(d) \/ d \in h.left \ {h.exclude})
  BY <1>4, <1>5
<1>7. \A d \in failed : Left(d)
  BY <1>2
<1> QED
  BY <1>1, <1>2, <1>5, <1>6, <1>7, BroadcastMoves

\* The next stretch of a broadcast, when whoever is owed has left or is still to be visited.
LEMMA ContinueStep ==
    ASSUME IInv, NEW a \in Actors, NEW h \in Handler, NEW closed \in BOOLEAN, NEW failed,
           Continue(a, h, closed, failed), a \in Clients => Joined(a),
           \A d \in h.owed : Joined(d) /\ (Left(d) \/ d \in h.left \ {h.exclude}),
           \A d \in failed : Left(d),
           UNCHANGED <<peer, exists>>, msgs' \in 0 .. MaxMessages,
           app_closed' \subseteq Clients, client_disconnected' \subseteq Clients,
           \A c \in app_closed' \union client_disconnected' : Left(c)
    PROVE  IInv'
<1>1. h \in Walker
  BY HandlersWalk
<1>2. CASE h.broken = TRUE
  <2> DEFINE k == Ended(h, FALSE, closed)
  <2>1. hdl' = [hdl EXCEPT ![a] = k] /\ PassOver([h EXCEPT !.left = {}], failed)
    BY <1>2 DEF Continue
  <2>2. Shrunk
    BY <2>1, PassOverShrinks
  <2>3. /\ k \in Handler /\ k.owed \subseteq h.owed
        /\ k.pc \in {"confirm", "done", "spin", "receive"} /\ k.pc # "confirm"
    BY <1>1, EndedIs
  <2> HIDE DEF k
  <2> QED
    BY <2>1, <2>2, <2>3, HandlerMoves
<1>3. CASE h.broken = FALSE
  <2>1. PICK k \in Onward(h, closed) : hdl' = [hdl EXCEPT ![a] = k]
    BY <1>3 DEF Continue
  <2>2. PassOver(h, failed)
    BY <1>3 DEF Continue
  <2> QED
    BY <1>1, <2>1, <2>2, BroadcastMoves
<1> QED
  BY <1>2, <1>3 DEF Handler

\* Only a handler that has been called moves, and a client that sends has joined.
LEMMA BusyHaveJoined ==
    ASSUME IInv, NEW a \in Actors, hdl[a].pc \in {"sending", "receive", "confirm", "reply"}
    PROVE  Joined(a)
BY DEF Joined

\* The facts of the tables that a step of one handler relies on.
LEMMA SocketsAreClients ==
    ASSUME IInv
    PROVE  /\ app_closed \subseteq Clients /\ client_disconnected \subseteq Clients
           /\ \A c \in app_closed \union client_disconnected : Left(c)
           /\ msgs \in 0 .. MaxMessages
           /\ \A a \in Actors : hdl[a] \in Handler
           /\ \A a \in Actors : \A d \in hdl[a].owed : Joined(d)
BY DEF IInv, SocketsOK, TypeOK, Sound

LEMMA SendDoneStep == ASSUME IInv, NEW a \in Actors, SendDone(a) PROVE IInv'
<1> DEFINE h == [hdl[a] EXCEPT !.owed = @ \ {hdl[a].at}]
<1>1. PICK failed : failed = {} /\ Continue(a, h, a \in app_closed, failed) /\ hdl[a].pc = "sending"
  BY DEF SendDone
<1>2. UNCHANGED <<peer, exists, app_closed, client_disconnected, msgs>>
  BY DEF SendDone, sockets
<1>3. /\ h \in Handler /\ h.owed = hdl[a].owed \ {hdl[a].at}
      /\ h.left = hdl[a].left /\ h.exclude = hdl[a].exclude
  BY SocketsAreClients DEF Handler
<1>4. \A d \in h.owed : Joined(d) /\ (Left(d) \/ d \in h.left \ {h.exclude})
  <2>1. Sound(a)
    BY DEF IInv
  <2> QED
    BY <2>1, <1>1, <1>3 DEF Sound
<1> HIDE DEF h
<1>5. Joined(a) /\ \A d \in failed : Left(d)
  BY <1>1, BusyHaveJoined
<1>6. /\ app_closed' \subseteq Clients /\ client_disconnected' \subseteq Clients
      /\ \A c \in app_closed' \union client_disconnected' : Left(c)
      /\ msgs' \in 0 .. MaxMessages /\ UNCHANGED <<peer, exists>>
  BY <1>2, SocketsAreClients
<1>7. (a \in app_closed) \in BOOLEAN /\ h \in Handler
  BY <1>3
<1> QED
  BY <1>1, <1>4, <1>5, <1>6, <1>7, ContinueStep

LEMMA SendFailedStep == ASSUME IInv, NEW a \in Actors, SendFailed(a) PROVE IInv'
<1> DEFINE h == hdl[a]
<1>1. Continue(a, h, a \in app_closed', {h.at}) /\ h.pc = "sending" /\ Left(h.at)
  BY DEF SendFailed, Left
<1>2. UNCHANGED <<peer, exists, client_disconnected, msgs>> /\ app_closed' = app_closed \union {h.at}
  BY DEF SendFailed
<1>3. Sound(a) /\ h \in Handler
  BY SocketsAreClients DEF IInv
<1>4. h.at \in Clients /\ \A d \in h.owed : Joined(d) /\ (Left(d) \/ d \in h.left \ {h.exclude})
  BY <1>1, <1>3 DEF Sound
<1>5. app_closed' \subseteq Clients /\ \A c \in app_closed' \union client_disconnected' : Left(c)
  BY <1>1, <1>2, <1>4, SocketsAreClients
<1>6. Joined(a) /\ \A d \in {h.at} : Left(d)
  BY <1>1, BusyHaveJoined
<1>7. (a \in app_closed') \in BOOLEAN
  OBVIOUS
<1>8. msgs' \in 0 .. MaxMessages /\ client_disconnected' \subseteq Clients
  BY <1>2, SocketsAreClients
<1> HIDE DEF h
<1> QED
  BY <1>1, <1>2, <1>3, <1>4, <1>5, <1>6, <1>7, <1>8, ContinueStep, ZenonT(60)

-----------------------------------------------------------------------------
(* The steps of a client's own handler *)

LEMMA TablesStay == ASSUME UNCHANGED tables PROVE Shrunk
BY DEF tables, Shrunk

\* A handler goes to a point between two broadcasts, and owes nothing new there.
LEMMA GoesTo ==
    ASSUME IInv, NEW c \in Clients, NEW pc \in {"receive", "reply", "spin", "done"},
           NEW owed \in SUBSET hdl[c].owed,
           hdl' = [hdl EXCEPT ![c] = [hdl[c] EXCEPT !.pc = pc, !.owed = owed]],
           Joined(c) \/ Left(c), UNCHANGED tables, UNCHANGED <<peer, exists>>,
           msgs' \in 0 .. MaxMessages,
           app_closed' \subseteq Clients, client_disconnected' \subseteq Clients,
           \A d \in app_closed' \union client_disconnected' : Left(d)
    PROVE  IInv'
<1> DEFINE k == [hdl[c] EXCEPT !.pc = pc, !.owed = owed]
<1>1. c \in Actors /\ hdl[c] \in Handler /\ \A d \in hdl[c].owed : Joined(d)
  BY SocketsAreClients DEF Actors
<1>2. k \in Handler /\ k.pc = pc /\ k.owed = owed
  BY <1>1 DEF Handler
<1>3. hdl' = [hdl EXCEPT ![c] = k]
  OBVIOUS
<1> HIDE DEF k
<1>4. \A d \in k.owed : Joined(d)
  BY <1>1, <1>2
<1>5. Shrunk
  BY TablesStay
<1> QED
  BY <1>1, <1>2, <1>3, <1>4, <1>5, HandlerMoves

LEMMA WelcomeFailsStep == ASSUME IInv, NEW c \in Clients, WelcomeFails(c) PROVE IInv'
<1>1. UNCHANGED tables /\ UNCHANGED <<peer, exists>> /\ Left(c)
  BY DEF WelcomeFails, Left
<1>2. app_closed' = app_closed \union {c} /\ UNCHANGED <<client_disconnected, msgs>>
  BY DEF WelcomeFails
<1>3. /\ app_closed' \subseteq Clients /\ client_disconnected' \subseteq Clients
      /\ \A d \in app_closed' \union client_disconnected' : Left(d)
      /\ msgs' \in 0 .. MaxMessages
  BY <1>1, <1>2, SocketsAreClients
<1>4. c \in Actors /\ hdl[c] \in Handler
  BY SocketsAreClients DEF Actors
<1>5. hdl' = [hdl EXCEPT ![c] = [hdl[c] EXCEPT !.pc = "done", !.owed = hdl[c].owed]]
  <2>1. hdl' = [hdl EXCEPT ![c] = [hdl[c] EXCEPT !.pc = "done"]]
    BY DEF WelcomeFails
  <2>2. [hdl[c] EXCEPT !.pc = "done"] = [hdl[c] EXCEPT !.pc = "done", !.owed = hdl[c].owed]
    BY <1>4 DEF Handler
  <2> QED
    BY <2>1, <2>2
<1>6. hdl[c].owed \in SUBSET hdl[c].owed
  OBVIOUS
<1> QED
  BY <1>1, <1>3, <1>5, <1>6, GoesTo

LEMMA ReplySentStep == ASSUME IInv, NEW c \in Clients, ReplySent(c) PROVE IInv'
<1>1. UNCHANGED tables /\ UNCHANGED <<peer, exists, app_closed, client_disconnected, msgs>>
  BY DEF ReplySent, sockets
<1>2. UNCHANGED <<peer, exists>> /\ hdl[c].pc \in {"confirm", "reply"}
  BY DEF ReplySent, sockets
<1>3. /\ app_closed' \subseteq Clients /\ client_disconnected' \subseteq Clients
      /\ \A d \in app_closed' \union client_disconnected' : Left(d)
      /\ msgs' \in 0 .. MaxMessages
  BY <1>1, SocketsAreClients
<1>4. Joined(c)
  BY <1>2 DEF Joined
<1>5. LoopBack(c \in app_closed) \in {"receive", "reply", "spin", "done"}
  BY DEF LoopBack
<1>6. hdl' = [hdl EXCEPT ![c] = [hdl[c] EXCEPT !.pc = LoopBack(c \in app_closed), !.owed = {}]]
  <2>1. c \in Actors /\ hdl[c] \in Handler /\ hdl \in [Actors -> Handler]
    BY DEF IInv, TypeOK, Actors
  <2> QED
    BY <2>1 DEF ReplySent
<1>7. {} \in SUBSET hdl[c].owed
  OBVIOUS
<1> QED
  BY <1>1, <1>2, <1>3, <1>4, <1>5, <1>6, <1>7, GoesTo

LEMMA ConfirmFailsStep == ASSUME IInv, NEW c \in Clients, ConfirmFails(c) PROVE IInv'
<1>1. UNCHANGED tables /\ UNCHANGED <<peer, exists>> /\ Left(c)
  BY DEF ConfirmFails, Left
<1>2. app_closed' = app_closed \union {c} /\ UNCHANGED <<client_disconnected, msgs>>
  BY DEF ConfirmFails
<1>3. /\ app_closed' \subseteq Clients /\ client_disconnected' \subseteq Clients
      /\ \A d \in app_closed' \union client_disconnected' : Left(d)
      /\ msgs' \in 0 .. MaxMessages
  BY <1>1, <1>2, SocketsAreClients
<1>4. hdl' = [hdl EXCEPT ![c] = [hdl[c] EXCEPT !.pc = "spin", !.owed = {}]]
  <2>1. c \in Actors /\ hdl[c] \in Handler /\ hdl \in [Actors -> Handler]
    BY DEF IInv, TypeOK, Actors
  <2> QED
    BY <2>1 DEF ConfirmFails
<1>5. {} \in SUBSET hdl[c].owed
  OBVIOUS
<1> QED
  BY <1>1, <1>3, <1>4, <1>5, GoesTo

LEMMA ReceivePingStep == ASSUME IInv, NEW c \in Clients, ReceivePing(c) PROVE IInv'
<1>1. UNCHANGED tables /\ hdl[c].pc = "receive" /\ UNCHANGED <<app_closed, client_disconnected>>
  BY DEF ReceivePing, Received
<1>2. UNCHANGED <<peer, exists>>
  BY DEF ReceivePing, Received
<1>3. msgs' = msgs + 1 /\ msgs < MaxMessages
  BY DEF ReceivePing, Received
<1>4. /\ app_closed' \subseteq Clients /\ client_disconnected' \subseteq Clients
      /\ \A d \in app_closed' \union client_disconnected' : Left(d)
  BY <1>1, SocketsAreClients
<1>5. msgs' \in 0 .. MaxMessages
  BY <1>3, SocketsAreClients, MessagesAssumption
<1>6. Joined(c)
  BY <1>1 DEF Joined
<1>7. PICK pc \in {"receive", "reply", "spin", "done"} : hdl' = [hdl EXCEPT ![c].pc = pc]
  BY DEF ReceivePing
<1>8. hdl' = [hdl EXCEPT ![c] = [hdl[c] EXCEPT !.pc = pc, !.owed = hdl[c].owed]]
  <2>1. hdl[c] \in Handler
    BY SocketsAreClients DEF Actors
  <2>2. [hdl[c] EXCEPT !.pc = pc] = [hdl[c] EXCEPT !.pc = pc, !.owed = hdl[c].owed]
    BY <2>1 DEF Handler
  <2> QED
    BY <1>7, <2>2
<1>9. hdl[c].owed \in SUBSET hdl[c].owed
  OBVIOUS
<1>10. UNCHANGED tables /\ pc \in {"receive", "reply", "spin", "done"}
  BY <1>1
<1> QED
  BY <1>2, <1>4, <1>5, <1>6, <1>8, <1>9, <1>10, GoesTo

\* What a client has sent is broadcast to its conversation.
LEMMA ReceiveStep ==
    ASSUME IInv, NEW c \in Clients, Received(c), NEW stage \in {"message", "notice"},
           NEW exclude \in Clients \union {NoUser},
           Broadcast(c, hdl[c].room, stage, exclude, c \in app_closed)
    PROVE  IInv'
<1>1. /\ hdl[c].pc = "receive" /\ UNCHANGED <<app_closed, client_disconnected>>
      /\ msgs' = msgs + 1 /\ msgs < MaxMessages
  BY DEF Received
<1>2. UNCHANGED <<peer, exists>>
  BY DEF Received
<1>3. /\ app_closed' \subseteq Clients /\ client_disconnected' \subseteq Clients
      /\ \A d \in app_closed' \union client_disconnected' : Left(d)
  BY <1>1, SocketsAreClients
<1>4. msgs' \in 0 .. MaxMessages
  BY <1>1, SocketsAreClients, MessagesAssumption
<1>5. c \in Actors /\ Joined(c) /\ hdl[c].room \in Conversations
  BY <1>1, SocketsAreClients DEF Joined, Actors, Handler
<1>6. (c \in app_closed) \in BOOLEAN
  OBVIOUS
<1> QED
  BY <1>2, <1>3, <1>4, <1>5, <1>6, BroadcastStep

\* A client that is gone: the others are told, and the handler ends.
LEMMA GoodbyeStep ==
    ASSUME IInv, NEW c \in Clients, NEW closed \in BOOLEAN, Goodbye(c, closed), Left(c),
           hdl[c].pc \in {"receive", "reply"}, UNCHANGED <<peer, exists>>, msgs' = msgs,
           app_closed' \subseteq app_closed \union {c},
           client_disconnected' \subseteq client_disconnected \union {c}
    PROVE  IInv'
<1>1. /\ app_closed' \subseteq Clients /\ client_disconnected' \subseteq Clients
      /\ \A d \in app_closed' \union client_disconnected' : Left(d)
      /\ msgs' \in 0 .. MaxMessages
  BY SocketsAreClients
<1>2. c \in Actors /\ Joined(c) /\ hdl[c].room \in Conversations
  BY SocketsAreClients DEF Joined, Actors, Handler
<1>3. PICK stage \in {"message", "notice", "presence", "post"}, exclude \in Clients \union {NoUser} :
         Broadcast(c, hdl[c].room, stage, exclude, closed)
  BY DEF Goodbye
<1> QED
  BY <1>1, <1>2, <1>3, BroadcastStep

LEMMA PostStep == ASSUME IInv, NEW p \in Posts, NEW v \in Conversations, Post(p, v) PROVE IInv'
<1>1. /\ UNCHANGED <<app_closed, client_disconnected>> /\ msgs' = msgs + 1 /\ msgs < MaxMessages
  BY DEF Post
<1>2. UNCHANGED <<peer, exists>>
  BY DEF Post
<1>3. /\ app_closed' \subseteq Clients /\ client_disconnected' \subseteq Clients
      /\ \A d \in app_closed' \union client_disconnected' : Left(d)
  BY <1>1, SocketsAreClients
<1>4. msgs' \in 0 .. MaxMessages
  BY <1>1, SocketsAreClients, MessagesAssumption
<1>5. p \in Actors /\ p \notin Clients
  BY ApartAssumption DEF Actors
<1>6. PICK stage \in {"message", "notice", "presence", "post"},
           exclude \in Clients \union {NoUser}, closed \in BOOLEAN :
         Broadcast(p, v, stage, exclude, closed)
  BY DEF Post
<1> QED
  BY <1>2, <1>3, <1>4, <1>5, <1>6, BroadcastStep

LEMMA ReplyFailsStep == ASSUME IInv, NEW c \in Clients, ReplyFails(c) PROVE IInv'
<1>1. /\ Goodbye(c, TRUE) /\ Left(c) /\ hdl[c].pc \in {"receive", "reply"} /\ msgs' = msgs
      /\ app_closed' \subseteq app_closed \union {c}
      /\ client_disconnected' \subseteq client_disconnected \union {c}
  BY DEF ReplyFails, Left
<1>2. UNCHANGED <<peer, exists>> /\ TRUE \in BOOLEAN
  BY DEF ReplyFails
<1> QED
  BY <1>1, <1>2, GoodbyeStep

LEMMA LeaveStep == ASSUME IInv, NEW c \in Clients, Leave(c) PROVE IInv'
<1>1. /\ Goodbye(c, c \in app_closed) /\ Left(c) /\ hdl[c].pc \in {"receive", "reply"}
      /\ msgs' = msgs /\ app_closed' \subseteq app_closed \union {c}
      /\ client_disconnected' \subseteq client_disconnected \union {c}
  BY DEF Leave, Left
<1>2. UNCHANGED <<peer, exists>> /\ (c \in app_closed) \in BOOLEAN
  BY DEF Leave
<1> QED
  BY <1>1, <1>2, GoodbyeStep

-----------------------------------------------------------------------------
(* The other steps *)

\* A handler that stays where it is keeps what it owes.
LEMMA SoundStays ==
    ASSUME IInv, NEW b \in Actors,
           hdl'[b].pc = hdl[b].pc, hdl'[b].at = hdl[b].at, hdl'[b].left = hdl[b].left,
           hdl'[b].exclude = hdl[b].exclude, hdl'[b].owed \subseteq hdl[b].owed,
           \A d \in hdl[b].owed : (Joined(d) => Joined(d)') /\ (Left(d) => Left(d)')
    PROVE  Sound(b)'
<1>1. Sound(b)
  BY DEF IInv
<1> QED
  BY <1>1 DEF Sound

LEMMA DropStep == ASSUME IInv, NEW c \in Clients, Drop(c) PROVE IInv'
<1>1. /\ peer[c] = "open" /\ peer' = [peer EXCEPT ![c] = "gone"]
      /\ UNCHANGED <<app_closed, client_disconnected, msgs, exists, hdl>>
      /\ UNCHANGED <<active_connections, connection_active, user_conversations, conversation_users>>
  BY DEF Drop, tables
<1>2. \A d \in Clients : (Joined(d) => Joined(d)') /\ (Left(d) => Left(d)')
  BY <1>1 DEF Joined, Left, IInv, TypeOK
<1>3. TypeOK' /\ TwoWays'
  BY <1>1 DEF IInv, TypeOK, TwoWays
<1>4. LiveStaysListed'
  BY <1>1 DEF IInv, TypeOK, LiveStaysListed
<1>5. SocketsOK'
  BY <1>1, <1>2 DEF IInv, TypeOK, SocketsOK
<1>6. ASSUME NEW b \in Actors PROVE Sound(b)'
  <2>1. hdl[b].owed \subseteq Clients
    BY DEF IInv, TypeOK, Handler
  <2> QED
    BY <1>1, <1>2, <2>1, SoundStays
<1> QED
  BY <1>3, <1>4, <1>5, <1>6 DEF IInv

LEMMA AcceptStep ==
    ASSUME IInv, NEW c \in Clients, NEW v \in Conversations, Accept(c, v) PROVE IInv'
<1> DEFINE k == [hdl[c] EXCEPT !.pc = "welcome", !.room = v]
<1>1. /\ peer[c] = "away" /\ peer' = [peer EXCEPT ![c] = "open"]
      /\ UNCHANGED <<app_closed, client_disconnected, msgs, exists>>
      /\ UNCHANGED <<active_connections, connection_active, user_conversations, conversation_users>>
  BY DEF Accept, tables
<1>2. c \in Actors /\ hdl[c] \in Handler /\ hdl \in [Actors -> Handler]
  BY DEF IInv, TypeOK, Actors
<1>3. hdl' = [hdl EXCEPT ![c] = k]
  BY <1>2 DEF Accept
<1>4. k \in Handler /\ k.pc = "welcome" /\ k.owed = hdl[c].owed
  BY <1>2 DEF Handler
<1> HIDE DEF k
<1>5. /\ hdl'[c] = k /\ hdl' \in [Actors -> Handler]
      /\ \A b \in Actors : b # c => hdl'[b] = hdl[b]
  BY <1>2, <1>3, <1>4
<1>6. ~Left(c) /\ ~Joined(c)
  BY <1>1 DEF Left, Joined, IInv, SocketsOK
<1>7. \A d \in Clients : (Joined(d) => Joined(d)') /\ (Left(d) => Left(d)')
  <2> SUFFICES ASSUME NEW d \in Clients PROVE (Joined(d) => Joined(d)') /\ (Left(d) => Left(d)')
    OBVIOUS
  <2>1. CASE d = c
    BY <2>1, <1>6
  <2>2. CASE d # c
    BY <2>2, <1>1, <1>5 DEF Joined, Left, Actors, IInv, TypeOK
  <2> QED
    BY <2>1, <2>2
<1>8. TypeOK' /\ TwoWays'
  BY <1>1, <1>5 DEF IInv, TypeOK, TwoWays
<1>9. LiveStaysListed'
  <2> SUFFICES ASSUME NEW d \in Clients, peer'[d] = "open", hdl'[d].pc \notin {"idle", "welcome"}
               PROVE  d \in active_connections' \intersect connection_active'
    BY DEF LiveStaysListed
  <2>1. d # c
    BY <1>4, <1>5
  <2>2. peer[d] = "open" /\ hdl[d].pc \notin {"idle", "welcome"}
    BY <2>1, <1>1, <1>5 DEF Actors, IInv, TypeOK
  <2> QED
    BY <2>2, <1>1 DEF IInv, LiveStaysListed
<1>10. SocketsOK'
  <2>1. ASSUME NEW d \in Clients, peer'[d] = "away" PROVE hdl'[d].pc = "idle"
    <3>1. d # c /\ peer[d] = "away"
      BY <2>1, <1>1 DEF IInv, TypeOK
    <3> QED
      BY <3>1, <1>5 DEF Actors, IInv, SocketsOK
  <2>2. ASSUME NEW d \in app_closed' \union client_disconnected' PROVE Left(d)'
    BY <1>1, <1>7, SocketsAreClients
  <2>3. ASSUME NEW w \in Conversations, NEW d \in conversation_users'[w] \intersect Clients
        PROVE Joined(d)'
    BY <1>1, <1>7 DEF IInv, SocketsOK
  <2> QED
    BY <2>1, <2>2, <2>3 DEF SocketsOK
<1>11. ASSUME NEW b \in Actors PROVE Sound(b)'
  <2>1. hdl[b].owed \subseteq Clients
    BY DEF IInv, TypeOK, Handler
  <2>2. CASE b = c
    <3>1. \A d \in k.owed : Joined(d)'
      BY <2>1, <2>2, <1>2, <1>4, <1>7, SocketsAreClients
    <3> QED
      BY <2>2, <3>1, <1>4, <1>5 DEF Sound
  <2>3. CASE b # c
    <3>1. hdl'[b] = hdl[b]
      BY <2>3, <1>5
    <3> QED
      BY <2>1, <3>1, <1>7, SoundStays
  <2> QED
    BY <2>2, <2>3
<1> QED
  BY <1>8, <1>9, <1>10, <1>11 DEF IInv

\* A handler of another client, as a client joins its conversation.
Grown(h, v) ==
    IF h.pc = "sending" /\ h.room = v /\ h.attached THEN [h EXCEPT !.broken = TRUE] ELSE h

LEMMA GrownIs ==
    ASSUME NEW h \in Handler, NEW v
    PROVE  /\ Grown(h, v) \in Handler /\ Grown(h, v).pc = h.pc /\ Grown(h, v).at = h.at
           /\ Grown(h, v).left = h.left /\ Grown(h, v).exclude = h.exclude
           /\ Grown(h, v).owed = h.owed
BY ZenonT(60) DEF Grown, Handler

LEMMA ConnectStep == ASSUME IInv, NEW c \in Clients, Connect(c) PROVE IInv'
<1> DEFINE v == hdl[c].room
           k == [hdl[c] EXCEPT !.pc = "receive"]
<1>1. /\ hdl[c].pc = "welcome"
      /\ UNCHANGED <<peer, app_closed, client_disconnected, msgs, exists>>
      /\ active_connections' = active_connections \union {c}
      /\ connection_active' = connection_active \union {c}
      /\ user_conversations' = [user_conversations EXCEPT ![c] = @ \union {v}]
      /\ conversation_users' = [conversation_users EXCEPT ![v] = @ \union {c}]
  BY DEF Connect, sockets
<1>2. /\ c \in Actors /\ c \in Users /\ hdl[c] \in Handler /\ v \in Conversations
      /\ \A b \in Actors : hdl[b] \in Handler
  BY DEF IInv, TypeOK, Actors, Users, Handler
<1>3. k \in Handler /\ k.pc = "receive" /\ k.owed = hdl[c].owed
  BY <1>2 DEF Handler
<1>4. hdl' = [a \in Actors |-> IF a = c THEN k ELSE Grown(hdl[a], v)]
  BY DEF Connect, Grown
<1> HIDE DEF k, v
<1>5. \A b \in Actors : hdl'[b] \in Handler
  BY <1>2, <1>3, <1>4, GrownIs
<1>6. hdl' \in [Actors -> Handler]
  BY <1>4, <1>5
<1>7. /\ hdl'[c] = k
      /\ \A b \in Actors : b # c =>
            /\ hdl'[b].pc = hdl[b].pc /\ hdl'[b].at = hdl[b].at /\ hdl'[b].left = hdl[b].left
            /\ hdl'[b].exclude = hdl[b].exclude /\ hdl'[b].owed = hdl[b].owed
  BY <1>2, <1>4, GrownIs
<1>8. \A d \in Clients : (Joined(d) => Joined(d)') /\ (Left(d) <=> Left(d)')
  BY <1>1, <1>3, <1>7 DEF Joined, Left, Actors
<1>9. TypeOK'
  BY <1>1, <1>2, <1>6 DEF IInv, TypeOK
<1>10. TwoWays'
  BY <1>1, <1>2 DEF IInv, TypeOK, TwoWays
<1>11. LiveStaysListed'
  <2> SUFFICES ASSUME NEW d \in Clients, peer'[d] = "open", hdl'[d].pc \notin {"idle", "welcome"}
               PROVE  d \in active_connections' \intersect connection_active'
    BY DEF LiveStaysListed
  <2>1. CASE d = c
    BY <2>1, <1>1
  <2>2. CASE d # c
    <3>1. peer[d] = "open" /\ hdl[d].pc \notin {"idle", "welcome"}
      BY <2>2, <1>1, <1>7 DEF Actors
    <3> QED
      BY <3>1, <1>1 DEF IInv, LiveStaysListed
  <2> QED
    BY <2>1, <2>2
<1>12. SocketsOK'
  <2>1. ASSUME NEW d \in Clients, peer'[d] = "away" PROVE hdl'[d].pc = "idle"
    <3>1. peer[d] = "away" /\ hdl[d].pc = "idle"
      BY <2>1, <1>1 DEF IInv, SocketsOK
    <3> QED
      BY <3>1, <1>1, <1>7 DEF Actors
  <2>2. ASSUME NEW d \in app_closed' \union client_disconnected' PROVE Left(d)'
    BY <1>1, <1>8, SocketsAreClients
  <2>3. ASSUME NEW w \in Conversations, NEW d \in conversation_users'[w] \intersect Clients
        PROVE Joined(d)'
    <3>1. CASE d = c
      BY <3>1, <1>3, <1>7 DEF Joined
    <3>2. CASE d # c
      <4>1. d \in conversation_users[w]
        BY <3>2, <1>1 DEF IInv, TypeOK
      <4> QED
        BY <4>1, <1>8 DEF IInv, SocketsOK
    <3> QED
      BY <3>1, <3>2
  <2> QED
    BY <2>1, <2>2, <2>3 DEF SocketsOK
<1>13. ASSUME NEW b \in Actors PROVE Sound(b)'
  <2>1. hdl[b].owed \subseteq Clients
    BY <1>2 DEF Handler
  <2>2. CASE b = c
    <3>1. \A d \in k.owed : Joined(d)'
      BY <2>1, <2>2, <1>2, <1>3, <1>8, SocketsAreClients
    <3> QED
      BY <2>2, <3>1, <1>3, <1>7 DEF Sound
  <2>3. CASE b # c
    BY <2>1, <2>3, <1>7, <1>8, SoundStays
  <2> QED
    BY <2>2, <2>3
<1> QED
  BY <1>9, <1>10, <1>11, <1>12, <1>13 DEF IInv

LEMMA CreateGroupStep ==
    ASSUME IInv, NEW v \in Conversations, CreateGroup(v, Members) PROVE IInv'
<1>1. /\ UNCHANGED <<peer, app_closed, client_disconnected, msgs, hdl>>
      /\ UNCHANGED <<active_connections, connection_active>> /\ exists' = exists \union {v}
      /\ conversation_users' = [conversation_users EXCEPT ![v] = @ \union Members]
      /\ user_conversations' = [u \in Users |-> user_conversations[u]
                                   \union (IF u \in Members THEN {v} ELSE {})]
  BY DEF CreateGroup, sockets
<1>2. Members \subseteq Users /\ Members \intersect Clients = {}
  BY ApartAssumption DEF Users
<1>3. \A d : (Joined(d) <=> Joined(d)') /\ (Left(d) <=> Left(d)')
  BY <1>1 DEF Joined, Left
<1>4. TypeOK'
  BY <1>1, <1>2 DEF IInv, TypeOK
<1>5. TwoWays'
  BY <1>1, <1>2 DEF IInv, TypeOK, TwoWays
<1>6. LiveStaysListed'
  BY <1>1 DEF IInv, LiveStaysListed
<1>7. SocketsOK'
  <2>1. ASSUME NEW w \in Conversations, NEW d \in conversation_users'[w] \intersect Clients
        PROVE Joined(d)'
    <3>1. d \in conversation_users[w] \intersect Clients
      BY <1>1, <1>2 DEF IInv, TypeOK
    <3> QED
      BY <3>1, <1>3 DEF IInv, SocketsOK
  <2> QED
    BY <2>1, <1>1, <1>3 DEF IInv, SocketsOK
<1>8. ASSUME NEW b \in Actors PROVE Sound(b)'
  BY <1>1, <1>3, SoundStays
<1> QED
  BY <1>4, <1>5, <1>6, <1>7, <1>8 DEF IInv

LEMMA DeleteConversationStep ==
    ASSUME IInv, NEW v \in Conversations, DeleteConversation(v) PROVE IInv'
<1> DEFINE Off(h) == IF h.room = v THEN [h EXCEPT !.attached = FALSE] ELSE h
<1>1. /\ UNCHANGED <<peer, app_closed, client_disconnected, msgs>>
      /\ UNCHANGED <<active_connections, connection_active>> /\ exists' = exists \ {v}
      /\ conversation_users' = [conversation_users EXCEPT ![v] = {}]
      /\ user_conversations' = [u \in Users |->
                                  IF u \in conversation_users[v] THEN user_conversations[u] \ {v}
                                  ELSE user_conversations[u]]
  BY DEF DeleteConversation, sockets
<1>2. hdl' = [a \in Actors |-> Off(hdl[a])]
  BY DEF DeleteConversation, Detach
<1>3. ASSUME NEW h \in Handler
      PROVE  /\ Off(h) \in Handler /\ Off(h).pc = h.pc /\ Off(h).at = h.at /\ Off(h).left = h.left
             /\ Off(h).exclude = h.exclude /\ Off(h).owed = h.owed
  BY ZenonT(60) DEF Handler
<1> HIDE DEF Off
<1>4. \A b \in Actors :
         /\ hdl'[b] \in Handler /\ hdl'[b].pc = hdl[b].pc /\ hdl'[b].at = hdl[b].at
         /\ hdl'[b].left = hdl[b].left /\ hdl'[b].exclude = hdl[b].exclude
         /\ hdl'[b].owed = hdl[b].owed
  BY <1>2, <1>3, SocketsAreClients
<1>5. \A d \in Clients : (Joined(d) <=> Joined(d)') /\ (Left(d) <=> Left(d)')
  BY <1>1, <1>4 DEF Joined, Left, Actors
<1>6. TypeOK'
  <2>1. hdl' \in [Actors -> Handler]
    BY <1>2, <1>4
  <2> QED
    BY <2>1, <1>1 DEF IInv, TypeOK
<1>7. TwoWays'
  BY <1>1 DEF IInv, TypeOK, TwoWays
<1>8. LiveStaysListed'
  BY <1>1, <1>4 DEF IInv, LiveStaysListed, Actors
<1>9. SocketsOK'
  <2>1. ASSUME NEW d \in Clients, peer'[d] = "away" PROVE hdl'[d].pc = "idle"
    BY <2>1, <1>1, <1>4 DEF IInv, SocketsOK, Actors
  <2>2. ASSUME NEW d \in app_closed' \union client_disconnected' PROVE Left(d)'
    BY <1>1, <1>5, SocketsAreClients
  <2>3. ASSUME NEW w \in Conversations, NEW d \in conversation_users'[w] \intersect Clients
        PROVE Joined(d)'
    <3>1. d \in conversation_users[w] \intersect Clients
      BY <1>1 DEF IInv, TypeOK
    <3> QED
      BY <3>1, <1>5 DEF IInv, SocketsOK
  <2> QED
    BY <2>1, <2>2, <2>3 DEF SocketsOK
<1>10. ASSUME NEW b \in Actors PROVE Sound(b)'
  <2>1. hdl[b].owed \subseteq Clients
    BY SocketsAreClients DEF Handler
  <2> QED
    BY <2>1, <1>4, <1>5, SoundStays
<1> QED
  BY <1>6, <1>7, <1>8, <1>9, <1>10 DEF IInv

-----------------------------------------------------------------------------
LEMMA InitHolds == Init => IInv
<1> DEFINE room == CHOOSE v \in Conversations : TRUE
           First == [pc : {"idle"}, room : {room}, stage : {"none"}, exclude : {NoUser},
                     left : {{}}, at : {NoUser}, broken : {FALSE}, attached : {FALSE}, owed : {{}}]
<1> SUFFICES ASSUME Init PROVE IInv
  OBVIOUS
<1>1. room \in Conversations
  BY ConversationsAssumption
<1>2. hdl \in [Actors -> First]
  BY DEF Init
<1> HIDE DEF room
<1>3. \A h \in First : h \in Handler /\ h.pc = "idle" /\ h.owed = {}
  BY <1>1 DEF Handler
<1> HIDE DEF First
<1>4. /\ hdl \in [Actors -> Handler]
      /\ \A a \in Actors : hdl[a].pc = "idle" /\ hdl[a].owed = {}
  BY <1>2, <1>3
<1>5. /\ peer = [c \in Clients |-> "away"]
      /\ app_closed = {} /\ client_disconnected = {}
      /\ active_connections = {} /\ connection_active = {}
      /\ user_conversations = [u \in Users |-> {}]
      /\ conversation_users = [v \in Conversations |-> {}]
      /\ exists \in SUBSET Conversations
      /\ msgs = 0
  BY DEF Init
<1>6. TypeOK
  BY <1>4, <1>5, MessagesAssumption DEF TypeOK
<1>7. TwoWays /\ LiveStaysListed
  BY <1>5 DEF TwoWays, LiveStaysListed
<1>8. SocketsOK
  BY <1>4, <1>5 DEF SocketsOK, Actors
<1>9. \A a \in Actors : Sound(a)
  BY <1>4 DEF Sound
<1> QED
  BY <1>6, <1>7, <1>8, <1>9 DEF IInv

LEMMA StutterHolds == ASSUME IInv, UNCHANGED vars PROVE IInv'
<1>1. UNCHANGED <<peer, app_closed, client_disconnected, msgs, active_connections,
                  connection_active, user_conversations, conversation_users, exists, hdl>>
  BY DEF vars, sockets, tables
<1> QED
  BY <1>1 DEF IInv, TypeOK, TwoWays, LiveStaysListed, SocketsOK, Sound, Joined, Left

LEMMA Inductive == IInv /\ [Next]_vars => IInv'
<1> SUFFICES ASSUME IInv, [Next]_vars PROVE IInv'
  OBVIOUS
<1>1. CASE UNCHANGED vars
  BY <1>1, StutterHolds
<1>2. ASSUME NEW c \in Clients, Serving(c) PROVE IInv'
  BY <1>2, WelcomeFailsStep, ConnectStep, ReplySentStep, ConfirmFailsStep, ReplyFailsStep,
     LeaveStep DEF Serving
<1>3. ASSUME NEW a \in Actors, Broadcasting(a) PROVE IInv'
  BY <1>3, SendDoneStep, SendFailedStep DEF Broadcasting
<1>4. ASSUME NEW c \in Clients, ReceiveMessage(c) \/ ReceiveNotice(c) PROVE IInv'
  <2>1. CASE ReceiveMessage(c)
    <3>1. Received(c) /\ Broadcast(c, hdl[c].room, "message", c, c \in app_closed)
      BY <2>1 DEF ReceiveMessage
    <3> QED
      BY <3>1, ReceiveStep
  <2>2. CASE ReceiveNotice(c)
    <3>1. PICK exclude \in Clients \union {NoUser} :
             Received(c) /\ Broadcast(c, hdl[c].room, "notice", exclude, c \in app_closed)
      BY <2>2 DEF ReceiveNotice
    <3> QED
      BY <3>1, ReceiveStep
  <2> QED
    BY <1>4, <2>1, <2>2
<1>5. CASE Outside
  BY <1>4, <1>5, DropStep, ReceivePingStep, AcceptStep, PostStep, CreateGroupStep,
     DeleteConversationStep DEF Outside
<1> QED
  BY <1>1, <1>2, <1>3, <1>5 DEF Next

\* In every reachable state of the live conversations the inductive invariant holds.
THEOREM Invariance == Spec => []IInv
BY InitHolds, Inductive, PTL DEF Spec

\* Through joins, leaves, deletions and failed sends the two mappings of the manager
\* stay each other's inverse, and its tables well formed.
THEOREM MappingsAgree == Spec => []TablesOK
<1>1. IInv => TablesOK
  BY DEF IInv, TablesOK
<1> QED
  BY <1>1, Invariance, PTL

\* The cleanup after one client's failure never takes the socket or the flag of
\* another whose peer is there.
THEOREM LiveClientsListed == Spec => []LiveStaysListed
<1>1. IInv => LiveStaysListed
  BY DEF IInv
<1> QED
  BY <1>1, Invariance, PTL

\* A message that is confirmed to its sender has been sent to every client that was
\* connected to the conversation when its broadcast began, or that client has left.
THEOREM ConfirmationIsTrue == Spec => []ConfirmedIsDelivered
<1>1. IInv => ConfirmedIsDelivered
  BY DEF IInv, Sound, ConfirmedIsDelivered, Left, Actors
<1> QED
  BY <1>1, Invariance, PTL

-----------------------------------------------------------------------------
(* How a broadcast ends *)

\* A broadcast that ends with its set as it was has reached all it began with.
LEMMA LastSend ==
    ASSUME IInv, NEW a \in Actors, NEW h \in Handler, NEW closed \in BOOLEAN, NEW failed,
           Continue(a, h, closed, failed), hdl'[a].pc # "sending", h.broken = FALSE,
           \A d \in h.owed : Joined(d) /\ (Left(d) \/ d \in h.left \ {h.exclude})
    PROVE  \A d \in h.owed : Left(d)
<1>1. h \in Walker
  BY HandlersWalk
<1>2. PICK k \in Onward(h, closed) : hdl' = [hdl EXCEPT ![a] = k]
  BY DEF Continue
<1>3. hdl'[a] = k
  BY <1>2 DEF IInv, TypeOK
<1> QED
  BY <1>1, <1>2, <1>3, OnwardIs

\* A step of another kind, or of another handler, leaves a broadcast at its send.
LEMMA OtherHandlersStay ==
    ASSUME NEW a \in Actors, NEW c, c # a,
           \/ WelcomeFails(c) \/ ReplySent(c) \/ ConfirmFails(c) \/ ReplyFails(c) \/ Leave(c)
           \/ ReceiveMessage(c) \/ ReceiveNotice(c) \/ ReceivePing(c)
           \/ \E v \in Conversations : Accept(c, v) \/ Post(c, v)
           \/ SendDone(c) \/ SendFailed(c),
           TypeOK
    PROVE  hdl'[a] = hdl[a]
<1>1. hdl \in [Actors -> Handler]
  BY DEF TypeOK
<1>2. ASSUME NEW v, NEW stage, NEW exclude, NEW closed, Broadcast(c, v, stage, exclude, closed)
      PROVE  hdl'[a] = hdl[a]
  BY <1>1, <1>2 DEF Broadcast
<1>3. ASSUME NEW h, NEW closed, NEW failed, Continue(c, h, closed, failed) PROVE hdl'[a] = hdl[a]
  BY <1>1, <1>3 DEF Continue
<1>4. CASE WelcomeFails(c) \/ ReplySent(c) \/ ConfirmFails(c) \/ ReceivePing(c)
  BY <1>1, <1>4 DEF WelcomeFails, ReplySent, ConfirmFails, ReceivePing
<1>5. CASE ReplyFails(c) \/ Leave(c)
  BY <1>2, <1>5 DEF ReplyFails, Leave, Goodbye
<1>6. CASE ReceiveMessage(c) \/ ReceiveNotice(c)
  BY <1>2, <1>6 DEF ReceiveMessage, ReceiveNotice
<1>7. CASE \E v \in Conversations : Accept(c, v) \/ Post(c, v)
  <2>1. PICK v \in Conversations : Accept(c, v) \/ Post(c, v)
    BY <1>7
  <2>2. CASE Accept(c, v)
    BY <1>1, <2>2 DEF Accept
  <2>3. CASE Post(c, v)
    BY <1>2, <2>3 DEF Post
  <2> QED
    BY <2>1, <2>2, <2>3
<1>8. CASE SendDone(c)
  BY <1>3, <1>8 DEF SendDone
<1>9. CASE SendFailed(c)
  BY <1>3, <1>9 DEF SendFailed
<1> QED
  BY <1>4, <1>5, <1>6, <1>7, <1>8, <1>9

LEMMA OnlySendsEnd ==
    ASSUME IInv, Next, NEW a \in Actors, hdl[a].pc = "sending", hdl'[a].pc # "sending"
    PROVE  SendDone(a) \/ SendFailed(a)
<1>0. TypeOK /\ hdl[a] \in Handler /\ hdl'[a] # hdl[a]
  BY SocketsAreClients DEF IInv
<1>1. ASSUME NEW c \in Clients, Serving(c) PROVE FALSE
  <2>1. CASE Connect(c)
    <3>1. CASE c = a
      BY <2>1, <3>1 DEF Connect
    <3>2. CASE c # a
      <4>1. hdl'[a] = Grown(hdl[a], hdl[c].room)
        BY <2>1, <3>2 DEF Connect, Grown
      <4> QED
        BY <4>1, <1>0, GrownIs
    <3> QED
      BY <3>1, <3>2
  <2>2. CASE WelcomeFails(c) \/ ReplySent(c) \/ ConfirmFails(c) \/ ReplyFails(c) \/ Leave(c)
    <3>1. c # a
      BY <2>2 DEF WelcomeFails, ReplySent, ConfirmFails, ReplyFails, Leave
    <3> QED
      BY <1>0, <2>2, <3>1, OtherHandlersStay
  <2> QED
    BY <1>1, <2>1, <2>2 DEF Serving
<1>2. ASSUME Outside PROVE FALSE
  <2>1. ASSUME NEW c \in Clients, Drop(c) PROVE FALSE
    BY <2>1, <1>0 DEF Drop
  <2>2. ASSUME NEW c \in Clients, ReceiveMessage(c) \/ ReceiveNotice(c) \/ ReceivePing(c)
        PROVE FALSE
    <3>1. c # a
      BY <2>2 DEF ReceiveMessage, ReceiveNotice, ReceivePing, Received
    <3> QED
      BY <1>0, <2>2, <3>1, OtherHandlersStay
  <2>3. ASSUME NEW v \in Conversations, NEW c \in Clients, Accept(c, v) PROVE FALSE
    <3>1. c # a
      BY <2>3 DEF Accept, IInv, SocketsOK
    <3> QED
      BY <1>0, <2>3, <3>1, OtherHandlersStay
  <2>4. ASSUME NEW v \in Conversations, NEW p \in Posts, Post(p, v) PROVE FALSE
    <3>1. p # a
      BY <2>4 DEF Post
    <3> QED
      BY <1>0, <2>4, <3>1, OtherHandlersStay
  <2>5. ASSUME NEW v \in Conversations, CreateGroup(v, Members) PROVE FALSE
    BY <2>5, <1>0 DEF CreateGroup
  <2>6. ASSUME NEW v \in Conversations, DeleteConversation(v) PROVE FALSE
    <3>1. hdl'[a] = IF hdl[a].room = v THEN [hdl[a] EXCEPT !.attached = FALSE] ELSE hdl[a]
      BY <2>6 DEF DeleteConversation, Detach
    <3>2. hdl'[a].pc = hdl[a].pc
      BY <3>1, <1>0 DEF Handler
    <3> QED
      BY <3>2
  <2> QED
    BY <1>2, <2>1, <2>2, <2>3, <2>4, <2>5, <2>6 DEF Outside
<1>3. ASSUME NEW b \in Actors, b # a, Broadcasting(b) PROVE FALSE
  BY <1>0, <1>3, OtherHandlersStay DEF Broadcasting
<1>4. \E b \in Actors : Broadcasting(b)
  BY <1>1, <1>2 DEF Next
<1> QED
  BY <1>3, <1>4 DEF Broadcasting

LEMMA EndsHavingReached ==
    ASSUME IInv, Next, NEW a \in Actors,
           hdl[a].pc = "sending", hdl'[a].pc # "sending", ~hdl[a].broken,
           NEW d \in hdl[a].owed \ {hdl[a].at}
    PROVE  Left(d)
<1>1. Sound(a) /\ hdl[a] \in Handler /\ hdl[a].broken = FALSE
  BY SocketsAreClients DEF IInv, Handler
<1>2. CASE SendDone(a)
  <2> DEFINE h == [hdl[a] EXCEPT !.owed = @ \ {hdl[a].at}]
  <2>0. PICK closed \in BOOLEAN : \E failed : Continue(a, h, closed, failed)
    <3>1. Continue(a, h, a \in app_closed, {}) /\ (a \in app_closed) \in BOOLEAN
      BY <1>2 DEF SendDone
    <3> QED
      BY <3>1
  <2>1. PICK failed : Continue(a, h, closed, failed)
    BY <2>0
  <2>2. /\ h \in Handler /\ h.owed = hdl[a].owed \ {hdl[a].at} /\ h.broken = FALSE
        /\ h.left = hdl[a].left /\ h.exclude = hdl[a].exclude
    BY <1>1 DEF Handler
  <2>3. \A e \in h.owed : Joined(e) /\ (Left(e) \/ e \in h.left \ {h.exclude})
    BY <1>1, <2>2 DEF Sound
  <2> HIDE DEF h
  <2>4. \A e \in h.owed : Left(e)
    BY <2>1, <2>2, <2>3, LastSend
  <2> QED
    BY <2>2, <2>4
<1>3. CASE SendFailed(a)
  <2> DEFINE h == hdl[a]
  <2>0. PICK closed \in BOOLEAN : \E failed : Continue(a, h, closed, failed)
    <3>1. Continue(a, h, a \in app_closed', {h.at}) /\ (a \in app_closed') \in BOOLEAN
      BY <1>3 DEF SendFailed
    <3> QED
      BY <3>1
  <2>1. PICK failed : Continue(a, h, closed, failed)
    BY <2>0
  <2>2. Left(h.at)
    BY <1>3 DEF SendFailed, Left
  <2>3. \A e \in h.owed : Joined(e) /\ (Left(e) \/ e \in h.left \ {h.exclude})
    BY <1>1, <2>2 DEF Sound
  <2> HIDE DEF h
  <2>4. \A e \in h.owed : Left(e)
    BY <1>1, <2>1, <2>3, LastSend DEF h
  <2> QED
    BY <2>4 DEF h
<1> QED
  BY <1>2, <1>3, OnlySendsEnd

\* A broadcast of any kind during which nobody joins the conversation ends only when
\* every client it began with has been sent it or has left.
THEOREM BroadcastReachesAll == Spec => ReachesAllUnlessGrown
<1>1. ASSUME IInv, [Next]_vars
      PROVE  [\A a \in Actors :
                 hdl[a].pc = "sending" /\ hdl'[a].pc # "sending" /\ ~hdl[a].broken
                 => \A d \in hdl[a].owed \ {hdl[a].at} : peer[d] = "gone"]_vars
  BY <1>1, EndsHavingReached DEF Left
<1> QED
  BY <1>1, Invariance, PTL DEF Spec, ReachesAllUnlessGrown
=============================================================================
