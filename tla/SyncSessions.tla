---------------------------- MODULE SyncSessions ----------------------------
(***************************************************************************)
(* What every request of the process shares: one event loop and two pools  *)
(* of database connections.  get_current_user queries a synchronous session *)
(* inside a coroutine, so that a request waits for a connection of the      *)
(* first pool with the whole loop in its hands; that connection stays with  *)
(* the request until get_db closes the session, for which the loop has to   *)
(* come by.  The handlers' work is abstracted to what they hold, and when.  *)
(***************************************************************************)
EXTENDS Naturals, FiniteSets

CONSTANTS
    Requests,   \* slots of requests in progress, used again
    NoRequest,  \* no request
    Capacity    \* pool_size + max_overflow, 5 + 10 for both engines

ASSUME RequestsAssumption == IsFiniteSet(Requests) /\ NoRequest \notin Requests
ASSUME CapacityAssumption == Capacity \in Nat \ {0}

VARIABLES
    req,      \* req[r]: the request in slot r
    sync,     \* requests that hold a connection of engine
    async,    \* requests that hold a connection of async_engine
    loop      \* the request in whose code the event loop is held up

vars == <<req, sync, async, loop>>

\* social: get_current_user, then an asynchronous session of its own (routers/);
\* service: get_current_user, then the same synchronous session (messaging_service);
\* threaded: a plain def, run in a thread of the pool (webhooks, i18n, ...).
Kinds == {"social", "service", "threaded"}

\* begun: the session exists and holds nothing.  asking: waits for a connection of
\* engine.  working: uses it, in the loop or in its thread.  waiting: for one of
\* async_engine.  awaiting: suspended.  ended: a thread has returned.  closing:
\* get_db's close is in a thread.  closed: the rest of the exit is left.
Request == [kind : Kinds, committed : BOOLEAN, failed : BOOLEAN,
            pc : {"idle", "begun", "asking", "working", "waiting", "awaiting", "ended",
                  "closing", "closed"}]

\* An empty slot.
Nothing == [kind |-> "social", committed |-> FALSE, failed |-> FALSE, pc |-> "idle"]

InProgress == {r \in Requests : req[r].pc # "idle"}

\* Mutant: a loop for each request.
LoopOfItsOwn == TRUE

\* No code of a coroutine runs while the loop is held up.
LoopFree == loop = NoRequest

\* Mutant: a connection more than there are.
FreeByOneMore(held) == Cardinality(held) =< Capacity

Free(held) == Cardinality(held) < Capacity

Goes(r, pc) == req' = [req EXCEPT ![r].pc = pc]
Fails(r, pc) ==
    req' = [req EXCEPT ![r] = [kind |-> @.kind, committed |-> @.committed, failed |-> TRUE, pc |-> pc]]
Commits(r, pc) ==
    req' = [req EXCEPT ![r] = [kind |-> @.kind, committed |-> TRUE, failed |-> @.failed, pc |-> pc]]

\* r leaves the loop, if that is where it is.
LoopLeft(r) == loop' = IF loop = r THEN NoRequest ELSE loop

-----------------------------------------------------------------------------
(* get_db, get_current_user, get_async_db, as FastAPI resolves them *)

\* The session of get_db is made, in a thread; nothing is taken from a pool.
Begin(r, kind) ==
    /\ LoopFree
    /\ req[r].pc = "idle"
    /\ req' = [req EXCEPT ![r] = [kind |-> kind, committed |-> FALSE, failed |-> FALSE, pc |-> "begun"]]
    /\ UNCHANGED <<sync, async, loop>>

\* The first query: of get_current_user, in the loop, or of a handler in its thread.
Ask(r) ==
    /\ LoopFree
    /\ req[r].pc = "begun"
    /\ Goes(r, "asking")
    /\ loop' = IF req[r].kind = "threaded" THEN NoRequest ELSE r
    /\ UNCHANGED <<sync, async>>

\* get_current_user rejects the token (401) before it queries anything.
Refused(r) ==
    /\ LoopFree
    /\ req[r].pc = "begun"
    /\ req[r].kind # "threaded"
    /\ Goes(r, "closing")
    /\ UNCHANGED <<sync, async, loop>>

\* Mutant: get_current_user ends its transaction.
ConnectedForTheQuery(r) ==
    /\ req[r].pc = "asking"
    /\ Free(sync)
    /\ sync' = IF req[r].kind = "social" THEN sync ELSE sync \union {r}
    /\ IF req[r].kind = "social" THEN Goes(r, "waiting") /\ LoopLeft(r)
       ELSE Goes(r, "working") /\ UNCHANGED loop
    /\ UNCHANGED async

\* The pool has a connection.  A social handler goes on to its own session.  If the
\* token names no user (401), get_current_user ends the request.
Connected(r) ==
    /\ req[r].pc = "asking"
    /\ Free(sync)
    /\ sync' = sync \union {r}
    /\ \/ req[r].kind = "social" /\ Goes(r, "waiting") /\ LoopLeft(r)
       \/ req[r].kind # "social" /\ Goes(r, "working") /\ UNCHANGED loop
       \/ req[r].kind # "threaded" /\ ~req[r].committed /\ Goes(r, "closing") /\ LoopLeft(r)
    /\ UNCHANGED async

\* Mutant: the request is tried again, as often as it takes.
TimedOutRetried(r) ==
    /\ req[r].pc = "asking"
    /\ ~Free(sync)
    /\ Goes(r, "begun")
    /\ LoopLeft(r)
    /\ UNCHANGED <<sync, async>>

\* QueuePool gives up after 30 seconds: the request is answered with an error.
TimedOut(r) ==
    /\ req[r].pc = "asking"
    /\ ~Free(sync)
    /\ Fails(r, IF req[r].kind = "threaded" THEN "ended" ELSE "closing")
    /\ LoopLeft(r)
    /\ UNCHANGED <<sync, async>>

\* Mutant: close is not in a finally.
CloseOnSuccess(r) ==
    /\ req[r].pc = "closing"
    /\ Goes(r, "closed")
    /\ sync' = IF req[r].failed THEN sync ELSE sync \ {r}
    /\ UNCHANGED <<async, loop>>

\* The end of get_db, in a thread: the first of the exits, being the last entered.
Close(r) ==
    /\ req[r].pc = "closing"
    /\ Goes(r, "closed")
    /\ sync' = sync \ {r}
    /\ UNCHANGED <<async, loop>>

\* The end of get_async_db, which was entered before get_db, and the answer.
Answer(r) ==
    /\ LoopFree
    /\ req[r].pc = "closed"
    /\ req' = [req EXCEPT ![r] = Nothing]
    /\ async' = async \ {r}
    /\ UNCHANGED <<sync, loop>>

-----------------------------------------------------------------------------
(* The handlers *)

\* commit gives the connection back, and the refresh that follows asks for one again:
\* in its thread, or in the loop without having left it.  One commit per request.
Commit(r) ==
    /\ req[r].pc = "working"
    /\ ~req[r].committed
    /\ Commits(r, "asking")
    /\ sync' = sync \ {r}
    /\ UNCHANGED <<async, loop>>

\* The handler returns, or awaits the broadcast of the message it has stored.
Finish(r) ==
    /\ req[r].pc = "working"
    /\ \/ req[r].kind = "threaded" /\ Goes(r, "ended")
       \/ req[r].kind = "service" /\ Goes(r, "closing")
       \/ req[r].kind = "service" /\ req[r].committed /\ Goes(r, "awaiting")
    /\ LoopLeft(r)
    /\ UNCHANGED <<sync, async>>

\* The loop learns that the thread has returned, and starts the exits.
Returned(r) ==
    /\ LoopFree
    /\ req[r].pc = "ended"
    /\ Goes(r, "closing")
    /\ UNCHANGED <<sync, async, loop>>

AsyncConnected(r) ==
    /\ LoopFree
    /\ req[r].pc = "waiting"
    /\ Free(async)
    /\ Goes(r, "awaiting")
    /\ async' = async \union {r}
    /\ UNCHANGED <<sync, loop>>

AsyncTimedOut(r) ==
    /\ LoopFree
    /\ req[r].pc = "waiting"
    /\ ~Free(async)
    /\ Fails(r, "closing")
    /\ UNCHANGED <<sync, async, loop>>

\* The commit of an asynchronous session; a refresh may follow it.
AsyncCommit(r) ==
    /\ LoopFree
    /\ req[r].pc = "awaiting"
    /\ req[r].kind = "social"
    /\ ~req[r].committed
    /\ \E pc \in {"waiting", "closing"} : Commits(r, pc)
    /\ async' = async \ {r}
    /\ UNCHANGED <<sync, loop>>

\* What a coroutine was waiting for is there: it returns, and the exits start.
Resume(r) ==
    /\ LoopFree
    /\ req[r].pc = "awaiting"
    /\ Goes(r, "closing")
    /\ UNCHANGED <<sync, async, loop>>

-----------------------------------------------------------------------------
Init ==
    /\ req = [r \in Requests |-> Nothing]
    /\ sync = {} /\ async = {}
    /\ loop = NoRequest

\* Steps of a thread, or of the code that holds up the loop.
Running(r) == Connected(r) \/ TimedOut(r) \/ Commit(r) \/ Finish(r) \/ Close(r)

\* Steps the loop must come by for.
Scheduled(r) ==
    \/ Ask(r) \/ Refused(r) \/ Returned(r) \/ Resume(r) \/ Answer(r)
    \/ AsyncConnected(r) \/ AsyncTimedOut(r) \/ AsyncCommit(r)

Next ==
    \E r \in Requests :
       \/ \E kind \in Kinds : Begin(r, kind)
       \/ Running(r)
       \/ Scheduled(r)

Spec == Init /\ [][Next]_vars

\* The operating system runs every thread, and the loop its callbacks in the order
\* in which they became ready: one that is ready again and again, whenever the loop
\* is not held up, gets its turn.
FairSpec == Spec /\ \A r \in Requests : WF_vars(Running(r)) /\ SF_vars(Scheduled(r))

-----------------------------------------------------------------------------
TypeOK ==
    /\ req \in [Requests -> Request]
    /\ sync \subseteq Requests /\ Cardinality(sync) =< Capacity
    /\ async \subseteq Requests /\ Cardinality(async) =< Capacity
    /\ loop \in Requests \union {NoRequest}

\* Nobody keeps a connection that nobody will give back: it belongs to a request in
\* progress whose session is still to be closed, through all failures.
NothingLeaks ==
    /\ \A r \in sync : req[r].pc \in {"working", "waiting", "awaiting", "ended", "closing"}
    /\ \A r \in async : req[r].kind = "social" /\ req[r].pc \in {"awaiting", "closing", "closed"}

\* Both pools are equally large, and a social request asks the second one with a
\* connection of the first in hand: when it finds it empty, one of those who emptied
\* it has already closed its synchronous session and is about to leave.
WaitsForLeavers ==
    \A r \in Requests :
       req[r].pc = "waiting" /\ ~Free(async) => \E d \in async : req[d].pc = "closed"

\* A request is failed for want of a connection only while more requests are in
\* progress than a pool has connections, whatever went wrong before.
FailsOnlyInExcess ==
    [][\A r \in Requests :
          ~req[r].failed /\ req'[r].failed => Cardinality(InProgress) > Capacity]_vars

\* The loop waits for a connection, and all of them are with coroutines that need
\* the loop to give them back.
Frozen ==
    /\ loop # NoRequest /\ req[loop].pc = "asking"
    /\ ~Free(sync)
    /\ \A r \in sync : req[r].kind # "threaded" /\ req[r].pc # "closing"

\* Nothing but the timeout ends that: no request of the process is answered before
\* the one that froze it has failed.
FrozenTillFailure ==
    [][Frozen => \/ Frozen' /\ loop' = loop /\ \A r \in Requests : req[r].pc # "idle" => req'[r].pc # "idle"
                 \/ req'[loop].failed]_vars

\* Every request is answered: no wait of one for another lasts for ever.
EveryRequestAnswered ==
    \A r \in Requests : req[r].pc # "idle" ~> req[r].pc = "idle"
=============================================================================
