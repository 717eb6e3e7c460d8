------------------------- MODULE SyncSessionsProofs -------------------------
(***************************************************************************)
(* Theorems about SyncSessions, for every number of slots and every size of *)
(* the pools.  What makes the properties inductive is where a connection    *)
(* must be (Holders), not only where it may be (NothingLeaks), and who      *)
(* holds up the loop (LoopHeld).                                            *)
(***************************************************************************)
EXTENDS SyncSessions, FiniteSetTheorems, TLAPS

\* A request that works or is suspended has its synchronous connection, and so has
\* one that is closing while it holds an asynchronous one; only a social request waits.
Holders ==
    /\ \A r \in Requests : req[r].pc \in {"working", "waiting", "awaiting"} => r \in sync
    /\ \A r \in async : req[r].pc = "closing" => r \in sync
    /\ \A r \in Requests : req[r].pc = "waiting" => req[r].kind = "social"

\* A coroutine that waits for a connection of engine, or uses one, holds up the loop.
LoopHeld ==
    \A r \in Requests :
       req[r].kind # "threaded" /\ req[r].pc \in {"asking", "working"} => loop = r

IInv == TypeOK /\ NothingLeaks /\ Holders /\ LoopHeld

-----------------------------------------------------------------------------
(* Pools as sets *)

\* Taking a connection that is free keeps a pool within its size.
LEMMA TakeOne ==
    ASSUME NEW held \in SUBSET Requests, Cardinality(held) =< Capacity, Free(held), NEW r \in Requests
    PROVE  /\ held \union {r} \in SUBSET Requests
           /\ Cardinality(held \union {r}) =< Capacity
<1>1. IsFiniteSet(held)
  BY FS_Subset, RequestsAssumption
<1>2. Cardinality(held) \in Nat
  BY <1>1, FS_CardinalityType
<1>3. \/ Cardinality(held \union {r}) = Cardinality(held)
      \/ Cardinality(held \union {r}) = Cardinality(held) + 1
  BY <1>1, FS_AddElement
<1> QED
  BY <1>2, <1>3, CapacityAssumption, SMT DEF Free

\* Giving one back does, too.
LEMMA GiveBack ==
    ASSUME NEW held \in SUBSET Requests, Cardinality(held) =< Capacity, NEW r
    PROVE  /\ held \ {r} \in SUBSET Requests
           /\ Cardinality(held \ {r}) =< Capacity
<1>1. IsFiniteSet(held)
  BY FS_Subset, RequestsAssumption
<1>2. Cardinality(held) \in Nat /\ Cardinality(held \ {r}) \in Nat
  BY <1>1, FS_CardinalityType, FS_RemoveElement, FS_Subset
<1>3. Cardinality(held \ {r}) =< Cardinality(held)
  BY <1>1, FS_Subset
<1> QED
  BY <1>2, <1>3, CapacityAssumption, SMT

\* A set of requests that empties a pool, and one request more, are in excess of it.
LEMMA OneMore ==
    ASSUME NEW held \in SUBSET Requests, ~Free(held), NEW r \in Requests, r \notin held,
           NEW all \in SUBSET Requests, held \union {r} \subseteq all
    PROVE  Cardinality(all) > Capacity
<1>1. IsFiniteSet(all) /\ IsFiniteSet(held) /\ IsFiniteSet(held \union {r})
  BY FS_Subset, RequestsAssumption
<1>2. Cardinality(all) \in Nat /\ Cardinality(held) \in Nat /\ Cardinality(held \union {r}) \in Nat
  BY <1>1, FS_CardinalityType
<1>3. Cardinality(held \union {r}) = Cardinality(held) + 1
  BY <1>1, FS_AddElement
<1>4. Cardinality(held \union {r}) =< Cardinality(all)
  BY <1>1, FS_Subset
<1> QED
  BY <1>2, <1>3, <1>4, CapacityAssumption, SMT DEF Free

-----------------------------------------------------------------------------
(* The invariant *)

LEMMA Initially == Init => IInv
<1> SUFFICES ASSUME Init PROVE IInv
  OBVIOUS
<1>1. Cardinality({}) = 0
  BY FS_EmptySet
<1>2. TypeOK
  BY <1>1, CapacityAssumption, SMT DEF Init, TypeOK, Nothing, Request, Kinds
<1> QED
  BY <1>2, RequestsAssumption, SMT DEF Init, IInv, NothingLeaks, Holders, LoopHeld, Nothing

\* A step of r that leaves the connections and the loop of the others alone keeps
\* the invariant if it puts things right for r.
LEMMA OwnStep ==
    ASSUME IInv, NEW r \in Requests, NEW row \in Request, req' = [req EXCEPT ![r] = row],
           sync' \in SUBSET Requests, Cardinality(sync') =< Capacity,
           async' \in SUBSET Requests, Cardinality(async') =< Capacity,
           loop' \in Requests \union {NoRequest},
           \A q \in Requests \ {r} : /\ q \in sync' <=> q \in sync
                                     /\ q \in async' <=> q \in async
                                     /\ loop = q => loop' = q,
           r \in sync' => row.pc \in {"working", "waiting", "awaiting", "ended", "closing"},
           r \in async' => row.kind = "social" /\ row.pc \in {"awaiting", "closing", "closed"},
           row.pc \in {"working", "waiting", "awaiting"} => r \in sync',
           r \in async' /\ row.pc = "closing" => r \in sync',
           row.pc = "waiting" => row.kind = "social",
           row.kind # "threaded" /\ row.pc \in {"asking", "working"} => loop' = r
    PROVE  IInv'
<1>1. req \in [Requests -> Request]
  BY DEF IInv, TypeOK
<1>2. TypeOK'
  BY <1>1 DEF TypeOK
<1>3. req'[r] = row /\ \A q \in Requests : q # r => req'[q] = req[q]
  BY <1>1
<1>4. sync \subseteq Requests /\ async \subseteq Requests
  BY DEF IInv, TypeOK
<1>5. NothingLeaks'
  BY <1>3, <1>4, SMT DEF IInv, NothingLeaks
<1>6. Holders'
  BY <1>3, <1>4, SMT DEF IInv, Holders
<1>7. LoopHeld'
  BY <1>3, SMT DEF IInv, LoopHeld
<1> QED
  BY <1>2, <1>5, <1>6, <1>7 DEF IInv

Pcs == {"idle", "begun", "asking", "working", "waiting", "awaiting", "ended", "closing", "closed"}

\* The row a step leaves in its slot.
LEMMA Rows ==
    ASSUME req \in [Requests -> Request], NEW r \in Requests, NEW pc \in Pcs
    PROVE  /\ Goes(r, pc) => \E row \in Request :
                /\ req' = [req EXCEPT ![r] = row]
                /\ row.pc = pc /\ row.kind = req[r].kind /\ row.failed = req[r].failed
           /\ Fails(r, pc) => \E row \in Request :
                /\ req' = [req EXCEPT ![r] = row]
                /\ row.pc = pc /\ row.kind = req[r].kind
           /\ Commits(r, pc) => \E row \in Request :
                /\ req' = [req EXCEPT ![r] = row]
                /\ row.pc = pc /\ row.kind = req[r].kind /\ row.failed = req[r].failed
<1> DEFINE gone == [req[r] EXCEPT !.pc = pc]
           failing == [kind |-> req[r].kind, committed |-> req[r].committed, failed |-> TRUE, pc |-> pc]
           committing == [kind |-> req[r].kind, committed |-> TRUE, failed |-> req[r].failed, pc |-> pc]
<1>1. req[r] \in Request
  OBVIOUS
<1>2. gone \in Request /\ gone.pc = pc /\ gone.kind = req[r].kind /\ gone.failed = req[r].failed
  BY <1>1, SMT DEF Request, Pcs
<1>3. failing \in Request /\ failing.pc = pc /\ failing.kind = req[r].kind
  BY <1>1, SMT DEF Request, Pcs
<1>4. /\ committing \in Request /\ committing.pc = pc
      /\ committing.kind = req[r].kind /\ committing.failed = req[r].failed
  BY <1>1, SMT DEF Request, Pcs
<1>5. /\ Goes(r, pc) => req' = [req EXCEPT ![r] = gone]
      /\ Fails(r, pc) => req' = [req EXCEPT ![r] = failing]
      /\ Commits(r, pc) => req' = [req EXCEPT ![r] = committing]
  BY DEF Goes, Fails, Commits
<1> HIDE DEF gone, failing, committing
<1> QED
  BY <1>2, <1>3, <1>4, <1>5
\* Each action of a request keeps the invariant.
LEMMA EachStep ==
    ASSUME IInv, NEW r \in Requests, Running(r) \/ Scheduled(r) \/ \E kind \in Kinds : Begin(r, kind)
    PROVE  IInv'
<1>1. /\ req \in [Requests -> Request]
      /\ sync \in SUBSET Requests /\ Cardinality(sync) =< Capacity
      /\ async \in SUBSET Requests /\ Cardinality(async) =< Capacity
      /\ loop \in Requests \union {NoRequest} /\ r # NoRequest
  BY RequestsAssumption DEF IInv, TypeOK
<1>2. /\ r \in sync => req[r].pc \in {"working", "waiting", "awaiting", "ended", "closing"}
      /\ r \in async => req[r].kind = "social" /\ req[r].pc \in {"awaiting", "closing", "closed"}
      /\ req[r].pc \in {"working", "waiting", "awaiting"} => r \in sync
      /\ r \in async /\ req[r].pc = "closing" => r \in sync
      /\ req[r].pc = "waiting" => req[r].kind = "social"
      /\ req[r].kind # "threaded" /\ req[r].pc \in {"asking", "working"} => loop = r
  BY <1>1 DEF IInv, NothingLeaks, Holders, LoopHeld
<1>3. /\ sync \ {r} \in SUBSET Requests /\ Cardinality(sync \ {r}) =< Capacity
      /\ async \ {r} \in SUBSET Requests /\ Cardinality(async \ {r}) =< Capacity
  BY <1>1, GiveBack
<1>4. /\ Free(sync) => /\ sync \union {r} \in SUBSET Requests
                       /\ Cardinality(sync \union {r}) =< Capacity
      /\ Free(async) => /\ async \union {r} \in SUBSET Requests
                        /\ Cardinality(async \union {r}) =< Capacity
  BY <1>1, TakeOne
<1>5. ASSUME NEW kind \in Kinds, Begin(r, kind) PROVE IInv'
  <2> DEFINE row == [kind |-> kind, committed |-> FALSE, failed |-> FALSE, pc |-> "begun"]
  <2>1. row \in Request /\ row.pc = "begun"
    BY SMT DEF Request
  <2>2. req' = [req EXCEPT ![r] = row] /\ req[r].pc = "idle"
    BY <1>5 DEF Begin
  <2> HIDE DEF row
  <2> QED
    BY <1>1, <1>2, <1>5, <2>1, <2>2, OwnStep, ZenonT(60) DEF Begin
<1>6. CASE Ask(r)
  <2>1. PICK row \in Request : /\ req' = [req EXCEPT ![r] = row]
                               /\ row.pc = "asking" /\ row.kind = req[r].kind
    BY <1>1, <1>6, Rows DEF Ask, Pcs
  <2>2. loop \notin Requests /\ loop' \in Requests \union {NoRequest}
    BY <1>6, RequestsAssumption DEF Ask, LoopFree
  <2>3. row.kind # "threaded" => loop' = r
    BY <1>6, <2>1 DEF Ask
  <2> QED
    BY <1>1, <1>2, <1>6, <2>1, <2>2, <2>3, OwnStep DEF Ask
<1>7. CASE Connected(r)
  <2>1. CASE req[r].kind = "social" /\ Goes(r, "waiting") /\ LoopLeft(r)
    <3>1. PICK row \in Request : /\ req' = [req EXCEPT ![r] = row]
                                 /\ row.pc = "waiting" /\ row.kind = req[r].kind
      BY <1>1, <2>1, Rows DEF Pcs
    <3> QED
      BY <1>1, <1>2, <1>4, <1>7, <2>1, <3>1, OwnStep DEF Connected, LoopLeft
  <2>2. CASE req[r].kind # "social" /\ Goes(r, "working") /\ UNCHANGED loop
    <3>1. PICK row \in Request : /\ req' = [req EXCEPT ![r] = row]
                                 /\ row.pc = "working" /\ row.kind = req[r].kind
      BY <1>1, <2>2, Rows DEF Pcs
    <3> QED
      BY <1>1, <1>2, <1>4, <1>7, <2>2, <3>1, OwnStep DEF Connected
  <2>3. CASE Goes(r, "closing") /\ req[r].kind # "threaded" /\ LoopLeft(r)
    <3>1. PICK row \in Request : /\ req' = [req EXCEPT ![r] = row]
                                 /\ row.pc = "closing" /\ row.kind = req[r].kind
      BY <1>1, <2>3, Rows DEF Pcs
    <3> QED
      BY <1>1, <1>2, <1>4, <1>7, <2>3, <3>1, OwnStep DEF Connected, LoopLeft
  <2> QED
    BY <1>7, <2>1, <2>2, <2>3 DEF Connected
<1>8. CASE TimedOut(r)
  <2>1. PICK row \in Request : /\ req' = [req EXCEPT ![r] = row]
                               /\ row.pc \in {"ended", "closing"} /\ row.kind = req[r].kind
    BY <1>1, <1>8, Rows DEF TimedOut, Pcs
  <2> QED
    BY <1>1, <1>2, <1>8, <2>1, OwnStep DEF TimedOut, LoopLeft
<1>9. CASE Commit(r)
  <2>1. PICK row \in Request : /\ req' = [req EXCEPT ![r] = row]
                               /\ row.pc = "asking" /\ row.kind = req[r].kind
    BY <1>1, <1>9, Rows DEF Commit, Pcs
  <2> QED
    BY <1>1, <1>2, <1>3, <1>9, <2>1, OwnStep DEF Commit
<1>10. CASE Finish(r)
  <2>1. \E pc \in {"ended", "closing", "awaiting"} : Goes(r, pc)
    BY <1>10 DEF Finish
  <2>2. PICK row \in Request : /\ req' = [req EXCEPT ![r] = row]
                               /\ row.pc \in {"ended", "closing", "awaiting"} /\ row.kind = req[r].kind
    BY <1>1, <2>1, Rows DEF Pcs
  <2> QED
    BY <1>1, <1>2, <1>10, <2>2, OwnStep DEF Finish, LoopLeft
<1>11. CASE Close(r)
  <2>1. PICK row \in Request : /\ req' = [req EXCEPT ![r] = row]
                               /\ row.pc = "closed" /\ row.kind = req[r].kind
    BY <1>1, <1>11, Rows DEF Close, Pcs
  <2> QED
    BY <1>1, <1>2, <1>3, <1>11, <2>1, OwnStep DEF Close
<1>12. CASE Returned(r)
  <2>1. PICK row \in Request : /\ req' = [req EXCEPT ![r] = row]
                               /\ row.pc = "closing" /\ row.kind = req[r].kind
    BY <1>1, <1>12, Rows DEF Returned, Pcs
  <2> QED
    BY <1>1, <1>2, <1>12, <2>1, OwnStep DEF Returned
<1>13. CASE Resume(r)
  <2>1. PICK row \in Request : /\ req' = [req EXCEPT ![r] = row]
                               /\ row.pc = "closing" /\ row.kind = req[r].kind
    BY <1>1, <1>13, Rows DEF Resume, Pcs
  <2> QED
    BY <1>1, <1>2, <1>13, <2>1, OwnStep DEF Resume
<1>14. CASE Answer(r)
  <2>1. /\ Nothing \in Request /\ Nothing.pc = "idle"
    BY SMT DEF Nothing, Request, Kinds
  <2>2. req' = [req EXCEPT ![r] = Nothing]
    BY <1>14 DEF Answer
  <2> QED
    BY <1>1, <1>2, <1>3, <1>14, <2>1, <2>2, OwnStep DEF Answer
<1>15. CASE AsyncConnected(r)
  <2>1. PICK row \in Request : /\ req' = [req EXCEPT ![r] = row]
                               /\ row.pc = "awaiting" /\ row.kind = req[r].kind
    BY <1>1, <1>15, Rows DEF AsyncConnected, Pcs
  <2>2. req[r].kind = "social"
    BY <1>2, <1>15 DEF AsyncConnected
  <2> QED
    BY <1>1, <1>2, <1>4, <1>15, <2>1, <2>2, OwnStep DEF AsyncConnected
<1>16. CASE AsyncTimedOut(r)
  <2>1. PICK row \in Request : /\ req' = [req EXCEPT ![r] = row]
                               /\ row.pc = "closing" /\ row.kind = req[r].kind
    BY <1>1, <1>16, Rows DEF AsyncTimedOut, Pcs
  <2> QED
    BY <1>1, <1>2, <1>16, <2>1, OwnStep DEF AsyncTimedOut
<1>17. CASE AsyncCommit(r)
  <2>1. PICK row \in Request : /\ req' = [req EXCEPT ![r] = row]
                               /\ row.pc \in {"waiting", "closing"} /\ row.kind = req[r].kind
    BY <1>1, <1>17, Rows DEF AsyncCommit, Pcs
  <2> QED
    BY <1>1, <1>2, <1>3, <1>17, <2>1, OwnStep DEF AsyncCommit
<1>18. CASE Refused(r)
  <2>1. PICK row \in Request : /\ req' = [req EXCEPT ![r] = row]
                               /\ row.pc = "closing" /\ row.kind = req[r].kind
    BY <1>1, <1>18, Rows DEF Refused, Pcs
  <2>2. r \notin async
    BY <1>2, <1>18 DEF Refused
  <2> QED
    BY <1>1, <1>2, <1>18, <2>1, <2>2, OwnStep DEF Refused
<1> QED
  BY <1>5, <1>6, <1>7, <1>8, <1>9, <1>10, <1>11, <1>12, <1>13, <1>14, <1>15, <1>16, <1>17, <1>18
     DEF Running, Scheduled

\* The invariant holds in every reachable state.
THEOREM Invariance == Spec => []IInv
<1>1. Init => IInv
  BY Initially
<1>2. ASSUME IInv, [Next]_vars PROVE IInv'
  <2>1. CASE Next
    BY <1>2, <2>1, EachStep DEF Next
  <2>2. CASE UNCHANGED vars
    BY <1>2, <2>2 DEF vars, IInv, TypeOK, NothingLeaks, Holders, LoopHeld
  <2> QED
    BY <1>2, <2>1, <2>2
<1> QED
  BY <1>1, <1>2, PTL DEF Spec

\* Type correctness: no pool hands out more connections than it has.
THEOREM TypeCorrect == Spec => []TypeOK
<1>1. IInv => TypeOK
  BY DEF IInv
<1> QED
  BY <1>1, Invariance, PTL

\* No connection stays with a request that is over or will not give it back.
THEOREM NoLeak == Spec => []NothingLeaks
<1>1. IInv => NothingLeaks
  BY DEF IInv
<1> QED
  BY <1>1, Invariance, PTL

-----------------------------------------------------------------------------
(* What a pool that is empty tells *)

\* If everybody who holds an asynchronous connection held a synchronous one too, the
\* waiting request's would be one more than there are.
LEMMA EmptiedByLeavers == IInv => WaitsForLeavers
<1> SUFFICES ASSUME IInv, NEW r \in Requests, req[r].pc = "waiting", ~Free(async),
                    \A d \in async : req[d].pc # "closed"
             PROVE  FALSE
  BY DEF WaitsForLeavers
<1>1. async \in SUBSET Requests /\ sync \in SUBSET Requests /\ Cardinality(sync) =< Capacity
  BY DEF IInv, TypeOK
<1>2. async \subseteq sync
  BY <1>1 DEF IInv, NothingLeaks, Holders
<1>3. r \in sync /\ r \notin async
  BY DEF IInv, NothingLeaks, Holders
<1>4. Cardinality(sync) > Capacity
  BY <1>1, <1>2, <1>3, OneMore
<1>5. Cardinality(sync) \in Nat
  BY <1>1, FS_Subset, FS_CardinalityType, RequestsAssumption
<1> QED
  BY <1>1, <1>4, <1>5, CapacityAssumption, SMT

\* A social request that finds the asynchronous pool empty waits for one whose
\* synchronous session is closed.
THEOREM WaitingForLeavers == Spec => []WaitsForLeavers
<1> QED
  BY EmptiedByLeavers, Invariance, PTL

LEMMA FailureIsExcess ==
    ASSUME IInv, NEW r \in Requests, TimedOut(r) \/ AsyncTimedOut(r)
    PROVE  Cardinality(InProgress) > Capacity
<1>1. sync \in SUBSET Requests /\ async \in SUBSET Requests /\ InProgress \in SUBSET Requests
  BY DEF IInv, TypeOK, InProgress
<1>2. sync \subseteq InProgress /\ async \subseteq InProgress
  BY <1>1 DEF IInv, NothingLeaks, InProgress
<1>3. CASE TimedOut(r)
  <2>1. r \in InProgress /\ r \notin sync /\ ~Free(sync)
    BY <1>3 DEF TimedOut, InProgress, IInv, NothingLeaks
  <2> QED
    BY <1>1, <1>2, <2>1, OneMore
<1>4. CASE AsyncTimedOut(r)
  <2>1. r \in InProgress /\ r \notin async /\ ~Free(async)
    BY <1>4 DEF AsyncTimedOut, InProgress, IInv, NothingLeaks
  <2> QED
    BY <1>1, <1>2, <2>1, OneMore
<1> QED
  BY <1>3, <1>4

\* A step of r writes its own row only, and sets failed in a timeout only.
LEMMA OwnRow ==
    ASSUME IInv, NEW r \in Requests, Running(r) \/ Scheduled(r) \/ \E kind \in Kinds : Begin(r, kind)
    PROVE  \E row \in Request :
              /\ req' = [req EXCEPT ![r] = row]
              /\ row.failed \in {FALSE, req[r].failed} \/ TimedOut(r) \/ AsyncTimedOut(r)
<1>1. req \in [Requests -> Request]
  BY DEF IInv, TypeOK
<1>2. ASSUME NEW kind \in Kinds, Begin(r, kind)
      PROVE  \E row \in Request : req' = [req EXCEPT ![r] = row] /\ row.failed = FALSE
  <2>1. [kind |-> kind, committed |-> FALSE, failed |-> FALSE, pc |-> "begun"] \in Request
    BY SMT DEF Request
  <2> QED
    BY <1>2, <2>1 DEF Begin
<1>3. ASSUME NEW pc \in Pcs, Goes(r, pc) \/ Commits(r, pc)
      PROVE  \E row \in Request : req' = [req EXCEPT ![r] = row] /\ row.failed = req[r].failed
  BY <1>1, <1>3, Rows
<1>4. ASSUME NEW pc \in Pcs, Fails(r, pc)
      PROVE  \E row \in Request : req' = [req EXCEPT ![r] = row]
  BY <1>1, <1>4, Rows
<1>5. CASE TimedOut(r) \/ AsyncTimedOut(r)
  <2>1. \E pc \in Pcs : Fails(r, pc)
    BY <1>5 DEF TimedOut, AsyncTimedOut, Pcs
  <2> QED
    BY <1>4, <1>5, <2>1
<1>6. CASE Answer(r)
  <2>1. Nothing \in Request /\ Nothing.failed = FALSE
    BY SMT DEF Nothing, Request, Kinds
  <2> QED
    BY <1>6, <2>1 DEF Answer
<1>7. CASE \/ Ask(r) \/ Refused(r) \/ Connected(r) \/ Finish(r) \/ Close(r) \/ Returned(r) \/ Resume(r)
           \/ AsyncConnected(r)
  <2>1. \E pc \in Pcs : Goes(r, pc)
    BY <1>7 DEF Ask, Refused, Connected, Finish, Close, Returned, Resume, AsyncConnected, Pcs
  <2> QED
    BY <1>3, <2>1
<1>8. CASE Commit(r) \/ AsyncCommit(r)
  <2>1. \E pc \in Pcs : Commits(r, pc)
    BY <1>8 DEF Commit, AsyncCommit, Pcs
  <2> QED
    BY <1>3, <2>1
<1> QED
  BY <1>2, <1>5, <1>6, <1>7, <1>8 DEF Running, Scheduled

\* A request fails only while there are more of them than connections in a pool.
THEOREM FailuresAreExcess == Spec => FailsOnlyInExcess
<1>1. ASSUME IInv, [Next]_vars, NEW r \in Requests, ~req[r].failed, req'[r].failed
      PROVE  Cardinality(InProgress) > Capacity
  <2>1. req \in [Requests -> Request]
    BY <1>1 DEF IInv, TypeOK
  <2>2. CASE Next
    <3>1. PICK q \in Requests : Running(q) \/ Scheduled(q) \/ \E kind \in Kinds : Begin(q, kind)
      BY <2>2 DEF Next
    <3>2. PICK row \in Request :
             /\ req' = [req EXCEPT ![q] = row]
             /\ row.failed \in {FALSE, req[q].failed} \/ TimedOut(q) \/ AsyncTimedOut(q)
      BY <1>1, <3>1, OwnRow
    <3>3. q = r
      BY <1>1, <2>1, <3>2
    <3>4. req'[r].failed = row.failed
      BY <2>1, <3>2, <3>3
    <3>5. TimedOut(r) \/ AsyncTimedOut(r)
      BY <1>1, <3>2, <3>3, <3>4
    <3> QED
      BY <1>1, <3>5, FailureIsExcess
  <2>3. CASE UNCHANGED vars
    BY <1>1, <2>3 DEF vars
  <2> QED
    BY <1>1, <2>2, <2>3
<1>2. IInv /\ [Next]_vars
      => [\A r \in Requests : ~req[r].failed /\ req'[r].failed => Cardinality(InProgress) > Capacity]_vars
  BY <1>1
<1> QED
  BY <1>2, Invariance, PTL DEF Spec, FailsOnlyInExcess

-----------------------------------------------------------------------------
(* The freeze *)

\* What can happen in a freeze: the wait ends in a timeout, a thread's wait does, or
\* a session that holds nothing is closed.
LEMMA FrozenSteps ==
    ASSUME IInv, Frozen, NEW q \in Requests,
           Running(q) \/ Scheduled(q) \/ \E kind \in Kinds : Begin(q, kind)
    PROVE  TimedOut(q) \/ (Close(q) /\ q \notin sync)
<1>1. ~LoopFree /\ loop \in Requests
  BY DEF Frozen, LoopFree, IInv, TypeOK
<1>2. ~Scheduled(q) /\ ~(\E kind \in Kinds : Begin(q, kind))
  BY <1>1 DEF Scheduled, Begin, Ask, Refused, Returned, Resume, Answer, AsyncConnected, AsyncTimedOut, AsyncCommit
<1>3. ~Connected(q)
  BY DEF Frozen, Connected
<1>4. ASSUME req[q].pc = "working" PROVE FALSE
  <2>1. q \in sync
    BY <1>4 DEF IInv, Holders
  <2>2. req[q].kind # "threaded"
    BY <2>1 DEF Frozen
  <2>3. loop = q
    BY <1>4, <2>2 DEF IInv, LoopHeld
  <2> QED
    BY <1>4, <2>3 DEF Frozen
<1>5. ~Commit(q) /\ ~Finish(q)
  BY <1>4 DEF Commit, Finish
<1>6. Close(q) => q \notin sync
  BY DEF Close, Frozen
<1> QED
  BY <1>2, <1>3, <1>5, <1>6 DEF Running

\* A freeze lasts until the request that froze the process has failed, and till then
\* nobody is answered.
THEOREM FreezeEndsInFailure == Spec => FrozenTillFailure
<1> DEFINE Stays == /\ Frozen' /\ loop' = loop
                    /\ \A r \in Requests : req[r].pc # "idle" => req'[r].pc # "idle"
<1>1. ASSUME IInv, Frozen, [Next]_vars PROVE Stays \/ req'[loop].failed
  <2>1. /\ req \in [Requests -> Request] /\ loop \in Requests
        /\ sync \subseteq Requests
    BY <1>1 DEF IInv, TypeOK, Frozen
  <2>2. CASE Next
    <3>1. PICK q \in Requests : Running(q) \/ Scheduled(q) \/ \E kind \in Kinds : Begin(q, kind)
      BY <2>2 DEF Next
    <3>2. TimedOut(q) \/ (Close(q) /\ q \notin sync)
      BY <1>1, <3>1, FrozenSteps
    <3>3. CASE TimedOut(q) /\ q = loop
      <4> DEFINE row == [kind |-> req[q].kind, committed |-> req[q].committed, failed |-> TRUE,
                         pc |-> IF req[q].kind = "threaded" THEN "ended" ELSE "closing"]
      <4>1. req' = [req EXCEPT ![q] = row] /\ row.failed
        BY <3>3 DEF TimedOut, Fails
      <4> HIDE DEF row
      <4> QED
        BY <2>1, <3>3, <4>1
    <3>4. CASE (TimedOut(q) \/ Close(q)) /\ q # loop /\ q \notin sync
      <4>1. PICK row \in Request : req' = [req EXCEPT ![q] = row] /\ row.pc # "idle"
        <5>1. \E pc \in Pcs \ {"idle"} : Goes(q, pc) \/ Fails(q, pc)
          BY <3>4 DEF TimedOut, Close, Pcs
        <5> QED
          BY <2>1, <5>1, Rows DEF Pcs
      <4>2. sync' = sync /\ loop' = loop
        BY <3>4 DEF TimedOut, Close, LoopLeft
      <4>3. req'[q] = row /\ \A r \in Requests : r # q => req'[r] = req[r]
        BY <2>1, <4>1
      <4>4. Frozen'
        BY <1>1, <2>1, <3>4, <4>2, <4>3 DEF Frozen, Free
      <4> QED
        BY <4>1, <4>2, <4>3, <4>4
    <3>5. CASE TimedOut(q) /\ q # loop
      <4>1. q \notin sync
        BY <3>5, <1>1 DEF TimedOut, IInv, NothingLeaks
      <4> QED
        BY <3>4, <3>5, <4>1
    <3>6. CASE Close(q) /\ q \notin sync
      <4>1. q # loop
        BY <1>1, <3>6 DEF Close, Frozen
      <4> QED
        BY <3>4, <3>6, <4>1
    <3> QED
      BY <3>2, <3>3, <3>5, <3>6
  <2>3. CASE UNCHANGED vars
    BY <1>1, <2>3 DEF vars, Frozen, Free
  <2> QED
    BY <1>1, <2>2, <2>3
<1>2. IInv /\ [Next]_vars => [Frozen => Stays \/ req'[loop].failed]_vars
  BY <1>1
<1> QED
  BY <1>2, Invariance, PTL DEF Spec, FrozenTillFailure
=============================================================================
