-------------------------- MODULE AdminRolesProofs --------------------------
(***************************************************************************)
(* Proofs about AdminRoles, for any accounts, roles and number of requests. *)
(***************************************************************************)
EXTENDS AdminRoles, TLAPS

\* What the request in slot r may rely on after each await: the role asked for is a
\* role, what it loaded was in force, and as it comes to the reply what it asked for.
InHand(r) ==
    /\ req[r].pc # "idle" => req[r].code = 0
    /\ req[r].pc \in {"user", "commit", "reread"} => req[r].name \in Roles
    /\ req[r].pc = "commit" => req[r].loaded \in held[r]
    /\ req[r].pc = "reread" => req[r].name \in held[r]

IInv == TypeOK /\ TakesEffect /\ \A r \in Requests : InHand(r)

-----------------------------------------------------------------------------
LEMMA Initially == Init => IInv
<1> SUFFICES ASSUME Init PROVE IInv
  OBVIOUS
<1>1. \A r \in Requests : req[r].pc = "idle" /\ req[r].code = 0
  BY DEF Init
<1>2. TypeOK
  BY DEF Init, TypeOK, Request, People, Names, Codes
<1> QED
  BY <1>1, <1>2 DEF IInv, TakesEffect, InHand

\* A step that moves one request: the roles others held stay held.
LEMMA OneMoves ==
    ASSUME IInv, NEW r \in Requests, NEW q \in Request, req' = [req EXCEPT ![r] = q],
           role' \in [Users -> Roles \union {Gone}], held' \in [Requests -> SUBSET Roles],
           \A p \in Requests \ {r} : held[p] \subseteq held'[p],
           q.code = 200 => q.name \in held'[r],
           InHand(r)'
    PROVE  IInv'
<1>1. req'[r] = q /\ \A p \in Requests \ {r} : req'[p] = req[p]
  BY DEF IInv, TypeOK
<1>2. TypeOK'
  BY DEF IInv, TypeOK
<1>3. TakesEffect'
  BY <1>1 DEF IInv, TakesEffect
<1>4. ASSUME NEW p \in Requests PROVE InHand(p)'
  BY <1>1 DEF IInv, InHand
<1> QED
  BY <1>2, <1>3, <1>4 DEF IInv

LEMMA ArriveStep ==
    ASSUME IInv, NEW r \in Requests, Arrive(r)
    PROVE  IInv'
<1>1. PICK v \in People, name \in Names, pc \in {"idle", "role"}, code \in {0, 403} :
         /\ Begin(r, v, name, pc, code)
         /\ pc = "role" => code = 0
  BY DEF Arrive, ChangeRole, ChangeRefused
<1> DEFINE q == [pc |-> pc, target |-> v, name |-> name, loaded |-> NoRole, code |-> code]
<1>2. q \in Request
  BY DEF Request, Codes
<1>3. q.pc = pc /\ q.code = code
  OBVIOUS
<1>4. /\ req' = [req EXCEPT ![r] = q] /\ req'[r] = q
      /\ held' = [held EXCEPT ![r] = {}] /\ role' = role
  BY <1>1 DEF Begin, IInv, TypeOK
<1> HIDE DEF q
<1>5. InHand(r)'
  BY <1>1, <1>3, <1>4 DEF InHand
<1>6. /\ role' \in [Users -> Roles \union {Gone}] /\ held' \in [Requests -> SUBSET Roles]
      /\ \A p \in Requests \ {r} : held[p] \subseteq held'[p]
  BY <1>4 DEF IInv, TypeOK
<1>7. q.code = 200 => q.name \in held'[r]
  BY <1>3
<1>8. req' = [req EXCEPT ![r] = q]
  BY <1>4
<1> QED
  BY <1>2, <1>5, <1>6, <1>7, <1>8, OneMoves, Zenon

LEMMA ReplyStep ==
    ASSUME IInv, NEW r \in Requests, NEW code \in Codes, Reply(r, code), UNCHANGED <<role, held>>,
           code = 200 => req[r].name \in held[r]
    PROVE  IInv'
<1> DEFINE q == [req[r] EXCEPT !.pc = "idle", !.code = code]
<1>1. req[r] \in Request
  BY DEF IInv, TypeOK
<1>2. q \in Request /\ q.pc = "idle" /\ q.code = code /\ q.name = req[r].name
  BY <1>1 DEF Request
<1>3. req' = [req EXCEPT ![r] = q] /\ req'[r] = q
  BY DEF Reply, IInv, TypeOK
<1> HIDE DEF q
<1>4. InHand(r)'
  BY <1>2, <1>3 DEF InHand
<1> QED
  BY <1>2, <1>3, <1>4, OneMoves DEF IInv, TypeOK

LEMMA GotoStep ==
    ASSUME IInv, NEW r \in Requests, req[r].pc # "idle", NEW pc \in {"user", "reread"}, Goto(r, pc),
           role' \in [Users -> Roles \union {Gone}], held' \in [Requests -> SUBSET Roles],
           \A p \in Requests : held[p] \subseteq held'[p],
           req[r].name \in Roles, pc = "reread" => req[r].name \in held'[r]
    PROVE  IInv'
<1> DEFINE q == [req[r] EXCEPT !.pc = pc]
<1>1. req[r] \in Request
  BY DEF IInv, TypeOK
<1>2. q \in Request /\ q.pc = pc /\ q.code = req[r].code /\ q.name = req[r].name
  BY <1>1 DEF Request
<1>3. req' = [req EXCEPT ![r] = q] /\ req'[r] = q
  BY DEF Goto, IInv, TypeOK
<1>4. req[r].code = 0
  BY DEF IInv, InHand
<1> HIDE DEF q
<1>5. InHand(r)'
  BY <1>2, <1>3, <1>4 DEF InHand
<1>6. q.code # 200
  BY <1>2, <1>4
<1> QED
  BY <1>2, <1>3, <1>5, <1>6, OneMoves, Zenon

\* A role given to v is added to what the requests about v have seen.
LEMMA GiveKeeps ==
    ASSUME IInv, NEW v \in Accounts, NEW name \in Roles, Give(v, name)
    PROVE  /\ role' \in [Users -> Roles \union {Gone}]
           /\ held' \in [Requests -> SUBSET Roles]
           /\ \A p \in Requests : held[p] \subseteq held'[p]
           /\ \A p \in Requests : req[p].target = v /\ req[p].pc \in {"commit", "reread"}
                                  => name \in held'[p]
BY DEF Give, Accounts, IInv, TypeOK

LEMMA LoadUserStep ==
    ASSUME IInv, NEW r \in Requests, LoadUser(r)
    PROVE  IInv'
<1>1. req[r] \in Request /\ req[r].pc = "user" /\ req[r].code = 0 /\ req[r].name \in Roles
  BY DEF IInv, TypeOK, InHand, LoadUser
<1>2. CASE req[r].target \in Accounts
  <2> DEFINE v == req[r].target
             q == [req[r] EXCEPT !.pc = "commit", !.loaded = role[v]]
  <2>1. role[v] \in Roles
    BY <1>2 DEF Accounts, IInv, TypeOK
  <2>2. q \in Request /\ q.pc = "commit" /\ q.code = req[r].code /\ q.name = req[r].name
        /\ q.loaded = role[v]
    BY <1>1, <2>1 DEF Request
  <2>3. req' = [req EXCEPT ![r] = q] /\ req'[r] = q
    BY <1>2 DEF LoadUser, IInv, TypeOK
  <2>4. held' = [held EXCEPT ![r] = {role[v]}] /\ role' = role
    BY <1>2 DEF LoadUser
  <2> HIDE DEF q, v
  <2>5. /\ held' \in [Requests -> SUBSET Roles] /\ held'[r] = {role[v]}
        /\ \A p \in Requests \ {r} : held'[p] = held[p]
    BY <2>1, <2>4 DEF IInv, TypeOK
  <2>6. InHand(r)'
    BY <1>1, <2>2, <2>3, <2>5 DEF InHand
  <2>7. role' \in [Users -> Roles \union {Gone}] /\ q.code # 200
    BY <1>1, <2>2, <2>4 DEF IInv, TypeOK
  <2> QED
    BY <1>1, <2>2, <2>3, <2>5, <2>6, <2>7, OneMoves, ZenonT(60)
<1>3. CASE req[r].target \notin Accounts
  <2>1. Reply(r, 404) /\ UNCHANGED <<role, held>>
    BY <1>3 DEF LoadUser
  <2> QED
    BY <2>1, ReplyStep, 404 # 200 DEF Codes
<1> QED
  BY <1>2, <1>3

LEMMA CommitRoleStep ==
    ASSUME IInv, NEW r \in Requests, CommitRole(r)
    PROVE  IInv'
<1>1. /\ req[r].pc = "commit" /\ req[r].pc # "idle" /\ req[r].name \in Roles
      /\ req[r].loaded \in held[r]
  BY DEF IInv, InHand, CommitRole
<1>2. CASE req[r].name = req[r].loaded
  <2>1. Goto(r, "reread") /\ UNCHANGED <<role, held>>
    BY <1>2 DEF CommitRole
  <2> QED
    BY <1>1, <1>2, <2>1, GotoStep DEF IInv, TypeOK
<1>3. CASE req[r].name # req[r].loaded /\ req[r].target \in Accounts
  <2>1. Goto(r, "reread") /\ Give(req[r].target, req[r].name)
    BY <1>3 DEF CommitRole
  <2> QED
    BY <1>1, <1>3, <2>1, GiveKeeps, GotoStep
<1>4. CASE req[r].name # req[r].loaded /\ req[r].target \notin Accounts
  <2>1. Reply(r, 500) /\ UNCHANGED <<role, held>>
    BY <1>4 DEF CommitRole
  <2> QED
    BY <2>1, ReplyStep, 500 # 200 DEF Codes
<1> QED
  BY <1>2, <1>3, <1>4

LEMMA ProceedStep ==
    ASSUME IInv, NEW r \in Requests, Proceed(r)
    PROVE  IInv'
<1>1. CASE FindRole(r)
  <2>1. CASE req[r].name \in Roles
    <3>1. Goto(r, "user") /\ UNCHANGED <<role, held>> /\ req[r].pc # "idle"
      BY <1>1, <2>1 DEF FindRole
    <3> QED
      BY <2>1, <3>1, GotoStep DEF IInv, TypeOK
  <2>2. CASE req[r].name \notin Roles
    <3>1. Reply(r, 404) /\ UNCHANGED <<role, held>>
      BY <1>1, <2>2 DEF FindRole
    <3> QED
      BY <3>1, ReplyStep, 404 # 200 DEF Codes
  <2> QED
    BY <2>1, <2>2
<1>2. CASE RereadUser(r)
  <2>1. UNCHANGED <<role, held>> /\ (Reply(r, 200) \/ Reply(r, 500))
    BY <1>2 DEF RereadUser
  <2>2. req[r].name \in held[r]
    BY <1>2 DEF RereadUser, IInv, InHand
  <2> QED
    BY <2>1, <2>2, ReplyStep DEF Codes
<1> QED
  BY <1>1, <1>2, LoadUserStep, CommitRoleStep DEF Proceed

\* The superusers' requests move no request of the other kind.
LEMMA SuperuserStep ==
    ASSUME IInv, \/ \E v \in Users, name \in Roles : UpdateUser(v, name)
                 \/ \E v \in Users : DeleteUser(v)
    PROVE  IInv'
<1>1. /\ role' \in [Users -> Roles \union {Gone}]
      /\ held' \in [Requests -> SUBSET Roles]
      /\ \A p \in Requests : held[p] \subseteq held'[p]
  <2>1. CASE \E v \in Users, name \in Roles : UpdateUser(v, name)
    BY <2>1, GiveKeeps DEF UpdateUser
  <2>2. CASE \E v \in Users : DeleteUser(v)
    BY <2>2 DEF DeleteUser, IInv, TypeOK
  <2> QED
    BY <2>1, <2>2
<1>2. req' = req
  BY DEF UpdateUser, DeleteUser
<1> QED
  BY <1>1, <1>2 DEF IInv, TypeOK, TakesEffect, InHand

-----------------------------------------------------------------------------
\* The inductive invariant, whatever administrators and superusers do at once.
THEOREM Invariance == Spec => []IInv
<1>1. Init => IInv
  BY Initially
<1>2. IInv /\ [Next]_vars => IInv'
  <2> SUFFICES ASSUME IInv, [Next]_vars PROVE IInv'
    OBVIOUS
  <2>1. CASE Next
    BY <2>1, ArriveStep, ProceedStep, SuperuserStep DEF Next
  <2>2. CASE UNCHANGED vars
    BY <2>2 DEF vars, IInv, TypeOK, TakesEffect, InHand
  <2> QED
    BY <2>1, <2>2
<1> QED
  BY <1>1, <1>2, PTL DEF Spec

\* An acknowledged change of a role took effect at some moment since the user was
\* loaded, also where the UPDATE was not sent; and roles are roles there are.
THEOREM ChangeTakesEffect == Spec => []RolesOK
<1>1. IInv => RolesOK
  BY DEF IInv, RolesOK
<1> QED
  BY <1>1, Invariance, PTL

\* No change of a role that had the account loaded brings it back after its deletion.
THEOREM DeletedForGood == Spec => StaysDeleted
<1>1. ASSUME IInv, [Next]_vars
      PROVE  [\A u \in Users \ Accounts : role'[u] = Gone]_vars
  <2> SUFFICES ASSUME Next, NEW u \in Users \ Accounts
               PROVE  role'[u] = Gone
    BY <1>1
  <2>0. role[u] = Gone /\ role \in [Users -> Roles \union {Gone}]
    BY <1>1 DEF Accounts, IInv, TypeOK
  <2>1. ASSUME NEW r \in Requests, Arrive(r) PROVE role'[u] = Gone
    BY <2>0, <2>1 DEF Arrive, ChangeRole, ChangeRefused, Begin
  <2>2. ASSUME NEW r \in Requests, Proceed(r) PROVE role'[u] = Gone
    BY <2>0, <2>2 DEF Proceed, FindRole, LoadUser, CommitRole, RereadUser, Give
  <2>3. CASE \E v \in Users, name \in Roles : UpdateUser(v, name)
    BY <2>0, <2>3 DEF UpdateUser, Give
  <2>4. CASE \E v \in Users : DeleteUser(v)
    BY <2>0, <2>4 DEF DeleteUser
  <2> QED
    BY <2>1, <2>2, <2>3, <2>4 DEF Next
<1> QED
  BY <1>1, Invariance, PTL DEF Spec, StaysDeleted
=============================================================================
