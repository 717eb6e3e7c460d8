---------------------------- MODULE AdminRoles -----------------------------
(***************************************************************************)
(* The role of a user, changed by an administrator                         *)
(* (src/app/services/faith_service.py, admin_change_user_role) while       *)
(* superusers edit or delete accounts (src/app/plugins/advanced_auth).     *)
(* Each await of the first handler is an action; the others use a          *)
(* synchronous session, never yield, and are one action each.              *)
(***************************************************************************)
CONSTANTS
    Users,       \* the accounts there are at first
    Superusers,  \* those of them with is_superuser
    Ghosts,      \* user ids a client may send that no account has
    Roles,       \* the names in table auth_role
    Admin,       \* the name of the administrator's role
    BadNames,    \* names a client may send that no role has
    Requests,    \* slots for HTTP requests in flight
    Gone,        \* the role of an account that was deleted
    NoRole       \* no role looked up yet

ASSUME SuperuserAssumption == Superusers \subseteq Users
ASSUME RoleAssumption == Admin \in Roles /\ {Gone, NoRole} \intersect (Roles \union BadNames) = {}

VARIABLES
    role,  \* user.role_id, by name
    req,   \* req[r]: the request in slot r and what its session holds
    held   \* held[r]: the roles the user of the request in slot r has had since
           \* it loaded him (history)

vars == <<role, req, held>>

People == Users \union Ghosts
Names == Roles \union BadNames
Codes == {0, 200, 403, 404, 500}

\* loaded: the role the user was loaded with.
Request == [pc : {"idle", "role", "user", "commit", "reread"}, target : People,
            name : Names, loaded : Roles \union {NoRole}, code : Codes]

Accounts == {u \in Users : role[u] # Gone}
IsAdmin(u) == u \in Superusers \/ role[u] = Admin

-----------------------------------------------------------------------------
Init ==
    /\ role \in [Users -> Roles]
    /\ req \in [Requests -> [pc : {"idle"}, target : Users, name : Roles, loaded : {NoRole},
                             code : {0}]]
    /\ held = [r \in Requests |-> {}]

Begin(r, v, name, pc, code) ==
    /\ req[r].pc = "idle"
    /\ req' = [req EXCEPT ![r] = [pc |-> pc, target |-> v, name |-> name, loaded |-> NoRole,
                                  code |-> code]]
    /\ held' = [held EXCEPT ![r] = {}]
    /\ UNCHANGED role

Goto(r, pc) == req' = [req EXCEPT ![r].pc = pc]
Reply(r, code) == req' = [req EXCEPT ![r].pc = "idle", ![r].code = code]

\* The role of v becomes name: every request about v has now seen it in force.
Give(v, name) ==
    /\ role' = [role EXCEPT ![v] = name]
    /\ held' = [r \in Requests |-> IF req[r].target = v /\ req[r].pc \in {"commit", "reread"}
                                   THEN held[r] \union {name} ELSE held[r]]

-----------------------------------------------------------------------------
(* PUT /admin/users/{user_id}/role *)

\* Whoever asks is judged by the role he has as his token is checked.
ChangeRole(r, u, v, name) == IsAdmin(u) /\ Begin(r, v, name, "role", 0)
ChangeRefused(r, u, v, name) == ~IsAdmin(u) /\ Begin(r, v, name, "idle", 403)

FindRole(r) ==
    /\ req[r].pc = "role"
    /\ IF req[r].name \in Roles THEN Goto(r, "user") ELSE Reply(r, 404)
    /\ UNCHANGED <<role, held>>

\* The user comes with his role (selectinload).
LoadUser(r) ==
    /\ req[r].pc = "user"
    /\ LET v == req[r].target IN
       IF v \in Accounts
       THEN /\ req' = [req EXCEPT ![r].pc = "commit", ![r].loaded = role[v]]
            /\ held' = [held EXCEPT ![r] = {role[v]}]
       ELSE Reply(r, 404) /\ UNCHANGED held
    /\ UNCHANGED role

\* Mutant: the session is closed without the commit.
CommitNothing(r) ==
    /\ req[r].pc = "commit"
    /\ Goto(r, "reread")
    /\ UNCHANGED <<role, held>>

\* Mutant: the loaded user is merged back, row or no row.
CommitMerged(r) ==
    /\ req[r].pc = "commit"
    /\ IF req[r].target \in Users THEN Give(req[r].target, req[r].name) ELSE UNCHANGED <<role, held>>
    /\ Goto(r, "reread")

\* An UPDATE is only sent if the role differs from the one loaded, whatever it has
\* become since; on an account that is gone it fails.
CommitRole(r) ==
    /\ req[r].pc = "commit"
    /\ LET v == req[r].target IN
       \/ /\ req[r].name = req[r].loaded
          /\ Goto(r, "reread")
          /\ UNCHANGED <<role, held>>
       \/ /\ req[r].name # req[r].loaded
          /\ v \in Accounts
          /\ Give(v, req[r].name)
          /\ Goto(r, "reread")
       \/ /\ req[r].name # req[r].loaded
          /\ v \notin Accounts
          /\ Reply(r, 500)
          /\ UNCHANGED <<role, held>>

\* The second SELECT is for the reply alone; without a row it cannot be built.
RereadUser(r) ==
    /\ req[r].pc = "reread"
    /\ IF req[r].target \in Accounts THEN Reply(r, 200) ELSE Reply(r, 500)
    /\ UNCHANGED <<role, held>>

-----------------------------------------------------------------------------
(* PUT and DELETE /auth/users/{user_id}, by a superuser *)

UpdateUser(v, name) ==
    /\ v \in Accounts
    /\ Give(v, name)
    /\ UNCHANGED req

\* Superusers who delete each other are left out: one is always there to ask.
DeleteUser(v) ==
    /\ v \in Accounts \ Superusers
    /\ role' = [role EXCEPT ![v] = Gone]
    /\ UNCHANGED <<req, held>>

-----------------------------------------------------------------------------
Arrive(r) ==
    \E u \in Accounts, v \in People, name \in Names :
       ChangeRole(r, u, v, name) \/ ChangeRefused(r, u, v, name)

Proceed(r) == FindRole(r) \/ LoadUser(r) \/ CommitRole(r) \/ RereadUser(r)

Next ==
    \/ \E r \in Requests : Arrive(r) \/ Proceed(r)
    \/ \E v \in Users, name \in Roles : UpdateUser(v, name)
    \/ \E v \in Users : DeleteUser(v)

Spec == Init /\ [][Next]_vars

-----------------------------------------------------------------------------
TypeOK ==
    /\ role \in [Users -> Roles \union {Gone}]
    /\ req \in [Requests -> Request]
    /\ held \in [Requests -> SUBSET Roles]

\* An acknowledged change took effect: the role asked for was in force at some
\* moment since the user was loaded, also when the UPDATE was not sent because it
\* was the role loaded.
TakesEffect == \A r \in Requests : req[r].code = 200 => req[r].name \in held[r]

\* Roles are roles there are, and those that were acknowledged were in force.
RolesOK == TypeOK /\ TakesEffect

\* An account that was deleted never comes back, though a change of its role may
\* hold it loaded across the deletion.
StaysDeleted == [][\A u \in Users \ Accounts : role'[u] = Gone]_vars
=============================================================================
