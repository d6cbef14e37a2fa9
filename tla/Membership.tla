----------------------------- MODULE Membership -----------------------------
(***************************************************************************)
(* Who belongs to one organisation, and as what: user management           *)
(* (backend/internal/shared/usermgmt), SCIM provisioning                   *)
(* (internal/services/scim) and the invitations of internal/admin write    *)
(* org_members.role_id, the authoritative role, and users.is_active; a     *)
(* sign-in copies both into an access token, and RevokeAllSessions takes   *)
(* the tokens back (by its contract, see module Sessions).  Any call may   *)
(* fail and any request die at any time.                                   *)
(*                                                                         *)
(* Transactions run at READ COMMITTED.  SELECT ... FOR UPDATE decides on   *)
(* its rows when it starts and locks them one by one; a row that changed   *)
(* meanwhile is looked at again after its lock was got, one that was       *)
(* deleted is skipped even if it was inserted anew, and a row that began   *)
(* to match meanwhile is never seen.  A write and the COMMIT behind  *)
(* it are one step: nobody waits for anything in between.  Two roles stand *)
(* for the five; users.role, which no decision reads, is left out.         *)
(*                                                                         *)
(* An operator placed right before the one it resembles and used by no     *)
(* other definition is a faulty variant for the mutation checks.           *)
(***************************************************************************)
EXTENDS Naturals, FiniteSets

CONSTANTS
    Users,        \* people, known or not
    FirstAdmin,   \* who set the organisation up
    Requests,     \* requests that can be in flight at the same time
    None,         \* no request
    MaxTokens     \* bound: access tokens accepted at a time

ASSUME MembershipAssumption ==
    /\ FirstAdmin \in Users /\ IsFiniteSet(Users)
    /\ None \notin Requests /\ MaxTokens \in Nat

VARIABLES
    role,       \* [Users -> role in org_members, "none" without a row]
    account,    \* [Users -> users.is_active, "none" without a row]
    holder,     \* [Users -> who holds the lock on the org_members row]
    roleHolder, \* who holds the lock on the row "Admin" of roles
    live,       \* access tokens that are accepted, as <<user, role claim>>
    req,        \* [Requests -> local state of a request]
    unguarded,  \* history: a membership went while its guard held no other Admin
    outlived    \* history: users with a token from before a change that did not end it

people == <<role, account>>
locks == <<holder, roleHolder>>
vars == <<people, locks, live, req, unguarded, outlived>>

Roles == {"Admin", "Viewer"}
Ops == {"role", "remove", "delete", "write", "signin"}
Request == [op: Ops, at: {"idle", "guard", "lock", "write", "revoke", "member", "issue"},
            user: Users, to: Roles, active: {"active", "inactive"}, told: BOOLEAN,
            left: SUBSET Users, admins: SUBSET Users, stale: BOOLEAN]

TypeOK ==
    /\ role \in [Users -> Roles \cup {"none"}]
    /\ account \in [Users -> {"active", "inactive", "none"}]
    /\ holder \in [Users -> Requests \cup {None}] /\ roleHolder \in Requests \cup {None}
    /\ live \subseteq Users \X Roles
    /\ req \in [Requests -> Request]
    /\ unguarded \in BOOLEAN /\ outlived \subseteq Users

Idle == [op |-> "signin", at |-> "idle", user |-> FirstAdmin, to |-> "Viewer", active |-> "active",
         told |-> FALSE, left |-> {}, admins |-> {}, stale |-> FALSE]

\* The setup wizard: one organisation, one Admin.
Init ==
    /\ role = [u \in Users |-> IF u = FirstAdmin THEN "Admin" ELSE "none"]
    /\ account = [u \in Users |-> IF u = FirstAdmin THEN "active" ELSE "none"]
    /\ holder = [u \in Users |-> None] /\ roleHolder = None
    /\ live = {}
    /\ req = [r \in Requests |-> Idle]
    /\ unguarded = FALSE /\ outlived = {}

Admins == {u \in Users : role[u] = "Admin"}
Goto(r, step) == req' = [req EXCEPT ![r].at = step]
Finish(r) == req' = [req EXCEPT ![r] = Idle]
Begin(r, request) == req[r].at = "idle" /\ req' = [req EXCEPT ![r] = request]

\* What COMMIT and ROLLBACK of r do to its locks.
Release(r) ==
    /\ holder' = [u \in Users |-> IF holder[u] = r THEN None ELSE holder[u]]
    /\ roleHolder' = IF roleHolder = r THEN None ELSE roleHolder

\* Sign-ins in flight that have read what a commit of u's row is about to change.
Overtaken(u, steps, q) == req[q].op = "signin" /\ req[q].user = u /\ req[q].at \in steps
Mark(steps, u, requests) ==
    [q \in Requests |-> IF Overtaken(u, steps, q) THEN [requests[q] EXCEPT !.stale = TRUE] ELSE requests[q]]

\* Locking SELECTs in flight skip the rows that have gone.
Unseen(gone, requests) == [q \in Requests |-> [requests[q] EXCEPT !.left = @ \ gone]]

-----------------------------------------------------------------------------
(* Signing in.                                                             *)

\* Login: the account first,
SignIn(r, u) ==
    /\ account[u] = "active"
    /\ Begin(r, [Idle EXCEPT !.at = "member", !.user = u])
    /\ UNCHANGED <<people, locks, live, unguarded, outlived>>

\* then the membership, whose role becomes the claim; Refresh reads both at once.
ReadRole(r) ==
    /\ req[r].at = "member"
    /\ IF role[req[r].user] = "none" THEN Finish(r)
       ELSE req' = [req EXCEPT ![r].at = "issue", ![r].to = role[req[r].user]]
    /\ UNCHANGED <<people, locks, live, unguarded, outlived>>

IssueToken(r) ==
    /\ req[r].at = "issue" /\ Cardinality(live) < MaxTokens
    /\ live' = live \cup {<<req[r].user, req[r].to>>}
    /\ outlived' = IF req[r].stale THEN outlived \cup {req[r].user} ELSE outlived
    /\ Finish(r)
    /\ UNCHANGED <<people, locks, unguarded>>

-----------------------------------------------------------------------------
(* Joining.  A row with the role Admin needs the roles row unlocked.       *)

\* AcceptInvitation, admin.CreateUser, createOIDCUser: a new account and its membership.
AcceptInvitation(u, to) ==
    /\ account[u] = "none" /\ (to = "Admin" => roleHolder = None)
    /\ account' = [account EXCEPT ![u] = "active"]
    /\ role' = [role EXCEPT ![u] = to]
    /\ UNCHANGED <<locks, live, req, unguarded, outlived>>

\* admin.InviteUser, behind a token that claims Admin: an account that exists keeps its
\* is_active, a member keeps its role.
InviteUser(u, to) ==
    /\ \E t \in live : t[2] = "Admin"
    /\ role[u] = "none" /\ (to = "Admin" => roleHolder = None)
    /\ account' = [account EXCEPT ![u] = IF @ = "none" THEN "inactive" ELSE @]
    /\ role' = [role EXCEPT ![u] = to]
    /\ UNCHANGED <<locks, live, req, unguarded, outlived>>

-----------------------------------------------------------------------------
(* User management.                                                        *)

\* requireAdmin: the caller's token is accepted and the caller's own row says Admin.
Calls(c) == role[c] = "Admin" /\ \E t \in live : t[1] = c

UpdateUserRole(r, u, to) ==
    /\ \E c \in Users : Calls(c)
    /\ Begin(r, [Idle EXCEPT !.op = "role", !.user = u, !.to = to, !.at = IF to = "Admin" THEN "write" ELSE "guard"])
    /\ UNCHANGED <<people, locks, live, unguarded, outlived>>

RemoveUser(r, u) ==
    /\ \E c \in Users \ {u} : Calls(c)
    /\ Begin(r, [Idle EXCEPT !.op = "remove", !.user = u, !.at = "guard"])
    /\ UNCHANGED <<people, locks, live, unguarded, outlived>>

\* SCIM DELETE.
DeactivateUser(r, u) ==
    /\ Begin(r, [Idle EXCEPT !.op = "delete", !.user = u, !.at = "guard"])
    /\ UNCHANGED <<people, locks, live, unguarded, outlived>>

\* The snapshot of the locking SELECT: SCIM asks for the other Admins only.
Snapshot(r) ==
    /\ req[r].at = "guard"
    /\ req' = [req EXCEPT ![r].at = "lock",
                          ![r].left = IF req[r].op = "delete" THEN Admins \ {req[r].user} ELSE Admins]
    /\ UNCHANGED <<people, locks, live, unguarded, outlived>>

\* Nobody else holds the row.  SCIM locks the row of roles as well.
FreeIgnored(r, u) == TRUE
Free(r, u) == holder[u] \in {None, r}
RoleFree(r) == req[r].op = "delete" => roleHolder \in {None, r}

LockRow(r, u) ==
    /\ req[r].at = "lock" /\ u \in req[r].left
    /\ Free(r, u) /\ RoleFree(r)
    /\ req' = [req EXCEPT ![r].left = @ \ {u},
                          ![r].admins = IF role[u] = "Admin" THEN @ \cup {u} ELSE @]
    /\ holder' = [holder EXCEPT ![u] = r]
    /\ roleHolder' = IF req[r].op = "delete" THEN r ELSE roleHolder
    /\ UNCHANGED <<people, live, unguarded, outlived>>

\* ensureNotLastAdmin counts the rows it locked; DeactivateUser those of the others, and it
\* asks once more whether the user is an Admin.
LastAdmin(r) ==
    IF req[r].op = "delete" THEN role[req[r].user] = "Admin" /\ req[r].admins = {}
    ELSE req[r].user \in req[r].admins /\ Cardinality(req[r].admins) <= 1

\* ErrUserNotInOrg, which only user management looks for.
Missing(r) == req[r].op # "delete" /\ req[r].user \notin req[r].admins /\ role[req[r].user] = "none"

Guard(r) ==
    /\ req[r].at = "lock" /\ req[r].left = {}
    /\ IF LastAdmin(r) \/ Missing(r)
       THEN Finish(r) /\ Release(r) /\ unguarded' = unguarded
       ELSE /\ Goto(r, "write")
            /\ unguarded' = (unguarded \/ req[r].admins \ {req[r].user} = {})
            /\ UNCHANGED locks
    /\ UNCHANGED <<people, live, outlived>>

\* The UPDATE or DELETE and its COMMIT; a membership that has gone is an error for user
\* management and nothing to SCIM.
NewRoleSimple(r) == IF req[r].op # "role" THEN "none" ELSE IF req[r].to = "Admin" THEN "admin" ELSE "viewer"
NewRole(r) == IF req[r].op = "role" THEN req[r].to ELSE "none"
Gone(r) == req[r].op # "delete" /\ role[req[r].user] = "none"

Write(r) ==
    LET u == req[r].user IN
    /\ req[r].at = "write" /\ req[r].op \in {"role", "remove", "delete"} /\ Free(r, u)
    /\ req[r].op = "role" /\ req[r].to = "Admin" => roleHolder = None
    /\ IF Gone(r)
       THEN Finish(r) /\ UNCHANGED people
       ELSE /\ role' = [role EXCEPT ![u] = NewRole(r)]
            /\ account' = [account EXCEPT ![u] = IF req[r].op = "delete" /\ @ = "active" THEN "inactive" ELSE @]
            /\ req' = Unseen(IF NewRole(r) = "none" THEN {u} ELSE {},
                        Mark(IF req[r].op = "delete" THEN {"member", "issue"} ELSE {"issue"}, u,
                             [req EXCEPT ![r] = [Idle EXCEPT !.op = req[r].op, !.user = u, !.at = "revoke"]]))
    /\ Release(r)
    /\ UNCHANGED <<live, unguarded, outlived>>

\* RevokeAllSessions after the commit; an error is dropped or logged.
RevokeSessions(r) ==
    LET u == req[r].user IN
    /\ req[r].at = "revoke"
    /\ \/ live' = {t \in live : t[1] # u} /\ outlived' = outlived \ {u}
       \/ live' = live /\ outlived' = outlived \cup {u}
    /\ Finish(r)
    /\ UNCHANGED <<people, locks, unguarded>>

-----------------------------------------------------------------------------
(* SCIM: is_active.                                                        *)

\* What POST, PUT and PATCH do to the account, and the revocation owed for active = false.
SetActiveOnly(r, u, active) ==
    account' = [account EXCEPT ![u] = active] /\ req' = [req EXCEPT ![r] = Idle]
SetActive(r, u, active) ==
    /\ account' = [account EXCEPT ![u] = active]
    /\ req' = IF active = "active" THEN [req EXCEPT ![r] = Idle]
              ELSE Mark({"member", "issue"}, u, [req EXCEPT ![r] = [Idle EXCEPT !.op = "write", !.user = u, !.at = "revoke"]])

\* CreateUser, an upsert: a member keeps its role.
CreateUser(r, u, active) ==
    /\ req[r].at = "idle"
    /\ role' = [role EXCEPT ![u] = IF @ = "none" THEN "Viewer" ELSE @]
    /\ SetActive(r, u, active)
    /\ UNCHANGED <<locks, live, unguarded, outlived>>

\* PatchUser (and PUT) begins with GetUser: what the client does not mention keeps its value.
PatchUser(r, u) ==
    /\ role[u] # "none"
    /\ \E active \in {"active", "inactive"}, told \in BOOLEAN :
        /\ told \/ active = account[u]
        /\ Begin(r, [Idle EXCEPT !.op = "write", !.at = "write", !.user = u, !.active = active, !.told = told])
    /\ UNCHANGED <<people, locks, live, unguarded, outlived>>

\* ReplaceUser writes the whole row.
ReplaceUser(r) ==
    /\ req[r].at = "write" /\ req[r].op = "write"
    /\ IF role[req[r].user] = "none" THEN Finish(r) /\ UNCHANGED people
       ELSE SetActive(r, req[r].user, req[r].active) /\ role' = role
    /\ UNCHANGED <<locks, live, unguarded, outlived>>

-----------------------------------------------------------------------------
(* Vakt HR, failures.                                                      *)

\* vakthr DisableUser, behind its own revocation (module Offboarding), after which the user
\* may have signed in once more; it asks no guard.
DisableUser(u) ==
    /\ role[u] # "none" /\ holder[u] = None
    /\ role' = [role EXCEPT ![u] = "none"]
    /\ \/ live' = {t \in live : t[1] # u} /\ outlived' = outlived \ {u}
       \/ live' = live /\ outlived' = outlived \cup {u}
    /\ unguarded' = (unguarded \/ Admins \subseteq {u})
    /\ req' = Unseen({u}, Mark({"issue"}, u, req))
    /\ UNCHANGED <<account, locks>>

\* A call fails, a client goes away: the transaction is rolled back.
Rollback(r) ==
    /\ req[r].at \notin {"idle", "revoke"}
    /\ Finish(r) /\ Release(r)
    /\ UNCHANGED <<people, live, unguarded, outlived>>

\* Waiting for a lock somebody else holds.
Blocked(r) ==
    \/ /\ req[r].at = "lock" /\ req[r].left # {}
       /\ \A u \in req[r].left : ~(Free(r, u) /\ RoleFree(r))
    \/ /\ req[r].at = "write" /\ req[r].op \in {"role", "remove", "delete"}
       /\ Free(r, req[r].user) => req[r].op = "role" /\ req[r].to = "Admin" /\ roleHolder # None

\* PostgreSQL breaks a circle of waiting transactions.
Deadlock(r) ==
    /\ Blocked(r) /\ \E q \in Requests \ {r} : Blocked(q)
    /\ Finish(r) /\ Release(r)
    /\ UNCHANGED <<people, live, unguarded, outlived>>

Handle(r) ==
    \/ ReadRole(r) \/ IssueToken(r) \/ Snapshot(r) \/ \E u \in Users : LockRow(r, u)
    \/ Guard(r) \/ Write(r) \/ ReplaceUser(r) \/ RevokeSessions(r) \/ Rollback(r) \/ Deadlock(r)

Arrive(r, u) ==
    \/ SignIn(r, u) \/ RemoveUser(r, u) \/ DeactivateUser(r, u) \/ PatchUser(r, u)
    \/ \E to \in Roles : UpdateUserRole(r, u, to)
    \/ \E active \in {"active", "inactive"} : CreateUser(r, u, active)

Next ==
    \/ \E r \in Requests : Handle(r) \/ \E u \in Users : Arrive(r, u)
    \/ \E u \in Users : DisableUser(u) \/ \E to \in Roles : AcceptInvitation(u, to) \/ InviteUser(u, to)

Spec == Init /\ [][Next]_vars

-----------------------------------------------------------------------------
(* Properties.                                                             *)

\* ensureNotLastAdmin and DeactivateUser: whatever demotions, removals, promotions and syncs
\* run at once, the organisation keeps an Admin, unless a membership was taken by somebody
\* whose guard held no other Admin's row: Vakt HR, or a guard all of whose rows had changed
\* while it waited for them.
AdminRemains == unguarded \/ Admins # {}

\* An access token carries the role its user has now, and the user is active, except while
\* the revocation for the change is still to come, and except for what that revocation could
\* not reach: it failed, or the sign-in was under way when the change was committed.
ClaimsAreCurrent ==
    \A t \in live : \/ role[t[1]] = t[2] /\ account[t[1]] = "active"
                    \/ t[1] \in outlived
                    \/ \E r \in Requests : req[r].at = "revoke" /\ req[r].user = t[1]

\* "It prevents demoting the last remaining admin" (UpdateUserRole).
LastAdminStays == [][\A r \in Requests : Write(r) /\ Admins # {} => Admins' # {}]_vars

\* "A routine sync must not be able to leave the customer with an ISMS nobody can administer"
\* (DeactivateUser).
SomebodyAdministers == \E u \in Users : role[u] = "Admin" /\ account[u] = "active"

\* A PATCH that does not mention active leaves it as it is.
PatchKeepsActive ==
    [][\A r \in Requests : ReplaceUser(r) /\ ~req[r].told => account' = account]_vars

=============================================================================
