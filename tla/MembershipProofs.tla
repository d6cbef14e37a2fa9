-------------------------- MODULE MembershipProofs --------------------------
(* Proofs about Membership, for any number of users and of requests in     *)
(* flight.  MembershipInv is the inductive invariant: what a guard counted *)
(* is locked and still there, and a sign-in not overtaken has read what is *)
(* still true.                                                             *)
EXTENDS Membership, TLAPS

-----------------------------------------------------------------------------
(* The inductive invariant.                                                *)

\* A member has an account.
AccountsFirst == \A u \in Users : account[u] = "none" => role[u] = "none"

\* What a guard counted stays counted: the rows are locked, and still say Admin.
HeldAdmins == \A r \in Requests : \A u \in req[r].admins : holder[u] = r /\ role[u] = "Admin"

\* Behind its guard a request that takes a membership holds the row of another Admin.
Takes(request) == request.op \in {"remove", "delete"} \/ (request.op = "role" /\ request.to = "Viewer")
GuardedWrites ==
    \A r \in Requests : req[r].at = "write" /\ Takes(req[r]) => unguarded \/ req[r].admins \ {req[r].user} # {}

\* A sign-in nobody has overtaken has read what is still true.
SignInsFresh ==
    \A r \in Requests : req[r].at \in {"member", "issue"} =>
        /\ req[r].op = "signin"
        /\ ~req[r].stale => account[req[r].user] = "active"
        /\ ~req[r].stale /\ req[r].at = "issue" => role[req[r].user] = req[r].to

MembershipInv ==
    /\ TypeOK /\ AccountsFirst /\ HeldAdmins /\ GuardedWrites /\ SignInsFresh
    /\ AdminRemains /\ ClaimsAreCurrent

-----------------------------------------------------------------------------
(* Facts about the operators.                                              *)

\* Nothing asked is a request, too.
LEMMA IdleIsRequest == Idle \in Request
  BY MembershipAssumption DEF Idle, Request, Ops, Roles

\* The fields a step of a guard or a sign-in changes keep their types.
LEMMA Changed ==
    ASSUME NEW q \in Request
    PROVE  /\ \A to \in Roles : [q EXCEPT !.at = "issue", !.to = to] \in Request
           /\ \A left \in SUBSET Users : [q EXCEPT !.at = "lock", !.left = left] \in Request
           /\ \A left, admins \in SUBSET Users : [q EXCEPT !.left = left, !.admins = admins] \in Request
  <1>1. ASSUME NEW to \in Roles PROVE [q EXCEPT !.at = "issue", !.to = to] \in Request
    BY DEF Request
  <1>2. ASSUME NEW left \in SUBSET Users PROVE [q EXCEPT !.at = "lock", !.left = left] \in Request
    BY DEF Request
  <1>3. ASSUME NEW left \in SUBSET Users, NEW admins \in SUBSET Users
        PROVE  [q EXCEPT !.left = left, !.admins = admins] \in Request
    BY DEF Request
  <1>4. QED  BY <1>1, <1>2, <1>3

\* A commit marks the sign-ins it overtakes and changes nothing else about a request.
LEMMA MarkFacts ==
    ASSUME NEW steps, NEW u, NEW requests \in [Requests -> Request]
    PROVE  /\ Mark(steps, u, requests) \in [Requests -> Request]
           /\ \A q \in Requests :
                LET marked == Mark(steps, u, requests)[q] IN
                /\ marked.at = requests[q].at /\ marked.op = requests[q].op
                /\ marked.user = requests[q].user /\ marked.to = requests[q].to
                /\ marked.admins = requests[q].admins
                /\ ~marked.stale => ~requests[q].stale /\ ~Overtaken(u, steps, q)
  <1> DEFINE M(q) == Mark(steps, u, requests)[q]
             struck(q) == [requests[q] EXCEPT !.stale = TRUE]
  <1>1. ASSUME NEW q \in Requests
        PROVE  /\ struck(q) \in Request /\ struck(q).stale = TRUE
               /\ struck(q).at = requests[q].at /\ struck(q).op = requests[q].op
               /\ struck(q).user = requests[q].user /\ struck(q).to = requests[q].to
               /\ struck(q).admins = requests[q].admins
    BY DEF Request
  <1>2. \A q \in Requests : M(q) = IF Overtaken(u, steps, q) THEN struck(q) ELSE requests[q]
    BY DEF Mark
  <1>3. Mark(steps, u, requests) \in [Requests -> Request]  BY <1>1 DEF Mark
  <1>4. ASSUME NEW q \in Requests
        PROVE  /\ M(q).at = requests[q].at /\ M(q).op = requests[q].op
               /\ M(q).user = requests[q].user /\ M(q).to = requests[q].to
               /\ M(q).admins = requests[q].admins
               /\ ~M(q).stale => ~requests[q].stale /\ ~Overtaken(u, steps, q)
    <2> HIDE DEF struck, M
    <2>1. CASE Overtaken(u, steps, q)  BY <1>1, <1>2, <2>1
    <2>2. CASE ~Overtaken(u, steps, q)  BY <1>2, <2>2
    <2>3. QED  BY <2>1, <2>2
  <1>5. QED  BY <1>3, <1>4

\* A row that has gone changes only what locking SELECTs still look for.
LEMMA UnseenFacts ==
    ASSUME NEW gone, NEW requests \in [Requests -> Request]
    PROVE  /\ Unseen(gone, requests) \in [Requests -> Request]
           /\ \A q \in Requests :
                LET unseen == Unseen(gone, requests)[q] IN
                /\ unseen.at = requests[q].at /\ unseen.op = requests[q].op
                /\ unseen.user = requests[q].user /\ unseen.to = requests[q].to
                /\ unseen.admins = requests[q].admins /\ unseen.stale = requests[q].stale
  <1> DEFINE less(q) == [requests[q] EXCEPT !.left = @ \ gone]
  <1>1. ASSUME NEW q \in Requests
        PROVE  /\ less(q) \in Request
               /\ less(q).at = requests[q].at /\ less(q).op = requests[q].op
               /\ less(q).user = requests[q].user /\ less(q).to = requests[q].to
               /\ less(q).admins = requests[q].admins /\ less(q).stale = requests[q].stale
    BY DEF Request
  <1>2. Unseen(gone, requests) = [q \in Requests |-> less(q)]  BY DEF Unseen
  <1> HIDE DEF less
  <1>3. QED  BY <1>1, <1>2

\* What a change that owes a revocation leaves in req: only sign-ins not overtaken stay fresh.
OwesRevocation(r, v, steps) ==
    /\ req' \in [Requests -> Request]
    /\ req'[r].at = "revoke" /\ req'[r].user = v /\ req'[r].admins = {}
    /\ \A q \in Requests \ {r} :
         /\ req'[q].at = req[q].at /\ req'[q].op = req[q].op /\ req'[q].user = req[q].user
         /\ req'[q].to = req[q].to /\ req'[q].admins = req[q].admins
         /\ ~req'[q].stale => ~req[q].stale /\ ~Overtaken(v, steps, q)

\* Both changes that owe one leave it that way.
LEMMA RevocationOwed ==
    ASSUME TypeOK, NEW r \in Requests, NEW op \in Ops, NEW v \in Users, NEW steps, NEW gone,
           LET marked == Mark(steps, v, [req EXCEPT ![r] = [Idle EXCEPT !.op = op, !.user = v, !.at = "revoke"]])
           IN  req' = marked \/ req' = Unseen(gone, marked)
    PROVE  OwesRevocation(r, v, steps)
  <1> DEFINE after == [Idle EXCEPT !.op = op, !.user = v, !.at = "revoke"]
             requests == [req EXCEPT ![r] = after]
  <1>1. after \in Request /\ after.at = "revoke" /\ after.user = v /\ after.admins = {}
    BY MembershipAssumption DEF Idle, Request, Ops, Roles
  <1> DEFINE marked == Mark(steps, v, requests)
  <1>2. req' = marked \/ req' = Unseen(gone, marked)  OBVIOUS
  <1> HIDE DEF after
  <1>3. requests \in [Requests -> Request]  BY <1>1 DEF TypeOK
  <1>4. requests[r] = after /\ \A q \in Requests \ {r} : requests[q] = req[q]  BY DEF TypeOK
  <1> HIDE DEF requests
  <1>m. /\ marked \in [Requests -> Request]
        /\ \A q \in Requests :
             /\ marked[q].at = requests[q].at /\ marked[q].op = requests[q].op /\ marked[q].user = requests[q].user
             /\ marked[q].to = requests[q].to /\ marked[q].admins = requests[q].admins
             /\ ~marked[q].stale => ~requests[q].stale /\ ~Overtaken(v, steps, q)
    BY <1>3, MarkFacts
  <1> HIDE DEF marked
  <1>5. /\ req' \in [Requests -> Request]
        /\ \A q \in Requests :
             /\ req'[q].at = requests[q].at /\ req'[q].op = requests[q].op /\ req'[q].user = requests[q].user
             /\ req'[q].to = requests[q].to /\ req'[q].admins = requests[q].admins
             /\ ~req'[q].stale => ~requests[q].stale /\ ~Overtaken(v, steps, q)
    <2>1. CASE req' = marked  BY <1>m, <2>1
    <2>2. CASE req' = Unseen(gone, marked)
      <3>1. /\ Unseen(gone, marked) \in [Requests -> Request]
            /\ \A q \in Requests :
                 /\ req'[q].at = marked[q].at /\ req'[q].op = marked[q].op /\ req'[q].user = marked[q].user
                 /\ req'[q].to = marked[q].to /\ req'[q].admins = marked[q].admins
                 /\ req'[q].stale = marked[q].stale
        BY <1>m, <2>2, UnseenFacts
      <3>2. QED  BY <1>m, <2>2, <3>1
    <2>3. QED  BY <1>2, <2>1, <2>2
  <1>6. req' \in [Requests -> Request]  BY <1>5
  <1>7. req'[r].at = "revoke" /\ req'[r].user = v /\ req'[r].admins = {}  BY <1>1, <1>4, <1>5
  <1>8. ASSUME NEW q \in Requests \ {r}
        PROVE  /\ req'[q].at = req[q].at /\ req'[q].op = req[q].op /\ req'[q].user = req[q].user
               /\ req'[q].to = req[q].to /\ req'[q].admins = req[q].admins
               /\ ~req'[q].stale => ~req[q].stale /\ ~Overtaken(v, steps, q)
    BY <1>4, <1>5
  <1>9. QED  BY <1>6, <1>7, <1>8 DEF OwesRevocation

\* The end of a transaction keeps the lock tables well formed.
LEMMA ReleaseTypes ==
    ASSUME TypeOK, NEW r \in Requests, Release(r)
    PROVE  holder' \in [Users -> Requests \cup {None}] /\ roleHolder' \in Requests \cup {None}
  BY DEF Release, TypeOK

-----------------------------------------------------------------------------
(* Every action keeps the invariant.                                       *)

\* Login reads the account.
LEMMA SignInKeeps ==
    ASSUME MembershipInv, NEW r \in Requests, NEW u \in Users, SignIn(r, u)
    PROVE  MembershipInv'
  <1> USE MembershipAssumption DEF MembershipInv, people, locks, Idle, Roles
  <1>1. TypeOK'
    BY DEF SignIn, Begin, TypeOK, Request, Ops
  <1>2. AccountsFirst'
    BY DEF SignIn, Begin, TypeOK, AccountsFirst
  <1>3. HeldAdmins'
    BY DEF SignIn, Begin, TypeOK, Request, HeldAdmins, AccountsFirst
  <1>4. GuardedWrites'
    BY DEF SignIn, Begin, TypeOK, Request, GuardedWrites, Takes
  <1>5. SignInsFresh'
    BY DEF SignIn, Begin, TypeOK, Request, SignInsFresh, AccountsFirst
  <1>6. AdminRemains'
    BY DEF SignIn, Begin, TypeOK, AdminRemains, Admins
  <1>7. ClaimsAreCurrent'
    BY DEF SignIn, Begin, TypeOK, Request, ClaimsAreCurrent
  <1>8. QED  BY <1>1, <1>2, <1>3, <1>4, <1>5, <1>6, <1>7

\* Login, Refresh: the claim is the role just read.
LEMMA ReadRoleKeeps ==
    ASSUME MembershipInv, NEW r \in Requests, ReadRole(r)
    PROVE  MembershipInv'
  <1> USE MembershipAssumption DEF MembershipInv, people, locks, Idle, Roles
  <1>1. TypeOK'
    <2>1. CASE role[req[r].user] = "none"
      BY <2>1, IdleIsRequest DEF ReadRole, Finish, TypeOK
    <2>2. CASE role[req[r].user] # "none"
      <3>1. role[req[r].user] \in Roles  BY <2>2 DEF TypeOK, Request
      <3>2. [req[r] EXCEPT !.at = "issue", !.to = role[req[r].user]] \in Request  BY <3>1, Changed DEF TypeOK
      <3>3. req' = [req EXCEPT ![r] = [req[r] EXCEPT !.at = "issue", !.to = role[req[r].user]]]
        BY <2>2 DEF ReadRole, TypeOK, Request
      <3>4. QED  BY <3>2, <3>3 DEF ReadRole, TypeOK
    <2>3. QED  BY <2>1, <2>2
  <1>2. AccountsFirst'
    BY DEF ReadRole, Finish, TypeOK, AccountsFirst
  <1>3. HeldAdmins'
    BY DEF ReadRole, Finish, TypeOK, Request, HeldAdmins, AccountsFirst
  <1>4. GuardedWrites'
    BY DEF ReadRole, Finish, TypeOK, Request, GuardedWrites, Takes
  <1>5. SignInsFresh'
    BY DEF ReadRole, Finish, TypeOK, Request, SignInsFresh, AccountsFirst
  <1>6. AdminRemains'
    BY DEF ReadRole, Finish, TypeOK, AdminRemains, Admins
  <1>7. ClaimsAreCurrent'
    BY DEF ReadRole, Finish, TypeOK, Request, ClaimsAreCurrent
  <1>8. QED  BY <1>1, <1>2, <1>3, <1>4, <1>5, <1>6, <1>7

\* issueTokenPair: a sign-in nobody has overtaken issues what is true.
LEMMA IssueTokenKeeps ==
    ASSUME MembershipInv, NEW r \in Requests, IssueToken(r)
    PROVE  MembershipInv'
  <1> USE MembershipAssumption DEF MembershipInv, people, locks, Idle, Roles
  <1>1. TypeOK'
    BY DEF IssueToken, Finish, TypeOK, Request, Ops
  <1>2. AccountsFirst'
    BY DEF IssueToken, Finish, TypeOK, AccountsFirst
  <1>3. HeldAdmins'
    BY DEF IssueToken, Finish, TypeOK, Request, HeldAdmins, AccountsFirst
  <1>4. GuardedWrites'
    BY DEF IssueToken, Finish, TypeOK, Request, GuardedWrites, Takes
  <1>5. SignInsFresh'
    BY DEF IssueToken, Finish, TypeOK, Request, SignInsFresh, AccountsFirst
  <1>6. AdminRemains'
    BY DEF IssueToken, Finish, TypeOK, AdminRemains, Admins
  <1>7. ClaimsAreCurrent'
    BY DEF IssueToken, Finish, TypeOK, Request, ClaimsAreCurrent, SignInsFresh
  <1>8. QED  BY <1>1, <1>2, <1>3, <1>4, <1>5, <1>6, <1>7

\* A new account had no membership to lose.
LEMMA AcceptInvitationKeeps ==
    ASSUME MembershipInv, NEW u \in Users, NEW to \in Roles, AcceptInvitation(u, to)
    PROVE  MembershipInv'
  <1> USE MembershipAssumption DEF MembershipInv, people, locks, Idle, Roles
  <1>1. TypeOK'
    BY DEF AcceptInvitation, TypeOK, Request, Ops
  <1>2. AccountsFirst'
    BY DEF AcceptInvitation, TypeOK, AccountsFirst
  <1>3. HeldAdmins'
    BY DEF AcceptInvitation, TypeOK, Request, HeldAdmins, AccountsFirst
  <1>4. GuardedWrites'
    BY DEF AcceptInvitation, TypeOK, Request, GuardedWrites, Takes
  <1>5. SignInsFresh'
    BY DEF AcceptInvitation, TypeOK, Request, SignInsFresh, AccountsFirst
  <1>6. AdminRemains'
    <2>1. role[u] = "none"  BY DEF AcceptInvitation, AccountsFirst
    <2>2. QED  BY <2>1 DEF AcceptInvitation, TypeOK, AdminRemains, Admins
  <1>7. ClaimsAreCurrent'
    BY DEF AcceptInvitation, TypeOK, Request, ClaimsAreCurrent
  <1>8. QED  BY <1>1, <1>2, <1>3, <1>4, <1>5, <1>6, <1>7

\* An invited member had no token.
LEMMA InviteUserKeeps ==
    ASSUME MembershipInv, NEW u \in Users, NEW to \in Roles, InviteUser(u, to)
    PROVE  MembershipInv'
  <1> USE MembershipAssumption DEF MembershipInv, people, locks, Idle, Roles
  <1>1. TypeOK'
    BY DEF InviteUser, TypeOK, Request, Ops
  <1>2. AccountsFirst'
    BY DEF InviteUser, TypeOK, AccountsFirst
  <1>3. HeldAdmins'
    BY DEF InviteUser, TypeOK, Request, HeldAdmins, AccountsFirst
  <1>4. GuardedWrites'
    BY DEF InviteUser, TypeOK, Request, GuardedWrites, Takes
  <1>5. SignInsFresh'
    BY DEF InviteUser, TypeOK, Request, SignInsFresh, AccountsFirst
  <1>6. AdminRemains'
    BY DEF InviteUser, TypeOK, AdminRemains, Admins
  <1>7. ClaimsAreCurrent'
    BY DEF InviteUser, TypeOK, Request, ClaimsAreCurrent
  <1>8. QED  BY <1>1, <1>2, <1>3, <1>4, <1>5, <1>6, <1>7

\* A role change arrives.
LEMMA UpdateUserRoleKeeps ==
    ASSUME MembershipInv, NEW r \in Requests, NEW u \in Users, NEW to \in Roles, UpdateUserRole(r, u, to)
    PROVE  MembershipInv'
  <1> USE MembershipAssumption DEF MembershipInv, people, locks, Idle, Roles
  <1>1. TypeOK'
    BY DEF UpdateUserRole, Begin, TypeOK, Request, Ops
  <1>2. AccountsFirst'
    BY DEF UpdateUserRole, Begin, TypeOK, AccountsFirst
  <1>3. HeldAdmins'
    BY DEF UpdateUserRole, Begin, TypeOK, Request, HeldAdmins, AccountsFirst
  <1>4. GuardedWrites'
    BY DEF UpdateUserRole, Begin, TypeOK, Request, GuardedWrites, Takes
  <1>5. SignInsFresh'
    BY DEF UpdateUserRole, Begin, TypeOK, Request, SignInsFresh, AccountsFirst
  <1>6. AdminRemains'
    BY DEF UpdateUserRole, Begin, TypeOK, AdminRemains, Admins
  <1>7. ClaimsAreCurrent'
    BY DEF UpdateUserRole, Begin, TypeOK, Request, ClaimsAreCurrent
  <1>8. QED  BY <1>1, <1>2, <1>3, <1>4, <1>5, <1>6, <1>7

\* A removal arrives.
LEMMA RemoveUserKeeps ==
    ASSUME MembershipInv, NEW r \in Requests, NEW u \in Users, RemoveUser(r, u)
    PROVE  MembershipInv'
  <1> USE MembershipAssumption DEF MembershipInv, people, locks, Idle, Roles
  <1>1. TypeOK'
    BY DEF RemoveUser, Begin, TypeOK, Request, Ops
  <1>2. AccountsFirst'
    BY DEF RemoveUser, Begin, TypeOK, AccountsFirst
  <1>3. HeldAdmins'
    BY DEF RemoveUser, Begin, TypeOK, Request, HeldAdmins, AccountsFirst
  <1>4. GuardedWrites'
    BY DEF RemoveUser, Begin, TypeOK, Request, GuardedWrites, Takes
  <1>5. SignInsFresh'
    BY DEF RemoveUser, Begin, TypeOK, Request, SignInsFresh, AccountsFirst
  <1>6. AdminRemains'
    BY DEF RemoveUser, Begin, TypeOK, AdminRemains, Admins
  <1>7. ClaimsAreCurrent'
    BY DEF RemoveUser, Begin, TypeOK, Request, ClaimsAreCurrent
  <1>8. QED  BY <1>1, <1>2, <1>3, <1>4, <1>5, <1>6, <1>7

\* A SCIM DELETE arrives.
LEMMA DeactivateUserKeeps ==
    ASSUME MembershipInv, NEW r \in Requests, NEW u \in Users, DeactivateUser(r, u)
    PROVE  MembershipInv'
  <1> USE MembershipAssumption DEF MembershipInv, people, locks, Idle, Roles
  <1>1. TypeOK'
    BY DEF DeactivateUser, Begin, TypeOK, Request, Ops
  <1>2. AccountsFirst'
    BY DEF DeactivateUser, Begin, TypeOK, AccountsFirst
  <1>3. HeldAdmins'
    BY DEF DeactivateUser, Begin, TypeOK, Request, HeldAdmins, AccountsFirst
  <1>4. GuardedWrites'
    BY DEF DeactivateUser, Begin, TypeOK, Request, GuardedWrites, Takes
  <1>5. SignInsFresh'
    BY DEF DeactivateUser, Begin, TypeOK, Request, SignInsFresh, AccountsFirst
  <1>6. AdminRemains'
    BY DEF DeactivateUser, Begin, TypeOK, AdminRemains, Admins
  <1>7. ClaimsAreCurrent'
    BY DEF DeactivateUser, Begin, TypeOK, Request, ClaimsAreCurrent
  <1>8. QED  BY <1>1, <1>2, <1>3, <1>4, <1>5, <1>6, <1>7

\* The guard's SELECT starts.
LEMMA SnapshotKeeps ==
    ASSUME MembershipInv, NEW r \in Requests, Snapshot(r)
    PROVE  MembershipInv'
  <1> USE MembershipAssumption DEF MembershipInv, people, locks, Idle, Roles
  <1>1. TypeOK'
    <2> DEFINE left == IF req[r].op = "delete" THEN Admins \ {req[r].user} ELSE Admins
    <2>1. left \in SUBSET Users  BY DEF Admins
    <2> HIDE DEF left
    <2>2. [req[r] EXCEPT !.at = "lock", !.left = left] \in Request  BY <2>1, Changed DEF TypeOK
    <2>3. req' = [req EXCEPT ![r] = [req[r] EXCEPT !.at = "lock", !.left = left]]
      BY DEF Snapshot, TypeOK, Request, left
    <2>4. QED  BY <2>2, <2>3 DEF Snapshot, TypeOK
  <1>2. AccountsFirst'
    BY DEF Snapshot, TypeOK, AccountsFirst
  <1>3. HeldAdmins'
    BY DEF Snapshot, TypeOK, Request, HeldAdmins, AccountsFirst
  <1>4. GuardedWrites'
    BY DEF Snapshot, TypeOK, Request, GuardedWrites, Takes
  <1>5. SignInsFresh'
    BY DEF Snapshot, TypeOK, Request, SignInsFresh, AccountsFirst
  <1>6. AdminRemains'
    BY DEF Snapshot, TypeOK, AdminRemains, Admins
  <1>7. ClaimsAreCurrent'
    BY DEF Snapshot, TypeOK, Request, ClaimsAreCurrent
  <1>8. QED  BY <1>1, <1>2, <1>3, <1>4, <1>5, <1>6, <1>7

\* The guard holds one more row, and counts it only if it says Admin.
LEMMA LockRowKeeps ==
    ASSUME MembershipInv, NEW r \in Requests, NEW u \in Users, LockRow(r, u)
    PROVE  MembershipInv'
  <1> USE MembershipAssumption DEF MembershipInv, people, locks, Idle, Roles
  <1>1. TypeOK'
    <2> DEFINE admins == IF role[u] = "Admin" THEN req[r].admins \cup {u} ELSE req[r].admins
    <2>1. req[r].left \ {u} \in SUBSET Users /\ admins \in SUBSET Users  BY DEF TypeOK, Request
    <2> HIDE DEF admins
    <2>2. [req[r] EXCEPT !.left = req[r].left \ {u}, !.admins = admins] \in Request  BY <2>1, Changed DEF TypeOK
    <2>3. req' = [req EXCEPT ![r] = [req[r] EXCEPT !.left = req[r].left \ {u}, !.admins = admins]]
      BY DEF LockRow, TypeOK, Request, admins
    <2>4. holder' \in [Users -> Requests \cup {None}] /\ roleHolder' \in Requests \cup {None}
      BY DEF LockRow, TypeOK
    <2>5. req' \in [Requests -> Request]  BY <2>2, <2>3 DEF TypeOK
    <2>6. UNCHANGED <<people, live, unguarded, outlived>>  BY DEF LockRow
    <2>7. QED  BY <2>4, <2>5, <2>6 DEF TypeOK
  <1>2. AccountsFirst'
    BY DEF LockRow, Free, RoleFree, TypeOK, AccountsFirst
  <1>3. HeldAdmins'
    BY DEF LockRow, Free, RoleFree, TypeOK, Request, HeldAdmins, AccountsFirst
  <1>4. GuardedWrites'
    BY DEF LockRow, Free, RoleFree, TypeOK, Request, GuardedWrites, Takes
  <1>5. SignInsFresh'
    BY DEF LockRow, Free, RoleFree, TypeOK, Request, SignInsFresh, AccountsFirst
  <1>6. AdminRemains'
    BY DEF LockRow, Free, RoleFree, TypeOK, AdminRemains, Admins
  <1>7. ClaimsAreCurrent'
    BY DEF LockRow, Free, RoleFree, TypeOK, Request, ClaimsAreCurrent
  <1>8. QED  BY <1>1, <1>2, <1>3, <1>4, <1>5, <1>6, <1>7

\* Behind the guard there is another Admin's row, or unguarded says there is none.
LEMMA GuardKeeps ==
    ASSUME MembershipInv, NEW r \in Requests, Guard(r)
    PROVE  MembershipInv'
  <1> USE MembershipAssumption DEF MembershipInv, people, locks, Idle, Roles
  <1>1. TypeOK'
    <2>1. Idle \in Request  BY IdleIsRequest
    <2>2. CASE LastAdmin(r) \/ Missing(r)
      BY <2>1, <2>2, ReleaseTypes DEF Guard, Finish, TypeOK
    <2>3. CASE ~(LastAdmin(r) \/ Missing(r))
      <3>1. req' \in [Requests -> Request]  BY <2>3 DEF Guard, Goto, TypeOK, Request
      <3>2. QED  BY <2>3, <3>1 DEF Guard, TypeOK
    <2>4. QED  BY <2>2, <2>3
  <1>2. AccountsFirst'
    BY DEF Guard, Finish, Release, Goto, LastAdmin, Missing, TypeOK, AccountsFirst
  <1>3. HeldAdmins'
    BY DEF Guard, Finish, Release, Goto, LastAdmin, Missing, TypeOK, Request, HeldAdmins, AccountsFirst
  <1>4. GuardedWrites'
    <2>1. CASE LastAdmin(r) \/ Missing(r)
      BY <2>1 DEF Guard, Finish, TypeOK, GuardedWrites, Takes
    <2>2. CASE ~(LastAdmin(r) \/ Missing(r))
      <3>1. req'[r].admins = req[r].admins /\ req'[r].user = req[r].user  BY <2>2 DEF Guard, Goto, TypeOK, Request
      <3>2. unguarded' \/ req'[r].admins \ {req'[r].user} # {}  BY <2>2, <3>1 DEF Guard
      <3>3. unguarded => unguarded'  BY <2>2 DEF Guard
      <3>4. \A q \in Requests \ {r} : req'[q] = req[q]  BY <2>2 DEF Guard, Goto, TypeOK
      <3>5. QED  BY <3>2, <3>3, <3>4 DEF GuardedWrites
    <2>3. QED  BY <2>1, <2>2
  <1>5. SignInsFresh'
    <2>1. CASE LastAdmin(r) \/ Missing(r)
      BY <2>1 DEF Guard, Finish, TypeOK, SignInsFresh
    <2>2. CASE ~(LastAdmin(r) \/ Missing(r))
      BY <2>2 DEF Guard, Goto, TypeOK, Request, SignInsFresh
    <2>3. QED  BY <2>1, <2>2
  <1>6. AdminRemains'
    BY DEF Guard, Finish, Release, Goto, LastAdmin, Missing, TypeOK, AdminRemains, Admins
  <1>7. ClaimsAreCurrent'
    BY DEF Guard, Finish, Release, Goto, LastAdmin, Missing, TypeOK, Request, ClaimsAreCurrent
  <1>8. QED  BY <1>1, <1>2, <1>3, <1>4, <1>5, <1>6, <1>7

\* The other Admin's row is locked, so it is still there after the write.
LEMMA WriteKeeps ==
    ASSUME MembershipInv, NEW r \in Requests, Write(r)
    PROVE  MembershipInv'
  <1> USE MembershipAssumption DEF MembershipInv, people, locks, Idle, Roles
  <1> DEFINE v == req[r].user
             steps == IF req[r].op = "delete" THEN {"member", "issue"} ELSE {"issue"}
  <1> v \in Users /\ req[r].op \in Ops  BY DEF TypeOK, Request
  <1>a. ~Gone(r) => OwesRevocation(r, v, steps)
    <2> DEFINE gone == IF NewRole(r) = "none" THEN {v} ELSE {}
    <2>1. ~Gone(r) => req' = Unseen(gone, Mark(steps, v, [req EXCEPT ![r] = [Idle EXCEPT !.op = req[r].op, !.user = v, !.at = "revoke"]]))
      BY DEF Write
    <2> HIDE DEF gone, v, steps
    <2>2. QED  BY <2>1, RevocationOwed
  <1> HIDE DEF steps
  <1>1. TypeOK'
    <2>1. CASE Gone(r)
      BY <2>1, IdleIsRequest, ReleaseTypes DEF Write, Finish, TypeOK
    <2>2. CASE ~Gone(r)
      <3>1. NewRole(r) \in Roles \cup {"none"}  BY DEF NewRole, TypeOK, Request
      <3>2. role' \in [Users -> Roles \cup {"none"}]  BY <2>2, <3>1 DEF Write, TypeOK
      <3>3. account' \in [Users -> {"active", "inactive", "none"}]  BY <2>2 DEF Write, TypeOK
      <3>4. QED  BY <1>a, <2>2, <3>2, <3>3, ReleaseTypes DEF Write, OwesRevocation, TypeOK
    <2>3. QED  BY <2>1, <2>2
  <1>2. AccountsFirst'
    BY DEF Write, Finish, Release, Free, Gone, NewRole, TypeOK, AccountsFirst
  <1>3. HeldAdmins'
    <2>1. CASE Gone(r)
      <3>1. req'[r].admins = {} /\ \A q \in Requests \ {r} : req'[q] = req[q]  BY <2>1 DEF Write, Finish, TypeOK
      <3>2. ASSUME NEW q \in Requests \ {r}, NEW w \in req[q].admins
            PROVE  holder'[w] = q /\ role'[w] = "Admin"
        BY <2>1 DEF Write, Release, TypeOK, Request, HeldAdmins
      <3>3. QED  BY <3>1, <3>2 DEF HeldAdmins
    <2>2. CASE ~Gone(r)
      <3>1. ASSUME NEW q \in Requests \ {r}, NEW w \in req[q].admins
            PROVE  holder'[w] = q /\ role'[w] = "Admin"
        <4>1. holder[w] = q /\ role[w] = "Admin" /\ w \in Users  BY DEF HeldAdmins, TypeOK, Request
        <4>2. w # v  BY <4>1 DEF Write, Free
        <4>3. QED  BY <2>2, <4>1, <4>2 DEF Write, Release, TypeOK
      <3>2. QED  BY <1>a, <2>2, <3>1 DEF OwesRevocation, HeldAdmins
    <2>3. QED  BY <2>1, <2>2
  <1>4. GuardedWrites'
    <2>1. CASE Gone(r)
      BY <2>1 DEF Write, Finish, TypeOK, GuardedWrites, Takes
    <2>2. CASE ~Gone(r)
      <3>1. unguarded' = unguarded /\ req'[r].at # "write"  BY <1>a, <2>2 DEF Write, OwesRevocation
      <3>2. \A q \in Requests \ {r} : Takes(req'[q]) = Takes(req[q])  BY <1>a, <2>2 DEF OwesRevocation, Takes
      <3>3. QED  BY <1>a, <2>2, <3>1, <3>2 DEF OwesRevocation, GuardedWrites
    <2>3. QED  BY <2>1, <2>2
  <1>5. SignInsFresh'
    <2>1. CASE Gone(r)
      BY <2>1 DEF Write, Finish, TypeOK, SignInsFresh
    <2>2. CASE ~Gone(r)
      <3>1. ASSUME NEW q \in Requests \ {r}, req'[q].at \in {"member", "issue"}
            PROVE  /\ req'[q].op = "signin"
                   /\ ~req'[q].stale => account'[req'[q].user] = "active"
                   /\ ~req'[q].stale /\ req'[q].at = "issue" => role'[req'[q].user] = req'[q].to
        <4>1. /\ req'[q].op = "signin" /\ req[q].op = "signin" /\ req[q].user \in Users
              /\ req'[q].user = req[q].user /\ req'[q].to = req[q].to /\ req'[q].at = req[q].at
              /\ ~req'[q].stale => ~req[q].stale /\ ~Overtaken(v, steps, q)
          BY <1>a, <2>2, <3>1 DEF OwesRevocation, SignInsFresh, TypeOK, Request
        <4>2. CASE req'[q].stale  BY <4>1, <4>2
        <4>3. CASE ~req'[q].stale
          <5>1. account[req[q].user] = "active" /\ (req[q].at = "issue" => role[req[q].user] = req[q].to)
            BY <3>1, <4>1, <4>3 DEF SignInsFresh
          <5>2. CASE req[q].user # v  BY <2>2, <4>1, <5>1, <5>2 DEF Write, TypeOK
          <5>3. CASE req[q].user = v
            <6>1. req[q].at = "member" /\ req[r].op # "delete"
              BY <3>1, <4>1, <4>3, <5>3 DEF Overtaken, steps
            <6>2. QED  BY <2>2, <4>1, <5>1, <5>3, <6>1 DEF Write, TypeOK
          <5>4. QED  BY <5>2, <5>3
        <4>4. QED  BY <4>2, <4>3
      <3>2. QED  BY <1>a, <2>2, <3>1 DEF OwesRevocation, SignInsFresh
    <2>3. QED  BY <2>1, <2>2
  <1>6. AdminRemains'
    <2>1. CASE Gone(r)
      BY <2>1 DEF Write, AdminRemains, Admins
    <2>2. CASE ~Gone(r) /\ Takes(req[r])
      <3>1. unguarded \/ req[r].admins \ {v} # {}  BY <2>2 DEF Write, GuardedWrites
      <3>2. ASSUME NEW w \in req[r].admins \ {v} PROVE w \in Admins'
        <4>1. w \in Users /\ role[w] = "Admin"  BY DEF HeldAdmins, TypeOK, Request
        <4>2. QED  BY <2>2, <4>1 DEF Write, TypeOK, Admins
      <3>3. QED  BY <3>1, <3>2 DEF Write, AdminRemains
    <2>3. CASE ~Gone(r) /\ ~Takes(req[r])
      <3>1. NewRole(r) = "Admin"  BY <2>3 DEF Write, Takes, NewRole, TypeOK, Request
      <3>2. role'[v] = "Admin"  BY <2>3, <3>1 DEF Write, TypeOK
      <3>3. QED  BY <3>2 DEF AdminRemains, Admins
    <2>4. QED  BY <2>1, <2>2, <2>3
  <1>7. ClaimsAreCurrent'
    <2>1. CASE Gone(r)
      <3>1. \A q \in Requests \ {r} : req'[q] = req[q]  BY <2>1 DEF Write, Finish, TypeOK
      <3>2. req[r].at # "revoke" /\ UNCHANGED <<people, live, outlived>>  BY <2>1 DEF Write
      <3>3. QED  BY <3>1, <3>2 DEF ClaimsAreCurrent
    <2>2. CASE ~Gone(r)
      <3>1. ASSUME NEW t \in live
            PROVE  \/ role'[t[1]] = t[2] /\ account'[t[1]] = "active"
                   \/ t[1] \in outlived
                   \/ \E q \in Requests : req'[q].at = "revoke" /\ req'[q].user = t[1]
        <4>1. CASE t[1] = v  BY <1>a, <2>2, <4>1 DEF OwesRevocation
        <4>2. CASE t[1] # v
          <5>1. role'[t[1]] = role[t[1]] /\ account'[t[1]] = account[t[1]]
            BY <2>2, <4>2 DEF Write, TypeOK
          <5>2. req[r].at # "revoke"  BY DEF Write
          <5>3. QED  BY <1>a, <2>2, <5>1, <5>2 DEF OwesRevocation, ClaimsAreCurrent
        <4>3. QED  BY <4>1, <4>2
      <3>2. QED  BY <3>1 DEF Write, ClaimsAreCurrent
    <2>3. QED  BY <2>1, <2>2
  <1>8. QED  BY <1>1, <1>2, <1>3, <1>4, <1>5, <1>6, <1>7

\* What the revocation does not reach is in outlived.
LEMMA RevokeSessionsKeeps ==
    ASSUME MembershipInv, NEW r \in Requests, RevokeSessions(r)
    PROVE  MembershipInv'
  <1> USE MembershipAssumption DEF MembershipInv, people, locks, Idle, Roles
  <1>1. TypeOK'
    BY DEF RevokeSessions, Finish, TypeOK, Request, Ops
  <1>2. AccountsFirst'
    BY DEF RevokeSessions, Finish, TypeOK, AccountsFirst
  <1>3. HeldAdmins'
    BY DEF RevokeSessions, Finish, TypeOK, Request, HeldAdmins, AccountsFirst
  <1>4. GuardedWrites'
    BY DEF RevokeSessions, Finish, TypeOK, Request, GuardedWrites, Takes
  <1>5. SignInsFresh'
    BY DEF RevokeSessions, Finish, TypeOK, Request, SignInsFresh, AccountsFirst
  <1>6. AdminRemains'
    BY DEF RevokeSessions, Finish, TypeOK, AdminRemains, Admins
  <1>7. ClaimsAreCurrent'
    BY DEF RevokeSessions, Finish, TypeOK, Request, ClaimsAreCurrent
  <1>8. QED  BY <1>1, <1>2, <1>3, <1>4, <1>5, <1>6, <1>7

\* POST, PUT and PATCH: the revocation owed accounts for every token of a deactivated user.
LEMMA SetActiveKeeps ==
    ASSUME MembershipInv, NEW r \in Requests, NEW u \in Users, NEW active \in {"active", "inactive"},
           req[r].at # "revoke", SetActive(r, u, active),
           role' = [role EXCEPT ![u] = IF @ = "none" THEN "Viewer" ELSE @],
           UNCHANGED <<locks, live, unguarded, outlived>>
    PROVE  MembershipInv'
  <1> USE MembershipAssumption DEF MembershipInv, people, locks, Roles
  <1> DEFINE steps == {"member", "issue"}
  <1>a. CASE active = "active"
    <2>1. req' = [req EXCEPT ![r] = Idle]  BY <1>a DEF SetActive
    <2>2. /\ req' \in [Requests -> Request] /\ req'[r].at = "idle" /\ req'[r].admins = {}
          /\ \A q \in Requests \ {r} : req'[q] = req[q]
      BY <2>1, IdleIsRequest DEF TypeOK, Idle
    <2>3. account' = [account EXCEPT ![u] = "active"]  BY <1>a DEF SetActive
    <2>4. TypeOK'  BY <2>2, <2>3 DEF TypeOK
    <2>5. AccountsFirst'  BY <2>3 DEF TypeOK, AccountsFirst
    <2>6. HeldAdmins'  BY <2>2 DEF TypeOK, Request, HeldAdmins
    <2>7. GuardedWrites'  BY <2>2 DEF GuardedWrites
    <2>8. SignInsFresh'  BY <2>2, <2>3 DEF TypeOK, Request, SignInsFresh
    <2>9. AdminRemains'  BY DEF TypeOK, AdminRemains, Admins
    <2>10. ClaimsAreCurrent'  BY <2>2, <2>3 DEF TypeOK, ClaimsAreCurrent
    <2>11. QED  BY <2>4, <2>5, <2>6, <2>7, <2>8, <2>9, <2>10
  <1>b. CASE active = "inactive"
    <2>1. OwesRevocation(r, u, steps)  BY <1>b, RevocationOwed DEF SetActive, Ops
    <2>2. account' = [account EXCEPT ![u] = "inactive"]  BY <1>b DEF SetActive
    <2>3. TypeOK'  BY <2>1, <2>2 DEF OwesRevocation, TypeOK
    <2>4. AccountsFirst'  BY <2>2 DEF TypeOK, AccountsFirst
    <2>5. HeldAdmins'  BY <2>1 DEF OwesRevocation, TypeOK, Request, HeldAdmins
    <2>6. GuardedWrites'
      <3>1. \A q \in Requests \ {r} : Takes(req'[q]) = Takes(req[q])  BY <2>1 DEF OwesRevocation, Takes
      <3>2. QED  BY <2>1, <3>1 DEF OwesRevocation, GuardedWrites
    <2>7. SignInsFresh'
      <3>1. ASSUME NEW q \in Requests \ {r}, req'[q].at \in {"member", "issue"}
            PROVE  /\ req'[q].op = "signin"
                   /\ ~req'[q].stale => account'[req'[q].user] = "active"
                   /\ ~req'[q].stale /\ req'[q].at = "issue" => role'[req'[q].user] = req'[q].to
        <4>1. /\ req'[q].op = "signin" /\ req[q].op = "signin" /\ req[q].user \in Users
              /\ req'[q].user = req[q].user /\ req'[q].to = req[q].to /\ req'[q].at = req[q].at
              /\ req[q].to \in Roles
              /\ ~req'[q].stale => ~req[q].stale /\ ~Overtaken(u, steps, q)
          BY <2>1, <3>1 DEF OwesRevocation, SignInsFresh, TypeOK, Request
        <4>2. CASE req'[q].stale  BY <4>1, <4>2
        <4>3. CASE ~req'[q].stale
          <5>1. account[req[q].user] = "active" /\ (req[q].at = "issue" => role[req[q].user] = req[q].to)
            BY <3>1, <4>1, <4>3 DEF SignInsFresh
          <5>2. req[q].user # u  BY <3>1, <4>1, <4>3 DEF Overtaken
          <5>3. QED  BY <2>2, <4>1, <5>1, <5>2 DEF TypeOK
        <4>4. QED  BY <4>2, <4>3
      <3>2. QED  BY <2>1, <3>1 DEF OwesRevocation, SignInsFresh
    <2>8. AdminRemains'  BY DEF TypeOK, AdminRemains, Admins
    <2>9. ClaimsAreCurrent'
      <3>1. ASSUME NEW t \in live
            PROVE  \/ role'[t[1]] = t[2] /\ account'[t[1]] = "active"
                   \/ t[1] \in outlived
                   \/ \E q \in Requests : req'[q].at = "revoke" /\ req'[q].user = t[1]
        <4>1. CASE t[1] = u  BY <2>1, <4>1 DEF OwesRevocation
        <4>2. CASE t[1] # u
          <5>1. role'[t[1]] = role[t[1]] /\ account'[t[1]] = account[t[1]]  BY <2>2, <4>2 DEF TypeOK
          <5>2. QED  BY <2>1, <5>1 DEF OwesRevocation, ClaimsAreCurrent
        <4>3. QED  BY <4>1, <4>2
      <3>2. QED  BY <3>1 DEF ClaimsAreCurrent
    <2>10. QED  BY <2>3, <2>4, <2>5, <2>6, <2>7, <2>8, <2>9
  <1>c. QED  BY <1>a, <1>b

\* SCIM POST.
LEMMA CreateUserKeeps ==
    ASSUME MembershipInv, NEW r \in Requests, NEW u \in Users, NEW active \in {"active", "inactive"},
           CreateUser(r, u, active)
    PROVE  MembershipInv'
  BY SetActiveKeeps DEF CreateUser

\* A SCIM PATCH arrives.
LEMMA PatchUserKeeps ==
    ASSUME MembershipInv, NEW r \in Requests, NEW u \in Users, PatchUser(r, u)
    PROVE  MembershipInv'
  <1> USE MembershipAssumption DEF MembershipInv, people, locks, Idle, Roles
  <1>1. TypeOK'
    <2>1. PICK active \in {"active", "inactive"}, told \in BOOLEAN :
            req' = [req EXCEPT ![r] = [Idle EXCEPT !.op = "write", !.at = "write", !.user = u,
                                                   !.active = active, !.told = told]]
      BY DEF PatchUser, Begin
    <2>2. [Idle EXCEPT !.op = "write", !.at = "write", !.user = u, !.active = active, !.told = told] \in Request
      BY DEF Request, Ops
    <2>3. req' \in [Requests -> Request]  BY <2>1, <2>2 DEF TypeOK
    <2>4. QED  BY <2>3 DEF PatchUser, TypeOK
  <1>2. AccountsFirst'
    BY DEF PatchUser, Begin, TypeOK, AccountsFirst
  <1>3. HeldAdmins'
    BY DEF PatchUser, Begin, TypeOK, Request, HeldAdmins, AccountsFirst
  <1>4. GuardedWrites'
    BY DEF PatchUser, Begin, TypeOK, Request, GuardedWrites, Takes
  <1>5. SignInsFresh'
    BY DEF PatchUser, Begin, TypeOK, Request, SignInsFresh, AccountsFirst
  <1>6. AdminRemains'
    BY DEF PatchUser, Begin, TypeOK, AdminRemains, Admins
  <1>7. ClaimsAreCurrent'
    BY DEF PatchUser, Begin, TypeOK, Request, ClaimsAreCurrent
  <1>8. QED  BY <1>1, <1>2, <1>3, <1>4, <1>5, <1>6, <1>7

\* SCIM PUT and PATCH.
LEMMA ReplaceUserKeeps ==
    ASSUME MembershipInv, NEW r \in Requests, ReplaceUser(r)
    PROVE  MembershipInv'
  <1> USE MembershipAssumption DEF MembershipInv, people, locks, Idle, Roles
  <1> DEFINE v == req[r].user
  <1>1. CASE role[v] = "none"
    <2>1. TypeOK'  BY <1>1, IdleIsRequest DEF ReplaceUser, Finish, TypeOK
    <2>2. AccountsFirst' /\ AdminRemains'  BY <1>1 DEF ReplaceUser, AccountsFirst, AdminRemains, Admins
    <2>3. HeldAdmins'  BY <1>1 DEF ReplaceUser, Finish, TypeOK, Request, HeldAdmins
    <2>4. GuardedWrites'  BY <1>1 DEF ReplaceUser, Finish, TypeOK, GuardedWrites, Takes
    <2>5. SignInsFresh'  BY <1>1 DEF ReplaceUser, Finish, TypeOK, SignInsFresh
    <2>6. ClaimsAreCurrent'  BY <1>1 DEF ReplaceUser, Finish, TypeOK, ClaimsAreCurrent
    <2>7. QED  BY <2>1, <2>2, <2>3, <2>4, <2>5, <2>6
  <1>2. CASE role[v] # "none"
    <2>1. v \in Users /\ req[r].active \in {"active", "inactive"}  BY DEF TypeOK, Request
    <2>2. role' = [role EXCEPT ![v] = IF @ = "none" THEN "Viewer" ELSE @]  BY <1>2, <2>1 DEF ReplaceUser, TypeOK
    <2>3. SetActive(r, v, req[r].active) /\ req[r].at # "revoke"  BY <1>2 DEF ReplaceUser
    <2>4. UNCHANGED <<locks, live, unguarded, outlived>>  BY DEF ReplaceUser
    <2>5. QED  BY <2>1, <2>2, <2>3, <2>4, SetActiveKeeps
  <1>3. QED  BY <1>1, <1>2

\* Vakt HR asks no guard, and says so in unguarded.
LEMMA DisableUserKeeps ==
    ASSUME MembershipInv, NEW u \in Users, DisableUser(u)
    PROVE  MembershipInv'
  <1> USE MembershipAssumption DEF MembershipInv, people, locks, Idle, Roles
  <1>0. /\ req' \in [Requests -> Request]
        /\ \A q \in Requests :
             /\ req'[q].at = req[q].at /\ req'[q].op = req[q].op /\ req'[q].user = req[q].user
             /\ req'[q].to = req[q].to /\ req'[q].admins = req[q].admins
             /\ ~req'[q].stale => ~req[q].stale /\ ~Overtaken(u, {"issue"}, q)
    <2>1. req \in [Requests -> Request] /\ req' = Unseen({u}, Mark({"issue"}, u, req))
      BY DEF TypeOK, DisableUser
    <2> DEFINE marked == Mark({"issue"}, u, req)
    <2>2. /\ marked \in [Requests -> Request]
          /\ \A q \in Requests :
               /\ marked[q].at = req[q].at /\ marked[q].op = req[q].op /\ marked[q].user = req[q].user
               /\ marked[q].to = req[q].to /\ marked[q].admins = req[q].admins
               /\ ~marked[q].stale => ~req[q].stale /\ ~Overtaken(u, {"issue"}, q)
      BY <2>1, MarkFacts
    <2>3. req' = Unseen({u}, marked)  BY <2>1
    <2> HIDE DEF marked
    <2>4. QED  BY <2>2, <2>3, UnseenFacts
  <1>a. /\ role[u] # "none" /\ holder[u] = None /\ role' = [role EXCEPT ![u] = "none"]
        /\ unguarded' = (unguarded \/ Admins \subseteq {u}) /\ UNCHANGED <<account, locks>>
        /\ \/ live' = {t \in live : t[1] # u} /\ outlived' = outlived \ {u}
           \/ live' = live /\ outlived' = outlived \cup {u}
    BY DEF DisableUser
  <1>1. TypeOK'  BY <1>0, <1>a DEF TypeOK
  <1>2. AccountsFirst'  BY <1>a DEF TypeOK, AccountsFirst
  <1>3. HeldAdmins'
    <2>1. ASSUME NEW q \in Requests, NEW w \in req'[q].admins PROVE holder'[w] = q /\ role'[w] = "Admin"
      <3>1. w \in req[q].admins /\ w \in Users  BY <1>0, <2>1 DEF TypeOK, Request
      <3>2. holder[w] = q /\ role[w] = "Admin"  BY <3>1 DEF HeldAdmins
      <3>3. QED  BY <1>a, <3>1, <3>2 DEF TypeOK
    <2>2. QED  BY <2>1 DEF HeldAdmins
  <1>4. GuardedWrites'
    <2>1. \A q \in Requests : Takes(req'[q]) = Takes(req[q])  BY <1>0 DEF Takes
    <2>2. QED  BY <1>0, <1>a, <2>1 DEF GuardedWrites
  <1>5. SignInsFresh'
    <2>1. ASSUME NEW q \in Requests, req'[q].at \in {"member", "issue"}
          PROVE  /\ req'[q].op = "signin"
                 /\ ~req'[q].stale => account'[req'[q].user] = "active"
                 /\ ~req'[q].stale /\ req'[q].at = "issue" => role'[req'[q].user] = req'[q].to
      <3>1. /\ req'[q].at = req[q].at /\ req'[q].op = req[q].op /\ req'[q].user = req[q].user
            /\ req'[q].to = req[q].to /\ req[q].user \in Users /\ req[q].op = "signin"
            /\ ~req'[q].stale => ~req[q].stale /\ ~Overtaken(u, {"issue"}, q)
        BY <1>0, <2>1 DEF SignInsFresh, TypeOK, Request
      <3>2. ~req'[q].stale => account'[req'[q].user] = "active"  BY <1>a, <2>1, <3>1 DEF SignInsFresh
      <3>3. ASSUME ~req'[q].stale, req'[q].at = "issue" PROVE role'[req'[q].user] = req'[q].to
        <4>1. req[q].user # u  BY <3>1, <3>3 DEF Overtaken
        <4>2. role[req[q].user] = req[q].to  BY <3>1, <3>3 DEF SignInsFresh
        <4>3. QED  BY <1>a, <3>1, <4>1, <4>2 DEF TypeOK
      <3>4. QED  BY <3>1, <3>2, <3>3
    <2>2. QED  BY <2>1 DEF SignInsFresh
  <1>6. AdminRemains'  BY <1>a DEF TypeOK, AdminRemains, Admins
  <1>7. ClaimsAreCurrent'
    <2>1. ASSUME NEW t \in live'
          PROVE  \/ role'[t[1]] = t[2] /\ account'[t[1]] = "active"
                 \/ t[1] \in outlived'
                 \/ \E q \in Requests : req'[q].at = "revoke" /\ req'[q].user = t[1]
      <3>1. t \in live /\ t[1] \in Users  BY <1>a DEF TypeOK
      <3>2. CASE t[1] = u  BY <1>a, <2>1, <3>2
      <3>3. CASE t[1] # u
        <4>1. role'[t[1]] = role[t[1]] /\ account'[t[1]] = account[t[1]]  BY <1>a, <3>1, <3>3 DEF TypeOK
        <4>2. t[1] \in outlived => t[1] \in outlived'  BY <1>a, <3>3
        <4>3. QED  BY <1>0, <3>1, <4>1, <4>2 DEF ClaimsAreCurrent
      <3>4. QED  BY <3>2, <3>3
    <2>2. QED  BY <2>1 DEF ClaimsAreCurrent
  <1>8. QED  BY <1>1, <1>2, <1>3, <1>4, <1>5, <1>6, <1>7

\* A rollback gives up locks nobody counts on.
LEMMA RollbackKeeps ==
    ASSUME MembershipInv, NEW r \in Requests, Rollback(r)
    PROVE  MembershipInv'
  <1> USE MembershipAssumption DEF MembershipInv, people, locks, Idle, Roles
  <1>1. TypeOK'
    BY DEF Rollback, Finish, Release, TypeOK, Request, Ops
  <1>2. AccountsFirst'
    BY DEF Rollback, Finish, Release, TypeOK, AccountsFirst
  <1>3. HeldAdmins'
    BY DEF Rollback, Finish, Release, TypeOK, Request, HeldAdmins, AccountsFirst
  <1>4. GuardedWrites'
    BY DEF Rollback, Finish, Release, TypeOK, Request, GuardedWrites, Takes
  <1>5. SignInsFresh'
    BY DEF Rollback, Finish, Release, TypeOK, Request, SignInsFresh, AccountsFirst
  <1>6. AdminRemains'
    BY DEF Rollback, Finish, Release, TypeOK, AdminRemains, Admins
  <1>7. ClaimsAreCurrent'
    BY DEF Rollback, Finish, Release, TypeOK, Request, ClaimsAreCurrent
  <1>8. QED  BY <1>1, <1>2, <1>3, <1>4, <1>5, <1>6, <1>7

\* A victim of deadlock detection is rolled back.
LEMMA DeadlockKeeps ==
    ASSUME MembershipInv, NEW r \in Requests, Deadlock(r)
    PROVE  MembershipInv'
  <1> USE MembershipAssumption DEF MembershipInv, people, locks, Idle, Roles
  <1>1. TypeOK'
    BY DEF Deadlock, Finish, Release, TypeOK, Request, Ops
  <1>2. AccountsFirst'
    BY DEF Deadlock, Finish, Release, TypeOK, AccountsFirst
  <1>3. HeldAdmins'
    BY DEF Deadlock, Finish, Release, TypeOK, Request, HeldAdmins, AccountsFirst
  <1>4. GuardedWrites'
    BY DEF Deadlock, Finish, Release, TypeOK, Request, GuardedWrites, Takes
  <1>5. SignInsFresh'
    BY DEF Deadlock, Finish, Release, TypeOK, Request, SignInsFresh, AccountsFirst
  <1>6. AdminRemains'
    BY DEF Deadlock, Finish, Release, TypeOK, AdminRemains, Admins
  <1>7. ClaimsAreCurrent'
    <2>1. req[r].at # "revoke"  BY DEF Deadlock, Blocked
    <2>2. QED  BY <2>1 DEF Deadlock, Finish, Release, TypeOK, Request, ClaimsAreCurrent
  <1>8. QED  BY <1>1, <1>2, <1>3, <1>4, <1>5, <1>6, <1>7

-----------------------------------------------------------------------------
(* The theorems.                                                           *)

\* The setup wizard leaves an Admin, nobody's token and nothing in flight.
LEMMA MembershipInit == ASSUME Init PROVE MembershipInv
  <1> USE MembershipAssumption DEF Init, Idle, Roles
  <1>1. TypeOK  BY IdleIsRequest DEF TypeOK
  <1>2. AccountsFirst /\ HeldAdmins /\ GuardedWrites /\ SignInsFresh
    BY DEF AccountsFirst, HeldAdmins, GuardedWrites, Takes, SignInsFresh
  <1>3. AdminRemains /\ ClaimsAreCurrent  BY DEF AdminRemains, Admins, ClaimsAreCurrent
  <1>4. QED  BY <1>1, <1>2, <1>3 DEF MembershipInv

\* No step of any request breaks the invariant.
LEMMA MembershipStep == ASSUME MembershipInv, [Next]_vars PROVE MembershipInv'
  <1>1. CASE UNCHANGED vars
    BY <1>1 DEF vars, people, locks, MembershipInv, TypeOK, AccountsFirst, HeldAdmins, GuardedWrites, Takes,
                SignInsFresh, AdminRemains, Admins, ClaimsAreCurrent
  <1>2. ASSUME NEW r \in Requests, Handle(r) PROVE MembershipInv'
    BY <1>2, ReadRoleKeeps, IssueTokenKeeps, SnapshotKeeps, LockRowKeeps, GuardKeeps, WriteKeeps,
       ReplaceUserKeeps, RevokeSessionsKeeps, RollbackKeeps, DeadlockKeeps DEF Handle
  <1>3. ASSUME NEW r \in Requests, NEW u \in Users, Arrive(r, u) PROVE MembershipInv'
    BY <1>3, SignInKeeps, RemoveUserKeeps, DeactivateUserKeeps, PatchUserKeeps, UpdateUserRoleKeeps,
       CreateUserKeeps DEF Arrive
  <1>4. ASSUME NEW u \in Users,
               DisableUser(u) \/ \E to \in Roles : AcceptInvitation(u, to) \/ InviteUser(u, to)
        PROVE  MembershipInv'
    BY <1>4, DisableUserKeeps, AcceptInvitationKeeps, InviteUserKeeps
  <1>5. QED  BY <1>1, <1>2, <1>3, <1>4 DEF Next

\* Hence it holds throughout.
LEMMA MembershipInvHolds == Spec => []MembershipInv
  <1>1. Init => MembershipInv  BY MembershipInit
  <1>2. MembershipInv /\ [Next]_vars => MembershipInv'  BY MembershipStep
  <1>3. QED  BY <1>1, <1>2, PTL DEF Spec

\* Every reachable state is well typed, whatever the requests and their failures.
THEOREM MembershipTypeCorrect == Spec => []TypeOK
  <1>1. MembershipInv => TypeOK  BY DEF MembershipInv
  <1>2. QED  BY MembershipInvHolds, <1>1, PTL

\* ensureNotLastAdmin, DeactivateUser: for any number of concurrent demotions, removals and
\* syncs an Admin remains, unless somebody took a membership without holding another Admin's row.
THEOREM OrganisationKeepsAnAdmin == Spec => []AdminRemains
  <1>1. MembershipInv => AdminRemains  BY DEF MembershipInv
  <1>2. QED  BY MembershipInvHolds, <1>1, PTL

\* Login, Refresh, RevokeAllSessions: for any number of users and requests the claims of the
\* tokens in use are current, save those a revocation is owed to or could not reach.
THEOREM ClaimsFollowMembership == Spec => []ClaimsAreCurrent
  <1>1. MembershipInv => ClaimsAreCurrent  BY DEF MembershipInv
  <1>2. QED  BY MembershipInvHolds, <1>1, PTL

=============================================================================
