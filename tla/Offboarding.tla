---------------------------- MODULE Offboarding ----------------------------
(***************************************************************************)
(* The offboarding of one employee (backend/internal/modules/vakthr).      *)
(* Closing an offboarding checklist publishes an evidence row saying that  *)
(* the person's platform access is gone, so every way to close one first   *)
(* runs a gate that revokes it: sessions, API keys, then the org_members   *)
(* row, which is also the only way to find the account again.              *)
(*                                                                         *)
(* Each call of a handler to a store or to the session service is a step   *)
(* that may fail.  RevokeAllSessions appears by its contract (see module   *)
(* Sessions): nil ends every access token handed out before, an error may  *)
(* or may not have.  The employee signs in and creates API keys meanwhile, *)
(* and user management may remove the same person.  hr_employees.status is *)
(* written but never read by these handlers: only whether the write fails  *)
(* matters here.                                                           *)
(*                                                                         *)
(* An operator placed right before the one it resembles and used by no     *)
(* other definition is a faulty variant for the mutation checks.           *)
(***************************************************************************)
EXTENDS Naturals, FiniteSets

CONSTANTS
    Tokens,       \* access tokens the employee can be handed
    ApiKeys,      \* API keys the employee can create
    Runs,         \* offboarding runs of the employee
    Steps,        \* items of the offboarding checklist
    Required,     \* those that must be done
    Requests,     \* requests that can be in flight at the same time
    Sent,         \* bound: the item lists a client may send
    Removals,     \* TRUE: user management may remove the same person
    NoRun,        \* no value
    MaxFaults     \* bound: calls that fail, requests that die

ASSUME OffboardingAssumption ==
    /\ Tokens \cap ApiKeys = {}
    /\ Required \subseteq Steps /\ Sent \subseteq SUBSET Steps
    /\ NoRun \notin Runs
    /\ MaxFaults \in Nat /\ Removals \in BOOLEAN

VARIABLES
    member,    \* the org_members row
    alive,     \* the tokens and API keys that are accepted
    used,      \* the tokens and API keys ever handed out
    signing,   \* the employee is past the membership check of a login or refresh
    minting,   \* a request to create an API key is past authentication
    run,       \* [Runs -> a row of hr_checklist_runs]
    attested,  \* what the evidence rows written say is revoked
    req,       \* [Requests -> local state of a handler]
    faults,
    slipped,   \* history: tokens of a sign-in that overlapped a revocation of everything
    blind      \* history: a lookup of the account failed, or a removal never revoked

person == <<member, alive, used, signing, minting, slipped>>
records == <<run, attested>>
vars == <<person, records, req, faults, blind>>

Credentials == Tokens \cup ApiKeys
RunStatus == {"absent", "in_progress", "completed"}
Gate == {"resolve", "revoke", "apiKeys", "disable"}
Request == [op: {"step", "put", "terminate", "remove"},
            at: {"idle", "write", "tick", "evidence", "removed"} \cup Gate,
            run: Runs \cup {NoRun}, items: SUBSET Steps, new: RunStatus, fires: BOOLEAN,
            found: BOOLEAN, tokensDead: BOOLEAN, failed: BOOLEAN, old: SUBSET Credentials]

TypeOK ==
    /\ {member, signing, minting, blind} \subseteq BOOLEAN
    /\ alive \subseteq used /\ used \subseteq Credentials
    /\ slipped \subseteq used \cap Tokens
    /\ attested \subseteq used
    /\ run \in [Runs -> [status: RunStatus, items: SUBSET Steps]]
    /\ req \in [Requests -> Request]
    /\ faults \in 0..MaxFaults

Idle == [op |-> "step", at |-> "idle", run |-> NoRun, items |-> {}, new |-> "absent", fires |-> FALSE,
         found |-> FALSE, tokensDead |-> TRUE, failed |-> FALSE, old |-> {}]

Init ==
    /\ member = TRUE /\ alive = {} /\ used = {} /\ signing = FALSE /\ minting = FALSE
    /\ run = [x \in Runs |-> [status |-> "absent", items |-> {}]]
    /\ attested = {}
    /\ req = [r \in Requests |-> Idle]
    /\ faults = 0 /\ slipped = {} /\ blind = FALSE

Goto(r, step) == req' = [req EXCEPT ![r].at = step]
Finish(r) == req' = [req EXCEPT ![r] = Idle]
Succeeds == faults' = faults
Fails == faults < MaxFaults /\ faults' = faults + 1

-----------------------------------------------------------------------------
(* The employee and user management.                                       *)

\* Login, Refresh: both read the membership first and issue a token some calls later.
SignInCheck ==
    /\ member /\ ~signing /\ Tokens \ used # {}
    /\ signing' = TRUE
    /\ UNCHANGED <<member, alive, used, minting, slipped, records, req, faults, blind>>

\* Everything is revoked, or about to be without the membership being looked at again.
RevocationOverlaps ==
    \/ ~member
    \/ \E r \in Requests : req[r].at \in {"apiKeys", "disable"} /\ req[r].found /\ req[r].tokensDead

SignIn ==
    /\ signing
    /\ \E t \in Tokens \ used :
        /\ used' = used \cup {t} /\ alive' = alive \cup {t}
        /\ slipped' = IF RevocationOverlaps THEN slipped \cup {t} ELSE slipped
    /\ signing' = FALSE
    /\ UNCHANGED <<member, minting, records, req, faults, blind>>

\* POST /api-keys behind the write gate: a token carries its role, an API key is given the
\* creator's role of the moment, which is none without a membership.  The row is inserted later.
MayMint == alive \cap (IF member THEN Credentials ELSE Tokens) # {}

CreateApiKeyCheck ==
    /\ MayMint /\ ~minting /\ ApiKeys \ used # {}
    /\ minting' = TRUE
    /\ UNCHANGED <<member, alive, used, signing, slipped, records, req, faults, blind>>

CreateApiKey ==
    /\ minting
    /\ \E k \in ApiKeys \ used : used' = used \cup {k} /\ alive' = alive \cup {k}
    /\ minting' = FALSE
    /\ UNCHANGED <<member, signing, slipped, records, req, faults, blind>>

\* usermgmt RemoveUser: the membership goes first, the sessions after the commit.
RemoveUser(r) ==
    /\ Removals /\ req[r].at = "idle" /\ member
    /\ member' = FALSE
    /\ req' = [req EXCEPT ![r] = [Idle EXCEPT !.op = "remove", !.at = "removed"]]
    /\ UNCHANGED <<alive, used, signing, minting, slipped, records, faults, blind>>

\* RevokeAllSessions by its contract.
SessionsRevoked == alive' = alive \ Tokens /\ Succeeds
RevocationFails == alive' \in {alive, alive \ Tokens} /\ Fails

RemovedRevoke(r) ==
    /\ req[r].at = "removed"
    /\ \/ SessionsRevoked /\ blind' = blind
       \/ RevocationFails /\ blind' = TRUE
    /\ Finish(r)
    /\ UNCHANGED <<member, used, signing, minting, slipped, records>>

-----------------------------------------------------------------------------
(* Handlers of Vakt HR up to the gate.                                     *)

\* StartOffboarding, TriggerPersonioOffboarding: access stays as it is.
StartOffboarding ==
    /\ \E x \in Runs :
        /\ run[x].status = "absent"
        /\ run' = [run EXCEPT ![x].status = "in_progress"]
    /\ UNCHANGED <<person, attested, req, faults, blind>>

\* allRequiredCompleted
Complete(items) == Required \subseteq items

\* A step may be posted again as long as its run is open.
PostableOnce(x, s) == run[x].status = "in_progress" /\ s \notin run[x].items
Postable(x, s) == run[x].status = "in_progress"

\* CompleteStep: the run is read once; the handler works on its copy to the end.
CompleteStep(r, x, s) ==
    /\ req[r].at = "idle" /\ Postable(x, s)
    /\ LET items == run[x].items \cup {s} IN
        req' = [req EXCEPT ![r] =
                   IF Complete(items)
                   THEN [Idle EXCEPT !.at = "resolve", !.run = x, !.items = items,
                                     !.new = "completed", !.fires = TRUE, !.old = used]
                   ELSE [Idle EXCEPT !.at = "write", !.run = x, !.items = items, !.new = "in_progress"]]
    /\ UNCHANGED <<person, records, faults, blind>>

\* UpdateChecklistRun: the client sends the whole row; closing an open run takes the gate.
UpdateChecklistRun(r) ==
    /\ req[r].at = "idle"
    /\ \E x \in Runs, items \in Sent, new \in {"in_progress", "completed"} :
        /\ run[x].status # "absent"
        /\ LET closes == new = "completed" /\ run[x].status # "completed" IN
            req' = [req EXCEPT ![r] = [Idle EXCEPT
                       !.op = "put", !.at = IF closes THEN "resolve" ELSE "write", !.run = x, !.items = items,
                       !.new = new, !.fires = closes, !.old = IF closes THEN used ELSE {}]]
    /\ UNCHANGED <<person, records, faults, blind>>

\* UpdateEmployee to "terminated": the row is written, then access revoked, whatever comes of it.
UpdateEmployee(r) ==
    /\ req[r].at = "idle"
    /\ req' = [req EXCEPT ![r] = [Idle EXCEPT !.op = "terminate", !.at = "resolve"]]
    /\ UNCHANGED <<person, records, faults, blind>>

-----------------------------------------------------------------------------
(* The gate: guardCompletionForType, enforceOffboardingRevocation,         *)
(* revokeUserAccessChecked.                                                *)

\* What the gate found out ends with it.
LeaveGate(r, step) ==
    req' = [req EXCEPT ![r].at = step, ![r].found = FALSE, ![r].tokensDead = TRUE, ![r].failed = FALSE,
                       ![r].old = IF step = "tick" THEN {} ELSE @]

\* What a handler does when the gate has failed: a step keeps its tick, nothing else does.
GateFailed(r) == IF req[r].op = "step" THEN LeaveGate(r, "tick") ELSE Finish(r)

\* GetEmployee, then PlatformUserIDByEmail, which finds the account through the membership.
\* Without an account only RevokeUserSessions runs: it deletes refresh rows, and no token dies.
RefreshRowsStay(r) ==
    req' = [req EXCEPT ![r].failed = TRUE, ![r].tokensDead = FALSE, ![r].at = "apiKeys"]

Resolve(r) ==
    /\ req[r].at = "resolve"
    /\ \/ member /\ req' = [req EXCEPT ![r].found = TRUE, ![r].at = "revoke"] /\ Succeeds /\ blind' = blind
       \/ ~member /\ req' = [req EXCEPT ![r].at = "apiKeys"] /\ Succeeds /\ blind' = blind
       \/ RefreshRowsStay(r) /\ Fails /\ blind' = blind
       \/ req' = [req EXCEPT ![r].failed = TRUE, ![r].at = "apiKeys"] /\ Fails /\ blind' = TRUE
       \/ req[r].op # "terminate" /\ GateFailed(r) /\ Fails /\ blind' = blind
    /\ UNCHANGED <<person, records>>

RevokeTokens(r) ==
    /\ req[r].at = "revoke"
    /\ \/ SessionsRevoked /\ Goto(r, "apiKeys")
       \/ /\ RevocationFails
          /\ req' = [req EXCEPT ![r].at = "apiKeys", ![r].failed = TRUE, ![r].tokensDead = FALSE]
    /\ UNCHANGED <<member, used, signing, minting, slipped, records, blind>>

RevokeApiKeys(r) ==
    /\ req[r].at = "apiKeys"
    /\ \/ alive' = alive \ ApiKeys /\ Succeeds /\ Goto(r, "disable")
       \/ alive' = alive /\ Fails /\ req' = [req EXCEPT ![r].at = "disable", ![r].failed = TRUE]
    /\ UNCHANGED <<member, used, signing, minting, slipped, records, blind>>

\* The membership goes last, and only when the tokens are dead.
DisablesAnyway(r) == TRUE
Disables(r) == req[r].tokensDead

\* revokeUserAccessChecked returns every error, revokeUserAccess none.
LastErrorOnly(r, failed) == failed
Failed(r, failed) == req[r].failed \/ failed

\* Behind the gate, SetEmployeeStatus is the last call that can keep the run open.
AfterGate(r, failed) ==
    IF req[r].op = "terminate" THEN Finish(r)
    ELSE IF Failed(r, failed) THEN GateFailed(r)
    ELSE LeaveGate(r, "write")

DisableUser(r) ==
    /\ req[r].at = "disable"
    /\ \/ ~Disables(r) /\ member' = member /\ Succeeds /\ AfterGate(r, FALSE)
       \/ Disables(r) /\ member' = FALSE /\ Succeeds /\ AfterGate(r, FALSE)
       \/ Disables(r) /\ member' = FALSE /\ Fails /\ req[r].op # "terminate" /\ GateFailed(r)
       \/ Disables(r) /\ member' = member /\ Fails /\ AfterGate(r, TRUE)
    /\ UNCHANGED <<alive, used, signing, minting, slipped, records, blind>>

-----------------------------------------------------------------------------
(* The writes behind the gate.                                             *)

\* CompleteStep after a failed gate: the tick is kept, the run stays open.
TickStatusOpen(r) == "open"
TickStatusNew(r) == req[r].new
TickStatus(r) == "in_progress"

KeepTick(r) ==
    /\ req[r].at = "tick"
    /\ \/ run' = [run EXCEPT ![req[r].run] = [status |-> TickStatus(r), items |-> req[r].items]] /\ Succeeds
       \/ run' = run /\ Fails
    /\ Finish(r)
    /\ UNCHANGED <<person, attested, blind>>

\* UpdateChecklistRun of the repository; evidence fires on the transition only.
WriteRun(r) ==
    /\ req[r].at = "write"
    /\ \/ /\ run' = [run EXCEPT ![req[r].run] = [status |-> req[r].new, items |-> req[r].items]]
          /\ IF req[r].fires
             THEN req' = [req EXCEPT ![r] = [Idle EXCEPT !.at = "evidence", !.old = req[r].old]]
             ELSE Finish(r)
          /\ Succeeds
       \/ run' = run /\ Finish(r) /\ Fails
    /\ UNCHANGED <<person, attested, blind>>

\* fireCompletionEvidence: errors are only logged.
FireEvidence(r) ==
    /\ req[r].at = "evidence"
    /\ \/ attested' = attested \cup req[r].old /\ Succeeds
       \/ attested' = attested /\ Fails
    /\ Finish(r)
    /\ UNCHANGED <<person, run, blind>>

\* A request dies between two calls: its process stops, its client goes away.
Die(r) ==
    /\ req[r].at # "idle" /\ Fails
    /\ blind' = (blind \/ req[r].at = "removed")
    /\ Finish(r)
    /\ UNCHANGED <<person, records>>

Advance(r) ==
    \/ RemovedRevoke(r) \/ Resolve(r) \/ RevokeTokens(r)
    \/ RevokeApiKeys(r) \/ DisableUser(r) \/ KeepTick(r) \/ WriteRun(r) \/ FireEvidence(r)

Arrive(r) ==
    \/ UpdateChecklistRun(r) \/ UpdateEmployee(r) \/ RemoveUser(r)
    \/ \E x \in Runs, s \in Steps : CompleteStep(r, x, s)

Employee == SignInCheck \/ SignIn \/ CreateApiKeyCheck \/ CreateApiKey

Next == Employee \/ StartOffboarding \/ \E r \in Requests : Arrive(r) \/ Advance(r) \/ Die(r)

Spec == Init /\ [][Next]_vars

\* Handlers run to their end, and an admin who sees an open run posts its steps again.
Fairness ==
    /\ \A r \in Requests : WF_vars(Advance(r))
    /\ \A x \in Runs, s \in Required : SF_vars(\E r \in Requests : CompleteStep(r, x, s))

FairSpec == Spec /\ Fairness

-----------------------------------------------------------------------------
(* Properties.                                                             *)

\* What an evidence row says is true when it is written and stays true: every token and API
\* key handed out before its gate began is dead.  The exceptions: the account could not be
\* found because a read or a removal failed, a removal is about to revoke, or the token came
\* out of a login that overlapped an earlier revocation.
EvidenceIsTrue ==
    attested \cap alive \subseteq slipped \/ blind \/ \E r \in Requests : req[r].at = "removed"

\* The membership, the handle a retry needs, is gone only when the tokens it leads to are
\* dead, apart from the same overlapping login.
HandleKept ==
    ~member => alive \cap Tokens \subseteq slipped \/ blind \/ \E r \in Requests : req[r].at = "removed"

\* A run that is shown as completed belongs to somebody who is out of the organisation, in
\* every interleaving of the handlers that write runs from a copy.
ClosedMeansOut ==
    (\E x \in Runs : run[x].status = "completed") => ~member

\* enforceOffboardingRevocation: "A retry after a partial failure completes the rest": a run
\* whose required steps are all ticked is closed in the end, unless the ticks are overwritten.
RetryCompletes ==
    \A x \in Runs : run[x].status = "in_progress" /\ Complete(run[x].items)
                        ~> run[x].status = "completed" \/ ~Complete(run[x].items)

\* fireCompletionEvidence: "for an offboarding run the access revocation this evidence
\* attests to has already succeeded".
AttestedRevocationSucceeded == attested \cap alive = {}

=============================================================================
