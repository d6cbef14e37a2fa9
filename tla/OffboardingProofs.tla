------------------------- MODULE OffboardingProofs -------------------------
(* Proofs about Offboarding, for any number of credentials, runs, steps,   *)
(* requests and failures.  OffboardingInv is the inductive invariant: it   *)
(* says for every point of the gate what a handler that got there knows.   *)
EXTENDS Offboarding, TLAPS

-----------------------------------------------------------------------------
(* The inductive invariant.                                                *)

\* A revocation was missed, or is still to come.
Excused == blind \/ \E q \in Requests : req[q].at = "removed"

\* The tokens that are accepted came out of a sign-in that overlapped a revocation.
Explained == alive \cap Tokens \subseteq slipped \/ Excused

\* In the gate: a failure is remembered, and what the gate believes of the tokens is so.
InGate(r) ==
    /\ req[r].at \in Gate => req[r].tokensDead \/ req[r].failed
    /\ req[r].at = "revoke" => req[r].found
    /\ req[r].at \in {"apiKeys", "disable"} /\ req[r].tokensDead =>
         Explained /\ (req[r].found \/ ~member \/ blind)

\* Behind the revocation of the API keys: those handed out before the gate are dead.
OldKeysDead(r) ==
    req[r].at \in {"disable", "write", "evidence"} /\ ~req[r].failed =>
        req[r].old \cap ApiKeys \cap alive = {}

\* Behind the gate: so are the tokens, and a run about to be closed belongs to nobody.
BehindGate(r) ==
    /\ req[r].at \in {"write", "evidence"} =>
        ~req[r].failed /\ (req[r].old \cap Tokens \cap alive \subseteq slipped \/ Excused)
    /\ req[r].at = "write" /\ req[r].new = "completed" => ~member

Sound(r) == req[r].old \subseteq used /\ InGate(r) /\ OldKeysDead(r) /\ BehindGate(r)

\* What the rows say, tokens and API keys apart.
RowsTrue ==
    /\ attested \cap ApiKeys \cap alive = {}
    /\ attested \cap Tokens \cap alive \subseteq slipped \/ Excused
    /\ ~member => Explained
    /\ ClosedMeansOut

OffboardingInv == TypeOK /\ RowsTrue /\ \A r \in Requests : Sound(r)

\* It says what the two properties say.
LEMMA RowsTrueMeans == ASSUME TypeOK, RowsTrue PROVE EvidenceIsTrue /\ HandleKept
  BY DEF TypeOK, RowsTrue, EvidenceIsTrue, HandleKept, Explained, Excused, Credentials

-----------------------------------------------------------------------------
(* A step that brings no token back and takes no excuse away.              *)

Harmless ==
    /\ member' => member
    /\ used \subseteq used' /\ slipped \subseteq slipped'
    /\ alive' \cap (used \cup Tokens) \subseteq alive
    /\ blind => blind'
    /\ Excused => Excused' \/ alive' \cap Tokens = {}

\* Such a step leaves what the other handlers know as it is.
LEMMA OthersSound ==
    ASSUME TypeOK, Harmless, NEW q \in Requests, Sound(q), req'[q] = req[q]
    PROVE  Sound(q)'
  <1>1. Explained => Explained'  BY DEF Harmless, Explained
  <1>2. (req[q].old \subseteq used)'  BY DEF Sound, Harmless
  <1>3. InGate(q)'  BY <1>1 DEF Sound, InGate, Harmless
  <1>4. OldKeysDead(q)'  BY DEF Sound, OldKeysDead, Harmless
  <1>5. BehindGate(q)'  BY DEF Sound, BehindGate, Harmless
  <1>6. QED  BY <1>2, <1>3, <1>4, <1>5 DEF Sound

\* And what the rows say, as long as it writes none.
LEMMA RowsStayTrue ==
    ASSUME TypeOK, RowsTrue, Harmless, ~member' => Explained', attested' = attested, run' = run
    PROVE  RowsTrue'
  BY DEF TypeOK, RowsTrue, Harmless, ClosedMeansOut

\* One handler goes on; it need only look after itself.
LEMMA HandlerStep ==
    ASSUME OffboardingInv, TypeOK', Harmless, ~member' => Explained', attested' = attested, run' = run,
           NEW r \in Requests, \A q \in Requests \ {r} : req'[q] = req[q], Sound(r)'
    PROVE  OffboardingInv'
  <1>1. \A q \in Requests : Sound(q)'  BY OthersSound DEF OffboardingInv
  <1>2. RowsTrue'  BY RowsStayTrue DEF OffboardingInv
  <1>3. QED  BY <1>1, <1>2 DEF OffboardingInv

\* A handler that has finished knows nothing.
LEMMA IdleSound ==
    ASSUME NEW r \in Requests, req'[r] = Idle
    PROVE  Sound(r)'
  BY DEF Idle, Sound, InGate, OldKeysDead, BehindGate

\* The bound on failures is kept by whoever fails.
LEMMA FaultsCounted ==
    ASSUME faults \in 0..MaxFaults, Succeeds \/ Fails
    PROVE  faults' \in 0..MaxFaults
  BY OffboardingAssumption DEF Succeeds, Fails

\* Nothing asked is a request, too.
LEMMA IdleIsRequest == Idle \in Request
  BY DEF Idle, Request, RunStatus, Gate, Credentials

-----------------------------------------------------------------------------
(* The employee and user management keep the invariant.                    *)

\* No handler moves and no row is written.
LEMMA NobodyMoves ==
    ASSUME OffboardingInv, TypeOK', Harmless, ~member' => Explained', attested' = attested, run' = run,
           req' = req
    PROVE  OffboardingInv'
  <1>1. \A q \in Requests : Sound(q)'  BY OthersSound DEF OffboardingInv
  <1>2. RowsTrue'  BY RowsStayTrue DEF OffboardingInv
  <1>3. QED  BY <1>1, <1>2 DEF OffboardingInv

\* Login and CreateKey begin: nothing is handed out yet.
LEMMA ChecksKeep ==
    ASSUME OffboardingInv, SignInCheck \/ CreateApiKeyCheck
    PROVE  OffboardingInv'
  <1> USE DEF SignInCheck, CreateApiKeyCheck, records, OffboardingInv
  <1>1. TypeOK'  BY DEF TypeOK
  <1>2. Harmless  BY DEF Harmless, Excused
  <1>3. ~member' => Explained'  BY DEF RowsTrue, Explained, Excused
  <1>4. QED  BY <1>1, <1>2, <1>3, NobodyMoves

\* issueTokenPair: a token handed out behind a revocation is one of those that slipped.
LEMMA SignInKeeps ==
    ASSUME OffboardingInv, SignIn
    PROVE  OffboardingInv'
  <1> USE DEF SignIn, records, OffboardingInv
  <1>1. PICK t \in Tokens \ used :
          /\ used' = used \cup {t} /\ alive' = alive \cup {t}
          /\ slipped' = IF RevocationOverlaps THEN slipped \cup {t} ELSE slipped
    OBVIOUS
  <1>2. TypeOK'  BY <1>1 DEF TypeOK, Credentials
  <1>3. Excused' <=> Excused  BY DEF Excused
  <1>4. RevocationOverlaps /\ Explained => Explained'  BY <1>1, <1>3 DEF Explained
  <1>5. RowsTrue'
    BY <1>1, <1>3, <1>4, OffboardingAssumption
    DEF RowsTrue, ClosedMeansOut, RevocationOverlaps, TypeOK
  <1>6. ASSUME NEW q \in Requests PROVE Sound(q)'
    <2>1. (req[q].old \subseteq used)'  BY <1>1 DEF Sound
    <2>2. ASSUME req[q].at \in {"apiKeys", "disable"}, req[q].tokensDead PROVE Explained'
      <3>1. Explained  BY <2>2 DEF Sound, InGate
      <3>2. CASE RevocationOverlaps  BY <1>4, <3>1, <3>2
      <3>3. CASE ~RevocationOverlaps
        <4>1. ~req[q].found /\ member  BY <2>2, <3>3 DEF RevocationOverlaps, TypeOK, Request
        <4>2. blind  BY <2>2, <4>1 DEF Sound, InGate
        <4>3. QED  BY <4>2 DEF Explained, Excused
      <3>4. QED  BY <3>2, <3>3
    <2>3. InGate(q)'  BY <2>2 DEF Sound, InGate
    <2>4. OldKeysDead(q)'  BY <1>1, OffboardingAssumption DEF Sound, OldKeysDead
    <2>5. BehindGate(q)'  BY <1>1, <1>3 DEF Sound, BehindGate
    <2>6. QED  BY <2>1, <2>3, <2>4, <2>5 DEF Sound
  <1>7. QED  BY <1>2, <1>5, <1>6

\* Create: a key is new, and no token.
LEMMA CreateApiKeyKeeps ==
    ASSUME OffboardingInv, CreateApiKey
    PROVE  OffboardingInv'
  <1> USE DEF CreateApiKey, records, OffboardingInv
  <1>1. PICK k \in ApiKeys \ used : used' = used \cup {k} /\ alive' = alive \cup {k}
    OBVIOUS
  <1>2. TypeOK'  BY <1>1 DEF TypeOK, Credentials
  <1>3. Harmless  BY <1>1, OffboardingAssumption DEF Harmless, Excused
  <1>4. ~member' => Explained'  BY <1>1, OffboardingAssumption DEF RowsTrue, Explained, Excused
  <1>5. QED  BY <1>2, <1>3, <1>4, NobodyMoves

\* RemoveUser: until its revocation has run, it excuses what is still accepted.
LEMMA RemoveUserKeeps ==
    ASSUME OffboardingInv, NEW r \in Requests, RemoveUser(r)
    PROVE  OffboardingInv'
  <1> USE DEF RemoveUser, records, OffboardingInv
  <1>1. req'[r] = [Idle EXCEPT !.op = "remove", !.at = "removed"] /\ \A q \in Requests \ {r} : req'[q] = req[q]
    BY DEF TypeOK
  <1>2. req'[r].at = "removed" /\ req'[r].old = {}
    <2>1. /\ [Idle EXCEPT !.op = "remove", !.at = "removed"].at = "removed"
          /\ [Idle EXCEPT !.op = "remove", !.at = "removed"].old = {}
      BY DEF Idle
    <2>2. QED  BY <1>1, <2>1
  <1>3. TypeOK'
    <2>1. [Idle EXCEPT !.op = "remove", !.at = "removed"] \in Request  BY IdleIsRequest DEF Request
    <2>2. QED  BY <2>1 DEF TypeOK
  <1>4. Harmless  BY <1>2 DEF Harmless, Excused
  <1>5. Explained'  BY <1>2 DEF Explained, Excused
  <1>6. Sound(r)'  BY <1>2 DEF Sound, InGate, OldKeysDead, BehindGate, Gate
  <1>7. QED  BY <1>1, <1>3, <1>4, <1>5, <1>6, HandlerStep

\* RemoveUser behind its commit: the tokens die, or the failure is remembered.
LEMMA RemovedRevokeKeeps ==
    ASSUME OffboardingInv, NEW r \in Requests, RemovedRevoke(r)
    PROVE  OffboardingInv'
  <1> USE DEF RemovedRevoke, Finish, records, OffboardingInv, SessionsRevoked, RevocationFails
  <1>1. req'[r] = Idle /\ \A q \in Requests \ {r} : req'[q] = req[q]
    BY DEF TypeOK
  <1>2. TypeOK'
    <2>1. faults' \in 0..MaxFaults  BY FaultsCounted DEF TypeOK
    <2>2. req' \in [Requests -> Request]  BY IdleIsRequest DEF TypeOK
    <2>3. blind' \in BOOLEAN /\ alive' \subseteq alive  BY DEF TypeOK
    <2>4. QED  BY <2>1, <2>2, <2>3 DEF TypeOK
  <1>3. alive' \subseteq alive /\ (alive' \cap Tokens = {} \/ blind')  OBVIOUS
  <1>4. Harmless  BY <1>3 DEF Harmless, Excused, TypeOK
  <1>5. Explained'  BY <1>3 DEF Explained, Excused
  <1>6. QED  BY <1>1, <1>2, <1>4, <1>5, IdleSound, HandlerStep

-----------------------------------------------------------------------------
(* The handlers up to the gate keep the invariant.                         *)

\* What a request that is just beginning is like: nothing found out, nothing done.
Fresh(q) ==
    /\ q \in Request /\ q.at \in {"resolve", "write"}
    /\ ~q.failed /\ q.tokensDead /\ q.old \subseteq used
    /\ q.at = "write" => q.old = {} /\ (q.new = "completed" => ~member)

\* Such a request keeps the invariant.
LEMMA BeginKeeps ==
    ASSUME OffboardingInv, NEW r \in Requests, req[r].at = "idle", NEW q, Fresh(q),
           req' = [req EXCEPT ![r] = q],
           UNCHANGED <<person, records, faults, blind>>
    PROVE  OffboardingInv'
  <1> USE DEF person, records, OffboardingInv
  <1>1. req'[r] = q /\ \A p \in Requests \ {r} : req'[p] = req[p]  BY DEF TypeOK
  <1>2. TypeOK'  BY DEF TypeOK, Fresh
  <1>3. Harmless  BY <1>1 DEF Harmless, Excused
  <1>4. ~member' => Explained'  BY <1>1 DEF RowsTrue, Explained, Excused
  <1>5. Sound(r)'  BY <1>1 DEF Fresh, Sound, InGate, OldKeysDead, BehindGate
  <1>6. QED  BY <1>1, <1>2, <1>3, <1>4, <1>5, HandlerStep

\* CompleteStep
LEMMA CompleteStepKeeps ==
    ASSUME OffboardingInv, NEW r \in Requests, NEW x \in Runs, NEW s \in Steps, CompleteStep(r, x, s)
    PROVE  OffboardingInv'
  <1> DEFINE items == run[x].items \cup {s}
             gated == [Idle EXCEPT !.at = "resolve", !.run = x, !.items = items,
                                   !.new = "completed", !.fires = TRUE, !.old = used]
             ticked == [Idle EXCEPT !.at = "write", !.run = x, !.items = items, !.new = "in_progress"]
  <1>1. items \subseteq Steps  BY DEF OffboardingInv, TypeOK
  <1>2. Fresh(gated)  BY <1>1 DEF Fresh, Idle, Request, RunStatus, Gate, OffboardingInv, TypeOK
  <1>3. Fresh(ticked)  BY <1>1 DEF Fresh, Idle, Request, RunStatus, Gate
  <1>4. /\ req[r].at = "idle"
        /\ req' = [req EXCEPT ![r] = IF Complete(items) THEN gated ELSE ticked]
        /\ UNCHANGED <<person, records, faults, blind>>
    BY DEF CompleteStep
  <1> HIDE DEF gated, ticked
  <1>5. CASE Complete(items)  BY <1>2, <1>4, <1>5, BeginKeeps
  <1>6. CASE ~Complete(items)  BY <1>3, <1>4, <1>6, BeginKeeps
  <1>7. QED  BY <1>5, <1>6

\* UpdateChecklistRun: a run that is closed already belongs to nobody, so it may stay so.
LEMMA UpdateChecklistRunKeeps ==
    ASSUME OffboardingInv, NEW r \in Requests, UpdateChecklistRun(r)
    PROVE  OffboardingInv'
  <1> DEFINE closes(x, new) == new = "completed" /\ run[x].status # "completed"
             put(x, items, new) == [Idle EXCEPT
                 !.op = "put", !.at = IF closes(x, new) THEN "resolve" ELSE "write", !.run = x, !.items = items,
                 !.new = new, !.fires = closes(x, new), !.old = IF closes(x, new) THEN used ELSE {}]
  <1>1. /\ req[r].at = "idle"
        /\ \E x \in Runs, items \in Sent, new \in {"in_progress", "completed"} :
             run[x].status # "absent" /\ req' = [req EXCEPT ![r] = put(x, items, new)]
        /\ UNCHANGED <<person, records, faults, blind>>
    BY DEF UpdateChecklistRun
  <1>2. PICK x \in Runs, items \in Sent, new \in {"in_progress", "completed"} :
          req' = [req EXCEPT ![r] = put(x, items, new)]
    BY <1>1
  <1>3. items \subseteq Steps  BY OffboardingAssumption
  <1>4. Fresh(put(x, items, new))
    <2>1. CASE closes(x, new)
      BY <1>3, <2>1 DEF Fresh, Idle, Request, RunStatus, Gate, OffboardingInv, TypeOK
    <2>2. CASE ~closes(x, new)
      <3>1. new = "completed" => ~member  BY <2>2 DEF OffboardingInv, RowsTrue, ClosedMeansOut
      <3>2. QED  BY <1>3, <2>2, <3>1 DEF Fresh, Idle, Request, RunStatus, Gate
    <2>3. QED  BY <2>1, <2>2
  <1> HIDE DEF put
  <1>5. QED  BY <1>1, <1>2, <1>4, BeginKeeps

\* UpdateEmployee
LEMMA UpdateEmployeeKeeps ==
    ASSUME OffboardingInv, NEW r \in Requests, UpdateEmployee(r)
    PROVE  OffboardingInv'
  <1> DEFINE terminate == [Idle EXCEPT !.op = "terminate", !.at = "resolve"]
  <1>1. Fresh(terminate)  BY DEF Fresh, Idle, Request, RunStatus, Gate
  <1>2. /\ req[r].at = "idle" /\ req' = [req EXCEPT ![r] = terminate]
        /\ UNCHANGED <<person, records, faults, blind>>
    BY DEF UpdateEmployee
  <1> HIDE DEF terminate
  <1>3. QED  BY <1>1, <1>2, BeginKeeps

\* StartOffboarding: an open run says nothing.
LEMMA StartOffboardingKeeps ==
    ASSUME OffboardingInv, StartOffboarding
    PROVE  OffboardingInv'
  <1> USE DEF StartOffboarding, person, OffboardingInv
  <1>1. PICK x \in Runs : run' = [run EXCEPT ![x].status = "in_progress"]  OBVIOUS
  <1>2. TypeOK'  BY <1>1 DEF TypeOK, RunStatus
  <1>3. Harmless  BY DEF Harmless, Excused
  <1>4. \A q \in Requests : Sound(q)'  BY <1>2, <1>3, OthersSound
  <1>5. ClosedMeansOut'  BY <1>1 DEF TypeOK, RowsTrue, ClosedMeansOut
  <1>6. RowsTrue'  BY <1>5 DEF RowsTrue, Explained, Excused
  <1>7. QED  BY <1>2, <1>4, <1>6

-----------------------------------------------------------------------------
(* The gate keeps the invariant.                                           *)

\* One handler between two of its calls: person stays typed and no token comes back.
LEMMA GateStep ==
    ASSUME OffboardingInv, NEW r \in Requests, NEW q \in Request, req[r].at # "removed",
           req' = [req EXCEPT ![r] = q], Succeeds \/ Fails,
           alive' \subseteq alive, member' \in BOOLEAN, member' => member, blind' \in BOOLEAN, blind => blind',
           ~member' => Explained \/ blind',
           UNCHANGED <<used, signing, minting, slipped, records>>,
           Sound(r)'
    PROVE  OffboardingInv'
  <1> USE DEF records, OffboardingInv
  <1>1. req'[r] = q /\ \A p \in Requests \ {r} : req'[p] = req[p]  BY DEF TypeOK
  <1>2. TypeOK'
    <2>1. faults' \in 0..MaxFaults  BY FaultsCounted DEF TypeOK
    <2>2. req' \in [Requests -> Request]  BY DEF TypeOK
    <2>3. QED  BY <2>1, <2>2 DEF TypeOK
  <1>3. Harmless
    <2>1. Excused => Excused'  BY <1>1 DEF Excused
    <2>2. QED  BY <2>1 DEF Harmless
  <1>4. Explained => Explained'  BY <1>3 DEF Harmless, Explained
  <1>5. blind' => Explained'  BY DEF Explained, Excused
  <1>6. QED  BY <1>1, <1>2, <1>3, <1>4, <1>5, HandlerStep

\* A handler that gives up, or has done its work.
LEMMA FinishKeeps ==
    ASSUME OffboardingInv, NEW r \in Requests, req[r].at # "removed", Finish(r), Succeeds \/ Fails,
           alive' \subseteq alive, member' \in BOOLEAN, member' => member, blind' \in BOOLEAN, blind => blind',
           ~member' => Explained \/ blind',
           UNCHANGED <<used, signing, minting, slipped, records>>
    PROVE  OffboardingInv'
  <1>1. req' = [req EXCEPT ![r] = Idle]  BY DEF Finish
  <1>2. req'[r] = Idle  BY <1>1 DEF OffboardingInv, TypeOK
  <1>3. QED  BY <1>1, <1>2, IdleIsRequest, IdleSound, GateStep

\* A gate that has failed hands a step over to its tick, with nothing it may claim.
LEMMA GateFailedKeeps ==
    ASSUME OffboardingInv, NEW r \in Requests, req[r].at # "removed", GateFailed(r), Succeeds \/ Fails,
           alive' \subseteq alive, member' \in BOOLEAN, member' => member, blind' \in BOOLEAN, blind => blind',
           ~member' => Explained \/ blind',
           UNCHANGED <<used, signing, minting, slipped, records>>
    PROVE  OffboardingInv'
  <1>1. CASE req[r].op = "step"
    <2> DEFINE q == [req[r] EXCEPT !.at = "tick", !.found = FALSE, !.tokensDead = TRUE, !.failed = FALSE,
                                   !.old = {}]
    <2>1. req' = [req EXCEPT ![r] = q]
      BY <1>1 DEF GateFailed, LeaveGate, OffboardingInv, TypeOK, Request
    <2>2. q \in Request /\ q.at = "tick" /\ q.old = {}  BY DEF OffboardingInv, TypeOK, Request
    <2> HIDE DEF q
    <2>3. req'[r] = q  BY <2>1 DEF OffboardingInv, TypeOK
    <2>4. Sound(r)'  BY <2>2, <2>3 DEF Sound, InGate, OldKeysDead, BehindGate, Gate
    <2>5. QED  BY <2>1, <2>2, <2>4, GateStep
  <1>2. CASE req[r].op # "step"  BY <1>2, FinishKeeps DEF GateFailed
  <1>3. QED  BY <1>1, <1>2

\* PlatformUserIDByEmail: without an account the member has left before, or nobody knows.
LEMMA ResolveKeeps ==
    ASSUME OffboardingInv, NEW r \in Requests, Resolve(r)
    PROVE  OffboardingInv'
  <1>1. req[r].at = "resolve" /\ req[r] \in Request /\ req[r].old \subseteq used
    BY DEF Resolve, OffboardingInv, TypeOK, Sound
  <1>2. /\ UNCHANGED <<member, alive, used, signing, minting, slipped, records>>
        /\ member \in BOOLEAN /\ blind \in BOOLEAN
    BY DEF Resolve, person, OffboardingInv, TypeOK
  <1>3. ~member => Explained  BY DEF OffboardingInv, RowsTrue
  <1> DEFINE resolved(q) ==
               /\ q \in Request /\ q.old = req[r].old /\ (q.tokensDead \/ q.failed)
               /\ q.at = "revoke" => q.found
               /\ q.at \in {"revoke", "apiKeys"}
               /\ q.at = "apiKeys" /\ q.tokensDead => ~member \/ blind'
  <1>4. ASSUME NEW q, resolved(q), req' = [req EXCEPT ![r] = q], Succeeds \/ Fails,
               blind' \in BOOLEAN, blind => blind'
        PROVE  OffboardingInv'
    <2>1. req'[r] = q  BY <1>4 DEF OffboardingInv, TypeOK
    <2>2. Explained => Explained'
      <3>1. Excused => Excused'  BY <1>1, <1>4 DEF Excused, OffboardingInv, TypeOK
      <3>2. QED  BY <1>2, <3>1 DEF Explained
    <2>3. blind' => Explained'  BY DEF Explained, Excused
    <2>4. InGate(r)'  BY <1>2, <1>3, <1>4, <2>1, <2>2, <2>3 DEF InGate
    <2>5. Sound(r)'  BY <1>1, <1>2, <1>4, <2>1, <2>4 DEF Sound, OldKeysDead, BehindGate
    <2>6. QED  BY <1>1, <1>2, <1>3, <1>4, <2>5, GateStep
  <1>5. req[r].tokensDead \/ req[r].failed
    BY <1>1 DEF Request, Gate, OffboardingInv, Sound, InGate
  <1>6. CASE member /\ req' = [req EXCEPT ![r].found = TRUE, ![r].at = "revoke"] /\ Succeeds /\ blind' = blind
    <2> DEFINE q == [req[r] EXCEPT !.found = TRUE, !.at = "revoke"]
    <2>1. req' = [req EXCEPT ![r] = q]  BY <1>6 DEF OffboardingInv, TypeOK
    <2>2. resolved(q)  BY <1>1, <1>5 DEF Request, Gate
    <2> HIDE DEF q, resolved
    <2>3. QED  BY <1>2, <1>4, <1>6, <2>1, <2>2
  <1>7. CASE ~member /\ req' = [req EXCEPT ![r].at = "apiKeys"] /\ Succeeds /\ blind' = blind
    <2> DEFINE q == [req[r] EXCEPT !.at = "apiKeys"]
    <2>1. req' = [req EXCEPT ![r] = q]  BY <1>7 DEF OffboardingInv, TypeOK
    <2>2. resolved(q)  BY <1>1, <1>5, <1>7 DEF Request, Gate
    <2> HIDE DEF q, resolved
    <2>3. QED  BY <1>2, <1>4, <1>7, <2>1, <2>2
  <1>8. CASE RefreshRowsStay(r) /\ Fails /\ blind' = blind
    <2> DEFINE q == [req[r] EXCEPT !.failed = TRUE, !.tokensDead = FALSE, !.at = "apiKeys"]
    <2>1. req' = [req EXCEPT ![r] = q]  BY <1>8 DEF RefreshRowsStay, OffboardingInv, TypeOK
    <2>2. resolved(q)  BY <1>1 DEF Request, Gate
    <2> HIDE DEF q, resolved
    <2>3. QED  BY <1>2, <1>4, <1>8, <2>1, <2>2
  <1>9. CASE req' = [req EXCEPT ![r].failed = TRUE, ![r].at = "apiKeys"] /\ Fails /\ blind' = TRUE
    <2> DEFINE q == [req[r] EXCEPT !.failed = TRUE, !.at = "apiKeys"]
    <2>1. req' = [req EXCEPT ![r] = q]  BY <1>9 DEF OffboardingInv, TypeOK
    <2>2. resolved(q)  BY <1>1, <1>9 DEF Request, Gate
    <2> HIDE DEF q, resolved
    <2>3. QED  BY <1>4, <1>9, <2>1, <2>2
  <1>10. CASE req[r].op # "terminate" /\ GateFailed(r) /\ Fails /\ blind' = blind
    BY <1>1, <1>2, <1>3, <1>10, GateFailedKeeps DEF OffboardingInv, TypeOK
  <1>11. QED  BY <1>6, <1>7, <1>8, <1>9, <1>10 DEF Resolve

\* RevokeAllSessions: nil means that no token is accepted.
LEMMA RevokeTokensKeeps ==
    ASSUME OffboardingInv, NEW r \in Requests, RevokeTokens(r)
    PROVE  OffboardingInv'
  <1>1. /\ req[r].at = "revoke" /\ req[r] \in Request /\ req[r].old \subseteq used
        /\ req[r].found /\ (req[r].tokensDead \/ req[r].failed)
    BY DEF RevokeTokens, OffboardingInv, TypeOK, Sound, InGate, Gate
  <1>2. /\ UNCHANGED <<member, used, signing, minting, slipped, records, blind>>
        /\ member \in BOOLEAN /\ blind \in BOOLEAN
    BY DEF RevokeTokens, OffboardingInv, TypeOK
  <1>3. ~member => Explained  BY DEF OffboardingInv, RowsTrue
  <1>4. CASE SessionsRevoked /\ Goto(r, "apiKeys")
    <2> DEFINE q == [req[r] EXCEPT !.at = "apiKeys"]
    <2>1. req' = [req EXCEPT ![r] = q]  BY <1>4 DEF Goto, OffboardingInv, TypeOK
    <2>2. /\ q \in Request /\ q.at = "apiKeys" /\ q.old = req[r].old /\ q.found
          /\ q.tokensDead \/ q.failed
      BY <1>1 DEF Request, Gate
    <2> HIDE DEF q
    <2>3. req'[r] = q  BY <2>1 DEF OffboardingInv, TypeOK
    <2>4. alive' \cap Tokens = {} /\ alive' \subseteq alive /\ Succeeds  BY <1>4 DEF SessionsRevoked
    <2>5. Sound(r)'
      BY <1>1, <1>2, <2>2, <2>3, <2>4 DEF Sound, InGate, OldKeysDead, BehindGate, Explained
    <2>6. QED  BY <1>1, <1>2, <1>3, <2>1, <2>2, <2>4, <2>5, GateStep
  <1>5. CASE RevocationFails
             /\ req' = [req EXCEPT ![r].at = "apiKeys", ![r].failed = TRUE, ![r].tokensDead = FALSE]
    <2> DEFINE q == [req[r] EXCEPT !.at = "apiKeys", !.failed = TRUE, !.tokensDead = FALSE]
    <2>1. req' = [req EXCEPT ![r] = q]  BY <1>5 DEF OffboardingInv, TypeOK
    <2>2. q \in Request /\ q.at = "apiKeys" /\ q.old = req[r].old /\ q.failed /\ ~q.tokensDead
      BY <1>1 DEF Request, Gate
    <2> HIDE DEF q
    <2>3. req'[r] = q  BY <2>1 DEF OffboardingInv, TypeOK
    <2>4. alive' \subseteq alive /\ Fails  BY <1>5 DEF RevocationFails
    <2>5. Sound(r)'
      BY <1>1, <1>2, <2>2, <2>3 DEF Sound, InGate, OldKeysDead, BehindGate
    <2>6. QED  BY <1>1, <1>2, <1>3, <2>1, <2>2, <2>4, <2>5, GateStep
  <1>6. QED  BY <1>4, <1>5 DEF RevokeTokens

\* RevokeAllByUser: the keys handed out before the gate are dead, or the failure is remembered.
LEMMA RevokeApiKeysKeeps ==
    ASSUME OffboardingInv, NEW r \in Requests, RevokeApiKeys(r)
    PROVE  OffboardingInv'
  <1>1. /\ req[r].at = "apiKeys" /\ req[r] \in Request /\ req[r].old \subseteq used
        /\ InGate(r) /\ (req[r].tokensDead \/ req[r].failed)
    BY DEF RevokeApiKeys, OffboardingInv, TypeOK, Sound, InGate, Gate
  <1>2. /\ UNCHANGED <<member, used, signing, minting, slipped, records, blind>>
        /\ member \in BOOLEAN /\ blind \in BOOLEAN
    BY DEF RevokeApiKeys, OffboardingInv, TypeOK
  <1>3. ~member => Explained  BY DEF OffboardingInv, RowsTrue
  <1> DEFINE moved(failed) == [req[r] EXCEPT !.at = "disable", !.failed = failed]
  <1>4. ASSUME NEW failed \in BOOLEAN, req' = [req EXCEPT ![r] = moved(failed)], Succeeds \/ Fails,
               req[r].failed => failed,
               alive' \subseteq alive, failed \/ alive' \cap ApiKeys = {}
        PROVE  OffboardingInv'
    <2> DEFINE q == moved(failed)
    <2>1. /\ q \in Request /\ q.at = "disable" /\ q.old = req[r].old /\ q.failed = failed
          /\ q.found = req[r].found /\ q.tokensDead = req[r].tokensDead
      BY <1>1 DEF Request, Gate
    <2>2. req' = [req EXCEPT ![r] = q]  BY <1>4
    <2> HIDE DEF q, moved
    <2>3. req'[r] = q  BY <2>2 DEF OffboardingInv, TypeOK
    <2>4. Explained => Explained'
      <3>1. Excused => Excused'  BY <1>1, <1>2, <2>2 DEF Excused, OffboardingInv, TypeOK
      <3>2. QED  BY <1>2, <1>4, <3>1 DEF Explained
    <2>5. InGate(r)'  BY <1>1, <1>2, <1>4, <2>1, <2>3, <2>4 DEF InGate, Gate
    <2>6. OldKeysDead(r)'  BY <1>4, <2>1, <2>3 DEF OldKeysDead
    <2>7. Sound(r)'  BY <1>1, <1>2, <2>1, <2>3, <2>5, <2>6 DEF Sound, BehindGate
    <2>8. QED  BY <1>1, <1>2, <1>3, <1>4, <2>1, <2>2, <2>7, GateStep
  <1>5. req[r].failed \in BOOLEAN  BY <1>1 DEF Request
  <1>6. CASE alive' = alive \ ApiKeys /\ Succeeds /\ Goto(r, "disable")
    <2>1. req' = [req EXCEPT ![r] = moved(req[r].failed)]
      BY <1>1, <1>6 DEF Goto, OffboardingInv, TypeOK, Request
    <2> HIDE DEF moved
    <2>2. QED  BY <1>4, <1>5, <1>6, <2>1
  <1>7. CASE alive' = alive /\ Fails /\ req' = [req EXCEPT ![r].at = "disable", ![r].failed = TRUE]
    <2>1. req' = [req EXCEPT ![r] = moved(TRUE)]  BY <1>7 DEF OffboardingInv, TypeOK
    <2> HIDE DEF moved
    <2>2. QED  BY <1>4, <1>7, <2>1
  <1>8. QED  BY <1>6, <1>7 DEF RevokeApiKeys

\* Out of the gate with nothing failed: the membership is gone and the credentials are dead.
LEMMA LeftGateKeeps ==
    ASSUME OffboardingInv, NEW r \in Requests, req[r].at = "disable", ~req[r].failed, req[r].tokensDead,
           LeaveGate(r, "write"), Succeeds, member' = FALSE,
           UNCHANGED <<alive, used, signing, minting, slipped, records, blind>>
    PROVE  OffboardingInv'
  <1> DEFINE q == [req[r] EXCEPT !.at = "write", !.found = FALSE, !.tokensDead = TRUE, !.failed = FALSE]
  <1>1. req' = [req EXCEPT ![r] = q]  BY DEF LeaveGate, OffboardingInv, TypeOK, Request
  <1>2. q \in Request /\ q.at = "write" /\ q.old = req[r].old /\ ~q.failed
    BY DEF OffboardingInv, TypeOK, Request
  <1> HIDE DEF q
  <1>3. req'[r] = q  BY <1>1 DEF OffboardingInv, TypeOK
  <1>4. Explained  BY DEF OffboardingInv, Sound, InGate
  <1>5. Excused => Excused'  BY <1>1 DEF Excused, OffboardingInv, TypeOK
  <1>6. BehindGate(r)'  BY <1>2, <1>3, <1>4, <1>5 DEF BehindGate, Explained
  <1>7. OldKeysDead(r)'  BY <1>2, <1>3 DEF OffboardingInv, Sound, OldKeysDead
  <1>8. InGate(r)'  BY <1>2, <1>3 DEF InGate, Gate
  <1>9. Sound(r)'  BY <1>2, <1>3, <1>6, <1>7, <1>8 DEF OffboardingInv, Sound
  <1>10. blind \in BOOLEAN  BY DEF OffboardingInv, TypeOK
  <1>11. QED  BY <1>1, <1>2, <1>4, <1>9, <1>10, GateStep

\* DisableUser: only behind dead tokens, and only a gate without a failure lets the run close.
LEMMA DisableUserKeeps ==
    ASSUME OffboardingInv, NEW r \in Requests, DisableUser(r)
    PROVE  OffboardingInv'
  <1>1. /\ req[r].at = "disable" /\ req[r] \in Request
        /\ req[r].tokensDead => Explained
        /\ req[r].tokensDead \/ req[r].failed
    BY DEF DisableUser, OffboardingInv, TypeOK, Sound, InGate, Gate
  <1>2. /\ UNCHANGED <<alive, used, signing, minting, slipped, records, blind>>
        /\ member \in BOOLEAN /\ blind \in BOOLEAN /\ req[r].failed \in BOOLEAN
    BY <1>1 DEF DisableUser, OffboardingInv, TypeOK, Request
  <1>3. ~member => Explained  BY DEF OffboardingInv, RowsTrue
  <1>4. CASE ~Disables(r) /\ member' = member /\ Succeeds /\ AfterGate(r, FALSE)
    <2>1. req[r].failed  BY <1>1, <1>4 DEF Disables
    <2>2. Finish(r) \/ GateFailed(r)  BY <1>4, <2>1 DEF AfterGate, Failed
    <2>3. QED  BY <1>1, <1>2, <1>3, <1>4, <2>2, FinishKeeps, GateFailedKeeps
  <1>5. CASE Disables(r) /\ member' = FALSE /\ Succeeds /\ AfterGate(r, FALSE)
    <2>1. req[r].tokensDead /\ Explained  BY <1>1, <1>5 DEF Disables
    <2>2. CASE req[r].failed \/ req[r].op = "terminate"
      <3>1. Finish(r) \/ GateFailed(r)  BY <1>5, <2>2 DEF AfterGate, Failed
      <3>2. QED  BY <1>1, <1>2, <1>5, <2>1, <3>1, FinishKeeps, GateFailedKeeps
    <2>3. CASE ~(req[r].failed \/ req[r].op = "terminate")
      <3>1. LeaveGate(r, "write")  BY <1>5, <2>3 DEF AfterGate, Failed
      <3>2. QED  BY <1>1, <1>2, <1>5, <2>1, <2>3, <3>1, LeftGateKeeps
    <2>4. QED  BY <2>2, <2>3
  <1>6. CASE Disables(r) /\ member' = FALSE /\ Fails /\ req[r].op # "terminate" /\ GateFailed(r)
    BY <1>1, <1>2, <1>6, GateFailedKeeps DEF Disables
  <1>7. CASE Disables(r) /\ member' = member /\ Fails /\ AfterGate(r, TRUE)
    <2>1. Finish(r) \/ GateFailed(r)  BY <1>7 DEF AfterGate, Failed
    <2>2. QED  BY <1>1, <1>2, <1>3, <1>7, <2>1, FinishKeeps, GateFailedKeeps
  <1>8. QED  BY <1>4, <1>5, <1>6, <1>7 DEF DisableUser

-----------------------------------------------------------------------------
(* The writes behind the gate keep the invariant.                          *)

\* A handler writes a row; who is in and what is accepted stays as it is.
LEMMA RowWritten ==
    ASSUME OffboardingInv, NEW r \in Requests, NEW q \in Request, req[r].at # "removed",
           req' = [req EXCEPT ![r] = q], Succeeds \/ Fails, UNCHANGED <<person, blind>>,
           run' \in [Runs -> [status: RunStatus, items: SUBSET Steps]], ClosedMeansOut',
           attested' \in {attested, attested \cup req[r].old},
           req[r].old \cap ApiKeys \cap alive = {},
           req[r].old \cap Tokens \cap alive \subseteq slipped \/ Excused,
           Sound(r)'
    PROVE  OffboardingInv'
  <1> USE DEF person, OffboardingInv
  <1>1. req'[r] = q /\ \A p \in Requests \ {r} : req'[p] = req[p]  BY DEF TypeOK
  <1>2. TypeOK'
    <2>1. faults' \in 0..MaxFaults  BY FaultsCounted DEF TypeOK
    <2>2. req' \in [Requests -> Request]  BY DEF TypeOK
    <2>3. attested' \subseteq used  BY DEF TypeOK, Sound
    <2>4. QED  BY <2>1, <2>2, <2>3 DEF TypeOK
  <1>3. Excused => Excused'  BY <1>1 DEF Excused
  <1>4. Harmless  BY <1>3 DEF Harmless
  <1>5. \A p \in Requests : Sound(p)'  BY <1>1, <1>4, OthersSound
  <1>6. RowsTrue'  BY <1>3 DEF RowsTrue, Explained
  <1>7. QED  BY <1>2, <1>5, <1>6

\* CompleteStep after a failed gate: the run stays open.
LEMMA KeepTickKeeps ==
    ASSUME OffboardingInv, NEW r \in Requests, KeepTick(r)
    PROVE  OffboardingInv'
  <1>1. /\ req[r].at = "tick" /\ Finish(r) /\ UNCHANGED <<person, attested, blind>>
        /\ req[r] \in Request
        /\ Succeeds \/ Fails
        /\ \/ run' = [run EXCEPT ![req[r].run] = [status |-> "in_progress", items |-> req[r].items]]
           \/ run' = run
    BY DEF KeepTick, TickStatus, OffboardingInv, TypeOK
  <1>2. run' \in [Runs -> [status: RunStatus, items: SUBSET Steps]]
    BY <1>1 DEF Request, RunStatus, OffboardingInv, TypeOK
  <1>3. ClosedMeansOut'
    BY <1>1 DEF OffboardingInv, TypeOK, RowsTrue, ClosedMeansOut, person
  <1>4. /\ TypeOK /\ RowsTrue /\ UNCHANGED person
        /\ req' = [req EXCEPT ![r] = Idle] /\ req'[r] = Idle
    BY <1>1 DEF Finish, OffboardingInv, TypeOK
  <1>5. TypeOK'
    <2>1. faults' \in 0..MaxFaults  BY <1>1, <1>4, FaultsCounted DEF TypeOK
    <2>2. req' \in [Requests -> Request]  BY <1>4, IdleIsRequest DEF TypeOK
    <2>3. QED  BY <1>1, <1>2, <2>1, <2>2 DEF OffboardingInv, TypeOK, person
  <1>6. Excused => Excused'  BY <1>1, <1>4 DEF Excused, TypeOK
  <1>7. Harmless  BY <1>1, <1>6 DEF Harmless, person
  <1>8. RowsTrue'  BY <1>1, <1>3, <1>4, <1>6 DEF RowsTrue, Explained, person
  <1>9. \A q \in Requests \ {r} : Sound(q)'
    BY <1>4, <1>7, OthersSound DEF OffboardingInv, TypeOK
  <1>10. Sound(r)'  BY <1>4, IdleSound
  <1>11. QED  BY <1>5, <1>8, <1>9, <1>10 DEF OffboardingInv

\* UpdateChecklistRun of the repository: a run that is written as completed belongs to nobody.
LEMMA WriteRunKeeps ==
    ASSUME OffboardingInv, NEW r \in Requests, WriteRun(r)
    PROVE  OffboardingInv'
  <1>1. /\ req[r].at = "write" /\ UNCHANGED <<person, attested, blind>>
        /\ req[r] \in Request /\ req[r].old \subseteq used
        /\ ~req[r].failed /\ (req[r].old \cap Tokens \cap alive \subseteq slipped \/ Excused)
        /\ req[r].old \cap ApiKeys \cap alive = {}
        /\ req[r].new = "completed" => ~member
    BY DEF WriteRun, OffboardingInv, TypeOK, Sound, OldKeysDead, BehindGate
  <1>2. CASE run' = run /\ Finish(r) /\ Fails
    <2>1. UNCHANGED <<alive, member, used, signing, minting, slipped, records>>
      BY <1>1, <1>2 DEF person, records
    <2>2. member \in BOOLEAN /\ blind \in BOOLEAN /\ (~member => Explained)
      BY DEF OffboardingInv, TypeOK, RowsTrue
    <2>3. QED  BY <1>1, <1>2, <2>1, <2>2, FinishKeeps
  <1>3. CASE /\ run' = [run EXCEPT ![req[r].run] = [status |-> req[r].new, items |-> req[r].items]]
             /\ IF req[r].fires
                THEN req' = [req EXCEPT ![r] = [Idle EXCEPT !.at = "evidence", !.old = req[r].old]]
                ELSE Finish(r)
             /\ Succeeds
    <2>1. run' \in [Runs -> [status: RunStatus, items: SUBSET Steps]]
      BY <1>1, <1>3 DEF Request, OffboardingInv, TypeOK
    <2>2. ClosedMeansOut'
      BY <1>1, <1>3 DEF OffboardingInv, TypeOK, RowsTrue, ClosedMeansOut, person
    <2>3. CASE req[r].fires
      <3> DEFINE q == [Idle EXCEPT !.at = "evidence", !.old = req[r].old]
      <3>1. q \in Request  BY <1>1 DEF Idle, Request, RunStatus, Gate
      <3>2. q.at = "evidence" /\ q.old = req[r].old /\ ~q.failed  BY DEF Idle
      <3>3. req' = [req EXCEPT ![r] = q]  BY <1>3, <2>3
      <3> HIDE DEF q
      <3>4. req'[r] = q  BY <3>3 DEF OffboardingInv, TypeOK
      <3>5. Excused => Excused'  BY <1>1, <3>3 DEF Excused, OffboardingInv, TypeOK
      <3>6. Sound(r)'
        BY <1>1, <3>2, <3>4, <3>5 DEF Sound, InGate, Gate, OldKeysDead, BehindGate, person
      <3>7. QED  BY <1>1, <1>3, <2>1, <2>2, <3>1, <3>3, <3>6, RowWritten
    <2>4. CASE ~req[r].fires
      <3>1. req' = [req EXCEPT ![r] = Idle] /\ req'[r] = Idle
        BY <1>3, <2>4 DEF Finish, OffboardingInv, TypeOK
      <3>2. QED  BY <1>1, <1>3, <2>1, <2>2, <3>1, IdleIsRequest, IdleSound, RowWritten
    <2>5. QED  BY <2>3, <2>4
  <1>4. QED  BY <1>2, <1>3 DEF WriteRun

\* fireCompletionEvidence: what the gate killed is dead when the row is written.
LEMMA FireEvidenceKeeps ==
    ASSUME OffboardingInv, NEW r \in Requests, FireEvidence(r)
    PROVE  OffboardingInv'
  <1>1. /\ req[r].at = "evidence" /\ UNCHANGED <<person, run, blind>>
        /\ req[r].old \cap Tokens \cap alive \subseteq slipped \/ Excused
        /\ req[r].old \cap ApiKeys \cap alive = {}
        /\ attested' \in {attested, attested \cup req[r].old}
        /\ Succeeds \/ Fails
    BY DEF FireEvidence, OffboardingInv, Sound, OldKeysDead, BehindGate
  <1>2. req' = [req EXCEPT ![r] = Idle] /\ req'[r] = Idle
    BY DEF FireEvidence, Finish, OffboardingInv, TypeOK
  <1>3. run' \in [Runs -> [status: RunStatus, items: SUBSET Steps]]
    BY <1>1 DEF OffboardingInv, TypeOK
  <1>4. ClosedMeansOut'  BY <1>1 DEF OffboardingInv, RowsTrue, ClosedMeansOut, person
  <1>5. QED  BY <1>1, <1>2, <1>3, <1>4, IdleIsRequest, IdleSound, RowWritten

\* A request that dies before its revocation is remembered.
LEMMA DieKeeps ==
    ASSUME OffboardingInv, NEW r \in Requests, Die(r)
    PROVE  OffboardingInv'
  <1> USE DEF Die, person, records, OffboardingInv
  <1>1. req' = [req EXCEPT ![r] = Idle] /\ req'[r] = Idle /\ \A q \in Requests \ {r} : req'[q] = req[q]
    BY DEF Finish, TypeOK
  <1>2. TypeOK'
    <2>1. faults' \in 0..MaxFaults  BY FaultsCounted DEF TypeOK
    <2>2. req' \in [Requests -> Request]  BY <1>1, IdleIsRequest DEF TypeOK
    <2>3. blind' \in BOOLEAN  BY DEF TypeOK
    <2>4. QED  BY <2>1, <2>2, <2>3 DEF TypeOK
  <1>3. Excused => Excused'  BY <1>1 DEF Excused
  <1>4. (blind => blind') /\ member \in BOOLEAN  BY DEF TypeOK
  <1>5. Harmless  BY <1>3, <1>4 DEF Harmless
  <1>6. ~member' => Explained'  BY <1>3 DEF RowsTrue, Explained
  <1>7. QED  BY <1>1, <1>2, <1>5, <1>6, IdleSound, HandlerStep

-----------------------------------------------------------------------------
(* The theorems.                                                           *)

\* A member, nothing handed out, nothing written.
LEMMA OffboardingInit == ASSUME Init PROVE OffboardingInv
  <1> USE DEF Init
  <1>1. TypeOK
    <2>1. faults \in 0..MaxFaults  BY OffboardingAssumption
    <2>2. run \in [Runs -> [status: RunStatus, items: SUBSET Steps]]  BY DEF RunStatus
    <2>3. req \in [Requests -> Request]  BY IdleIsRequest
    <2>4. {member, signing, minting, blind} \subseteq BOOLEAN  OBVIOUS
    <2>5. QED  BY <2>1, <2>2, <2>3, <2>4 DEF TypeOK
  <1>2. \A r \in Requests : Sound(r)
    BY DEF Idle, Sound, InGate, Gate, OldKeysDead, BehindGate
  <1>3. RowsTrue  BY DEF RowsTrue, ClosedMeansOut
  <1>4. QED  BY <1>1, <1>2, <1>3 DEF OffboardingInv

\* No step of the employee, of user management or of a handler breaks the invariant.
LEMMA OffboardingStep == ASSUME OffboardingInv, [Next]_vars PROVE OffboardingInv'
  <1>1. CASE UNCHANGED vars
    BY <1>1 DEF vars, person, records, OffboardingInv, TypeOK, RowsTrue, ClosedMeansOut, Explained, Excused,
                Sound, InGate, OldKeysDead, BehindGate
  <1>2. CASE Employee
    BY <1>2, ChecksKeep, SignInKeeps, CreateApiKeyKeeps DEF Employee
  <1>3. CASE StartOffboarding
    BY <1>3, StartOffboardingKeeps
  <1>4. ASSUME NEW r \in Requests, Arrive(r) PROVE OffboardingInv'
    BY <1>4, UpdateChecklistRunKeeps, UpdateEmployeeKeeps, RemoveUserKeeps, CompleteStepKeeps DEF Arrive
  <1>5. ASSUME NEW r \in Requests, Advance(r) PROVE OffboardingInv'
    BY <1>5, RemovedRevokeKeeps, ResolveKeeps, RevokeTokensKeeps, RevokeApiKeysKeeps, DisableUserKeeps,
       KeepTickKeeps, WriteRunKeeps, FireEvidenceKeeps DEF Advance
  <1>6. ASSUME NEW r \in Requests, Die(r) PROVE OffboardingInv'
    BY <1>6, DieKeeps
  <1>7. QED  BY <1>1, <1>2, <1>3, <1>4, <1>5, <1>6 DEF Next

\* Hence it holds throughout.
LEMMA OffboardingInvHolds == Spec => []OffboardingInv
  <1>1. Init => OffboardingInv  BY OffboardingInit
  <1>2. OffboardingInv /\ [Next]_vars => OffboardingInv'  BY OffboardingStep
  <1>3. QED  BY <1>1, <1>2, PTL DEF Spec

\* Every reachable state is well typed, whatever the requests and their failures.
THEOREM OffboardingTypeCorrect == Spec => []TypeOK
  <1>1. OffboardingInv => TypeOK  BY DEF OffboardingInv
  <1>2. QED  BY OffboardingInvHolds, <1>1, PTL

\* fireCompletionEvidence: for any number of runs, requests and credentials an evidence row is
\* true when it is written and stays so, up to the exceptions EvidenceIsTrue names.
THEOREM EvidenceStaysTrue == Spec => []EvidenceIsTrue
  <1>1. OffboardingInv => EvidenceIsTrue  BY RowsTrueMeans DEF OffboardingInv
  <1>2. QED  BY OffboardingInvHolds, <1>1, PTL

\* revokeUserAccessChecked: the membership is removed only behind dead tokens, so that a retry
\* still finds the account while there is something left to revoke.
THEOREM TheHandleIsKept == Spec => []HandleKept
  <1>1. OffboardingInv => HandleKept  BY RowsTrueMeans DEF OffboardingInv
  <1>2. QED  BY OffboardingInvHolds, <1>1, PTL

\* guardCompletionForType: whichever handlers write runs from their copies, a completed run
\* belongs to somebody who is out.
THEOREM ClosedRunsMeanOut == Spec => []ClosedMeansOut
  <1>1. OffboardingInv => ClosedMeansOut  BY DEF OffboardingInv, RowsTrue
  <1>2. QED  BY OffboardingInvHolds, <1>1, PTL

=============================================================================
