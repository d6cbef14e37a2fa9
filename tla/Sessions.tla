------------------------------ MODULE Sessions ------------------------------
(***************************************************************************)
(* The sessions of one user (backend/internal/auth).  A session is a       *)
(* stateless access token stamped with the user's pw_version and a refresh *)
(* token.  PostgreSQL holds users.pw_version, the refresh_sessions rows    *)
(* and the fallback deny list; Redis holds a copy of the version, the live *)
(* refresh keys and the deny list, may evict any of them (allkeys-lru) and *)
(* is asked first.  Revoking everything is a walk over both stores.        *)
(*                                                                         *)
(* Every store call is one step of a request, and a store that is down     *)
(* fails it.  Session numbers stand for the pair of tokens; expiry (one    *)
(* hour, thirty days) only shortens what is modelled and is left out.      *)
(*                                                                         *)
(* An operator placed right before the one it resembles and used by no     *)
(* other definition is a faulty variant for the mutation checks.           *)
(***************************************************************************)
EXTENDS Naturals, FiniteSets

CONSTANTS
    Tokens,        \* identities of sessions
    Requests,      \* requests that can be in flight at the same time
    None,          \* no value: an absent key, no token
    MaxVersion,    \* bound: last pw_version
    MaxOutages,    \* bound: outages of a store
    MaxEvictions   \* bound: keys Redis evicts

ASSUME SessionsAssumption ==
    /\ None \notin Tokens /\ None \notin Nat
    /\ IsFiniteSet(Requests)
    /\ MaxVersion \in Nat /\ MaxOutages \in Nat /\ MaxEvictions \in Nat

VARIABLES
    up,         \* the stores that answer: a subset of {"pg", "redis"}
    pgVer,      \* users.pw_version
    rdVer,      \* "user_pw_version:<id>", None when absent
    rows,       \* refresh_sessions: the sessions listed
    keys,       \* "refresh:<hash>": the sessions Redis would renew
    denied,     \* [{"pg", "redis"} -> SUBSET Tokens]: the two deny lists
    linkUsed,   \* used_at of the password reset link
    issued,     \* [Tokens -> the version stamped into the access token, or None]
    req,        \* [Requests -> local state of a request]
    outages, evictions,
    dead,       \* history: sessions a confirmed revocation found handed out
    current,    \* history: sessions stamped since the last bump, none being in flight
    mirrored,   \* history: the largest number of PostgreSQL's that ever reached Redis
    redisOnly,  \* history: a bump reached Redis alone
    apart,      \* history: the last mirror left the stores with two different numbers
    missed      \* history: sessions a store failed to list or to unlist

stores == <<pgVer, rdVer, rows, keys, denied, linkUsed>>
faults == <<up, outages, evictions>>
history == <<dead, current, mirrored, redisOnly, apart, missed>>
vars == <<stores, issued, req, faults, history>>

Version == 0..MaxVersion
Ops == {"login", "refresh", "logout", "revokeAll", "revokeSome", "reset"}
SigningSteps == {"recheck", "rotate", "unlist", "stamp", "store", "record"}
RevokingSteps == {"deny", "dropRows", "dropKeys", "resetTx", "bump", "mirror"}
Request == [op: Ops, at: {"idle"} \cup SigningSteps \cup RevokingSteps, tok: Tokens \cup {None}, ver: Version, drop: SUBSET Tokens,
            denyOk: BOOLEAN, old: SUBSET Tokens, clean: BOOLEAN]

TypeOK ==
    /\ up \subseteq {"pg", "redis"}
    /\ linkUsed \in BOOLEAN
    /\ pgVer \in Version /\ rdVer \in Version \cup {None}
    /\ rows \subseteq Tokens /\ keys \subseteq Tokens
    /\ denied \in [{"pg", "redis"} -> SUBSET Tokens]
    /\ issued \in [Tokens -> Version \cup {None}]
    /\ req \in [Requests -> Request]
    /\ outages \in 0..MaxOutages /\ evictions \in 0..MaxEvictions
    /\ dead \subseteq Tokens /\ current \subseteq Tokens
    /\ mirrored \in Version /\ redisOnly \in BOOLEAN /\ apart \in BOOLEAN /\ missed \subseteq Tokens

-----------------------------------------------------------------------------
(* What the access check and the sign-in read.                             *)

Pg == "pg" \in up
Redis == "redis" \in up
HandedOut == {t \in Tokens : issued[t] # None}

\* currentPwVersion: the version a new token is stamped with.
StampFromRedisOnly == IF Redis /\ rdVer # None THEN rdVer ELSE 0
CurrentPwVersion ==
    IF Redis /\ rdVer # None THEN rdVer
    ELSE IF Pg THEN pgVer
    ELSE 0

\* checkDenyList: Redis decides if it answers, the fallback table if not.
CheckDenyList(t) == IF Redis THEN t \in denied["redis"] ELSE Pg /\ t \in denied["pg"]

\* checkPwVersion: the same sources; with both stores down the token passes.
CheckRedisOnly(t) == IF Redis THEN issued[t] = (IF rdVer # None THEN rdVer ELSE 0) ELSE TRUE
CheckPwVersion(t) ==
    IF Redis /\ rdVer # None THEN issued[t] = rdVer
    ELSE IF Pg THEN issued[t] = pgVer
    ELSE Redis => issued[t] = 0

\* AuthMiddleware, PasetoMiddleware: the access token of t is let through.
Accepts(t) == t \in HandedOut /\ ~CheckDenyList(t) /\ CheckPwVersion(t)

Idle == [op |-> "login", at |-> "idle", tok |-> None, ver |-> 0, drop |-> {},
         denyOk |-> FALSE, old |-> {}, clean |-> FALSE]

\* The version can be read from a store.
Readable == Pg \/ (Redis /\ rdVer # None)

Bumping == \E q \in Requests : req[q].at = "mirror"

Init ==
    /\ up = {"pg", "redis"}
    /\ pgVer = 0 /\ rdVer = None
    /\ rows = {} /\ keys = {}
    /\ denied = [s \in {"pg", "redis"} |-> {}]
    /\ linkUsed = FALSE
    /\ issued = [t \in Tokens |-> None]
    /\ req = [r \in Requests |-> Idle]
    /\ outages = 0 /\ evictions = 0
    /\ dead = {} /\ current = {}
    /\ mirrored = 0 /\ redisOnly = FALSE /\ apart = FALSE /\ missed = {}

\* The bounds: a request starts only if its session and its bump still fit.
RoomToSign ==
    Cardinality({r \in Requests : req[r].at \in SigningSteps}) < Cardinality(Tokens \ HandedOut)
BumpAhead == {r \in Requests : req[r].at \in RevokingSteps /\ (req[r].at = "mirror" => req[r].ver = 0)}
RoomToBump == \A v \in {pgVer, rdVer} \ {None} : v + Cardinality(BumpAhead) < MaxVersion

Goto(r, step) == req' = [req EXCEPT ![r].at = step]
Finish(r) == req' = [req EXCEPT ![r] = Idle]

-----------------------------------------------------------------------------
(* Signing in and renewing a session.                                      *)

\* Login, CompleteMFALogin: the account and the role are read before anything is issued;
\* a wrong password, an inactive account or a failed read ends it there.
Login(r) ==
    /\ req[r].at = "idle"
    /\ \/ Pg /\ RoomToSign /\ req' = [req EXCEPT ![r] = [Idle EXCEPT !.op = "login", !.at = "stamp"]]
       \/ UNCHANGED req
    /\ UNCHANGED <<stores, issued, faults, history>>

\* Refresh: the Redis key is the proof of the refresh token.
RefreshRead(r) ==
    /\ req[r].at = "idle" /\ Redis /\ RoomToSign
    /\ \E t \in keys \cap HandedOut :
        req' = [req EXCEPT ![r] = [Idle EXCEPT !.op = "refresh", !.at = "recheck", !.tok = t]]
    /\ UNCHANGED <<stores, issued, faults, history>>

\* Refresh: the account is looked up again; it may be gone or inactive by now.
RefreshCheck(r) ==
    /\ req[r].at = "recheck"
    /\ \/ Pg /\ Goto(r, "rotate")
       \/ Finish(r)
    /\ UNCHANGED <<stores, issued, faults, history>>

\* Refresh: the old key goes first; a failure is only logged.
NotRotated(r) == keys
Rotated(r) == IF Redis THEN keys \ {req[r].tok} ELSE keys

RefreshRotate(r) ==
    /\ req[r].at = "rotate"
    /\ keys' = Rotated(r)
    /\ missed' = IF Redis THEN missed ELSE missed \cup {req[r].tok}
    /\ Goto(r, "unlist")
    /\ UNCHANGED <<pgVer, rdVer, rows, denied, linkUsed, issued, faults,
                   dead, current, mirrored, redisOnly, apart>>

RefreshUnlist(r) ==
    /\ req[r].at = "unlist"
    /\ rows' = IF Pg THEN rows \ {req[r].tok} ELSE rows
    /\ req' = [req EXCEPT ![r].at = "stamp", ![r].tok = None]
    /\ UNCHANGED <<pgVer, rdVer, keys, denied, linkUsed, issued, faults, history>>

\* issueTokenPair: the version is read once, before the tokens are stored.
Stamp(r) ==
    /\ req[r].at = "stamp"
    /\ req' = [req EXCEPT ![r].at = "store", ![r].ver = CurrentPwVersion, ![r].clean = ~Bumping /\ Readable]
    /\ UNCHANGED <<stores, issued, faults, history>>

\* issueTokenPair: without its Redis key a session is not issued.
StoreRefresh(r) ==
    /\ req[r].at = "store"
    /\ IF Redis
       THEN \E t \in Tokens \ HandedOut :
                /\ \A q \in Requests : ~(req[q].at = "record" /\ req[q].tok = t)
                /\ keys' = keys \cup {t}
                /\ req' = [req EXCEPT ![r].at = "record", ![r].tok = t]
       ELSE keys' = keys /\ Finish(r)
    /\ UNCHANGED <<pgVer, rdVer, rows, denied, linkUsed, issued, faults, history>>

\* issueTokenPair: the row is best effort; then the pair is handed out.
RecordSession(r) ==
    /\ req[r].at = "record"
    /\ rows' = IF Pg THEN rows \cup {req[r].tok} ELSE rows
    /\ missed' = IF Pg THEN missed ELSE missed \cup {req[r].tok}
    /\ issued' = [issued EXCEPT ![req[r].tok] = req[r].ver]
    /\ current' = IF req[r].clean THEN current \cup {req[r].tok} ELSE current
    /\ Finish(r)
    /\ UNCHANGED <<pgVer, rdVer, keys, denied, linkUsed, faults, dead, mirrored, redisOnly, apart>>

-----------------------------------------------------------------------------
(* Revoking.                                                               *)

\* Logout: the presented token goes on both deny lists, PostgreSQL's first.
Logout(r) ==
    /\ req[r].at = "idle" /\ RoomToBump
    /\ \E t \in HandedOut :
        /\ denied' = IF Pg THEN [denied EXCEPT !["pg"] = @ \cup {t}] ELSE denied
        /\ req' = [req EXCEPT ![r] = [Idle EXCEPT !.op = "logout", !.at = "deny", !.tok = t,
                                                  !.denyOk = Pg, !.old = HandedOut]]
    /\ UNCHANGED <<pgVer, rdVer, rows, keys, linkUsed, issued, faults, history>>

\* RevokeToken: one sink is enough.
RevokeToken(r) ==
    /\ req[r].at = "deny"
    /\ denied' = IF Redis THEN [denied EXCEPT !["redis"] = @ \cup {req[r].tok}] ELSE denied
    /\ req' = [req EXCEPT ![r].at = "dropRows", ![r].denyOk = @ \/ Redis, ![r].tok = None]
    /\ UNCHANGED <<pgVer, rdVer, rows, keys, linkUsed, issued, faults, history>>

\* DELETE ... RETURNING token_hash; without PostgreSQL the revocation fails here.
DropAllRows(r, request) ==
    IF Pg
    THEN rows' = {} /\ req' = [req EXCEPT ![r] = [request EXCEPT !.at = "dropKeys", !.drop = rows]]
    ELSE rows' = rows /\ Finish(r)

\* RevokeAllSessions for a role change, a removal, SCIM or offboarding, and the panic button.
RevokeAll(r) ==
    /\ req[r].at = "idle" /\ RoomToBump
    /\ DropAllRows(r, [Idle EXCEPT !.op = "revokeAll", !.denyOk = TRUE, !.old = HandedOut])
    /\ UNCHANGED <<pgVer, rdVer, keys, denied, linkUsed, issued, faults, history>>

\* RevokeAllSessions after RevokeToken, ResetPassword after its bump.
DropRows(r) ==
    /\ req[r].at = "dropRows"
    /\ DropAllRows(r, req[r])
    /\ UNCHANGED <<pgVer, rdVer, keys, denied, linkUsed, issued, faults, history>>

\* RevokeSession, RevokeAllOtherSessions: the caller's own sessions; access tokens live on.
RevokeSome(r) ==
    /\ req[r].at = "idle" /\ Pg
    /\ \E c \in Tokens : Accepts(c)
    /\ \E t \in rows : \E drop \in {{t}, rows \ {t}} :
        /\ rows' = rows \ drop
        /\ req' = [req EXCEPT ![r] = [Idle EXCEPT !.op = "revokeSome", !.at = "dropKeys", !.drop = drop]]
    /\ UNCHANGED <<pgVer, rdVer, keys, denied, linkUsed, issued, faults, history>>

\* The Redis keys of the deleted rows; a failure is ignored.
DropKeys(r) ==
    /\ req[r].at = "dropKeys"
    /\ keys' = IF Redis THEN keys \ req[r].drop ELSE keys
    /\ missed' = IF Redis THEN missed ELSE missed \cup req[r].drop
    /\ IF req[r].op \in {"logout", "revokeAll"}
       THEN req' = [req EXCEPT ![r].at = "bump", ![r].drop = {}]
       ELSE Finish(r)
    /\ UNCHANGED <<pgVer, rdVer, rows, denied, linkUsed, issued, faults,
                   dead, current, mirrored, redisOnly, apart>>

\* ResetPassword: the link is checked, the password is set in a transaction, and the bump
\* comes before the refresh sessions are dropped.
ResetPassword(r) ==
    /\ req[r].at = "idle" /\ Pg /\ ~linkUsed /\ RoomToBump
    /\ req' = [req EXCEPT ![r] = [Idle EXCEPT !.op = "reset", !.at = "resetTx"]]
    /\ UNCHANGED <<stores, issued, faults, history>>

ResetTx(r) ==
    /\ req[r].at = "resetTx"
    /\ linkUsed' = (linkUsed \/ Pg)
    /\ IF Pg THEN Goto(r, "bump") ELSE Finish(r)
    /\ UNCHANGED <<pgVer, rdVer, rows, keys, denied, issued, faults, history>>

\* UPDATE users SET pw_version = pw_version + 1 ... RETURNING pw_version.
NextAfterMirror == (IF rdVer = None THEN 0 ELSE rdVer) + 1
NextVersion == pgVer + 1

\* bumpPwVersionWith: the durable number first.
BumpPg(r) ==
    /\ req[r].at = "bump"
    /\ pgVer' = IF Pg THEN NextVersion ELSE pgVer
    /\ req' = [q \in Requests |->
                  IF q = r THEN [req[r] EXCEPT !.at = "mirror", !.ver = IF Pg THEN NextVersion ELSE 0]
                  ELSE [req[q] EXCEPT !.clean = FALSE]]
    /\ current' = {}
    /\ UNCHANGED <<rdVer, rows, keys, denied, linkUsed, issued, faults,
                   dead, mirrored, redisOnly, apart, missed>>

\* bumpPwVersionWith: SET the number PostgreSQL returned, or INCR if it returned none.
MirrorOneMore(r) ==
    IF ~Redis THEN rdVer
    ELSE IF rdVer = None THEN req[r].ver + 1 ELSE rdVer + 1
MirrorValue(r) ==
    IF ~Redis THEN rdVer
    ELSE IF req[r].ver > 0 THEN req[r].ver
    ELSE IF rdVer = None THEN 1 ELSE rdVer + 1

\* The revocation is confirmed: RevokeAllSessions, and for a logout RevokeToken, returned nil.
Confirms(r) == Redis /\ req[r].op \in {"logout", "revokeAll"} /\ req[r].denyOk

Mirror(r) ==
    /\ req[r].at = "mirror"
    /\ rdVer' = MirrorValue(r)
    /\ mirrored' = IF Redis /\ req[r].ver > mirrored THEN req[r].ver ELSE mirrored
    /\ redisOnly' = (redisOnly \/ (Redis /\ req[r].ver = 0))
    /\ apart' = (rdVer' \notin {None, pgVer})
    /\ dead' = IF Confirms(r) THEN dead \cup req[r].old ELSE dead
    /\ IF req[r].op = "reset" THEN req' = [req EXCEPT ![r].at = "dropRows", ![r].ver = 0] ELSE Finish(r)
    /\ UNCHANGED <<pgVer, rows, keys, denied, linkUsed, issued, faults, current, missed>>

-----------------------------------------------------------------------------
(* The environment: outages, evictions.                                    *)

Outage ==
    /\ outages < MaxOutages
    /\ \E s \in up : up' = up \ {s}
    /\ outages' = outages + 1
    /\ UNCHANGED <<stores, issued, req, evictions, history>>

Recover ==
    /\ \E s \in {"pg", "redis"} \ up : up' = up \cup {s}
    /\ UNCHANGED <<stores, issued, req, outages, evictions, history>>

\* allkeys-lru: any key may be evicted.
Evict ==
    /\ evictions < MaxEvictions
    /\ evictions' = evictions + 1
    /\ \/ rdVer # None /\ rdVer' = None /\ UNCHANGED <<keys, denied>>
       \/ \E t \in keys : keys' = keys \ {t} /\ UNCHANGED <<rdVer, denied>>
       \/ \E t \in denied["redis"] :
             denied' = [denied EXCEPT !["redis"] = @ \ {t}] /\ UNCHANGED <<rdVer, keys>>
    /\ UNCHANGED <<pgVer, rows, linkUsed, issued, req, up, outages, history>>

Signing(r) ==
    \/ Login(r) \/ RefreshRead(r) \/ RefreshCheck(r) \/ RefreshRotate(r) \/ RefreshUnlist(r)
    \/ Stamp(r) \/ StoreRefresh(r) \/ RecordSession(r)

Revoking(r) ==
    \/ Logout(r) \/ RevokeToken(r) \/ RevokeAll(r) \/ DropRows(r) \/ RevokeSome(r)
    \/ DropKeys(r) \/ ResetPassword(r) \/ ResetTx(r) \/ BumpPg(r) \/ Mirror(r)

Environment == Outage \/ Recover \/ Evict

Next == Environment \/ \E r \in Requests : Signing(r) \/ Revoking(r)

Spec == Init /\ [][Next]_vars

-----------------------------------------------------------------------------
(* Properties.                                                             *)

\* A mirror that came late: Redis answers with a number that a later one had replaced, until
\* the next bump in order or an eviction.
Overtaken == Redis /\ rdVer # None /\ rdVer < mirrored

\* A confirmed RevokeAllSessions or logout ends the access of every session handed out when
\* it began, through later outages, evictions and bumps.  Two exceptions: as long as the
\* mirror is overtaken, Redis lets in the sessions stamped with its number; and once a bump
\* fell back to INCR alone, the two stores may count the same number for different bumps.
RevokedStaysRejected ==
    ~redisOnly /\ Readable /\ ~Overtaken => \A t \in dead : ~Accepts(t)

\* The durable number alone separates revoked sessions from later ones: however the mirrors
\* are reordered, lost or evicted, every check that PostgreSQL answers rejects them.  Only a
\* bump that PostgreSQL never took (INCR alone) is not durable, as its log line says.
RevocationIsDurable ==
    ~redisOnly => \A t \in dead : issued[t] < pgVer

\* Redis renews only sessions the user's list shows, so that deleting the list's rows reaches
\* every one of them; a key may be without its row only while the request that writes or
\* removes it is still running.  A store that fails then exempts the very session it failed
\* for, and no other, however long the outage or how many sessions a walk drops.
EveryKeyIsListed ==
    \A t \in (keys \ rows) \ missed :
        \E r \in Requests : \/ req[r].at = "record" /\ req[r].tok = t
                            \/ req[r].at = "dropKeys" /\ t \in req[r].drop

\* A session signed in while no bump was in flight is not turned away before the next bump,
\* whatever Redis evicts and whichever store is down, if the last bump left one number in
\* both stores.  The exception is a mirror that was lost or overtaken, or a bump by INCR
\* alone: then the number stamped from one store is refused once the other one answers.
SignInIsHonoured ==
    ~apart => \A t \in current : Readable => CheckPwVersion(t)

\* currentPwVersion: the sign-in "MUSS dieselbe Quelle lesen wie checkPwVersion", or else a
\* user comes in and is refused by every request after that.
SignInIsNeverLockedOut == \A t \in current : Readable => CheckPwVersion(t)

\* RevokeAllSessions: "the stateless Paseto access tokens are rejected on the very next
\* request" once it returned nil.
RevocationTakesEffect == up = {"pg", "redis"} => \A t \in dead : ~Accepts(t)

=============================================================================
