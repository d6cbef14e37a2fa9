--------------------------- MODULE SessionsProofs ---------------------------
(* Proofs about Sessions, for every number of sessions and concurrent      *)
(* requests, every number of outages and evictions and every order of the  *)
(* store calls.  SessionInv is the inductive invariant; the four safety    *)
(* properties of Sessions follow from it.                                  *)
EXTENDS Sessions, FiniteSetTheorems, TLAPS

-----------------------------------------------------------------------------
(* The inductive invariant.                                                *)

Ending == {"logout", "revokeAll"}

\* The requests whose bump is still to come, or reached neither store yet.
Left == {r \in Requests :
            \/ req[r].at \in {"deny", "dropRows", "dropKeys"} /\ req[r].op \in Ending
            \/ req[r].at \in {"resetTx", "bump"}
            \/ req[r].at = "mirror" /\ req[r].ver = 0}

\* Every bump that was started still fits into the versions of the model.
RoomKept ==
    /\ pgVer + Cardinality(Left) <= MaxVersion
    /\ rdVer # None => rdVer + Cardinality(Left) <= MaxVersion

\* A session is written down once: a pair that is not handed out yet belongs to one request,
\* and a request that renews, unlists or denies a session works on one that was handed out.
TokensOnce ==
    /\ \A r \in Requests :
        /\ req[r].at = "record" => req[r].tok \in Tokens /\ issued[req[r].tok] = None
        /\ req[r].at \in {"recheck", "rotate", "unlist", "deny"} => req[r].tok \in HandedOut
    /\ \A q, r \in Requests :
        q # r /\ req[q].at = "record" /\ req[r].at = "record" => req[q].tok # req[r].tok

\* Nothing is stamped past the durable version, and what a confirmed revocation found handed
\* out is stamped below the number it wrote to Redis, which PostgreSQL has taken before.
Carries(q) == q.at = "mirror" /\ q.ver > 0
VersionsOrdered ==
    /\ dead \subseteq HandedOut
    /\ \A r \in Requests :
        /\ req[r].old \subseteq HandedOut
        /\ Carries(req[r]) => req[r].ver <= pgVer
    /\ ~redisOnly =>
        /\ \A r \in Requests :
            /\ req[r].at \in {"store", "record"} => req[r].ver <= pgVer
            /\ Carries(req[r]) => \A t \in req[r].old : issued[t] < req[r].ver
        /\ rdVer # None => rdVer <= pgVer
        /\ mirrored <= pgVer
        /\ \A t \in HandedOut : issued[t] <= pgVer
        /\ \A t \in dead : issued[t] < mirrored

\* Between two bumps both stores hold the number new sessions are stamped with, unless the
\* last mirror left them apart.
InStep ==
    /\ current \subseteq HandedOut
    /\ current # {} => ~Bumping
    /\ \A r \in Requests : req[r].at \in {"store", "record"} /\ req[r].clean => ~Bumping
    /\ ~apart =>
        /\ rdVer = None \/ rdVer = pgVer \/ Bumping
        /\ \A t \in current : issued[t] = pgVer
        /\ \A r \in Requests : req[r].at \in {"store", "record"} /\ req[r].clean => req[r].ver = pgVer

\* The keys Redis would renew are listed, and a session being unlisted has lost its key,
\* but for those a store failed for.
KeysListed ==
    /\ EveryKeyIsListed
    /\ \A r \in Requests : req[r].at = "unlist" => req[r].tok \notin keys \/ req[r].tok \in missed

SessionInv == TypeOK /\ RoomKept /\ TokensOnce /\ VersionsOrdered /\ InStep /\ KeysListed

-----------------------------------------------------------------------------
(* Types and the bounds of the model.                                      *)

\* Finitely many requests are under way.
LEMMA LeftFinite == IsFiniteSet(Left) /\ Cardinality(Left) \in Nat
  BY SessionsAssumption, FS_Subset, FS_CardinalityType DEF Left

\* A request that is not running has a well-typed record.
LEMMA IdleType == Idle \in Request
  BY SessionsAssumption DEF Idle, Request, Ops, Version

\* The version a sign-in stamps is one of the model's, and handed-out sessions are sessions.
LEMMA ReadTypes == ASSUME TypeOK PROVE CurrentPwVersion \in Version /\ HandedOut \in SUBSET Tokens /\ Pg \in BOOLEAN /\ Redis \in BOOLEAN /\ Bumping \in BOOLEAN /\ Readable \in BOOLEAN
  <1>1. CurrentPwVersion \in Version
    BY SessionsAssumption DEF TypeOK, CurrentPwVersion, Version
  <1> QED
    BY <1>1 DEF HandedOut, Pg, Redis, Bumping, Readable

\* The records of the requests stay well typed.
RequestsTyped == req \in [Requests -> Request]
LEMMA RequestsStep == ASSUME TypeOK, RoomKept, [Next]_vars PROVE RequestsTyped'
  <1> USE SessionsAssumption DEF RequestsTyped
  <1>0. req \in [Requests -> Request] /\ Idle \in Request /\ CurrentPwVersion \in Version /\ HandedOut \in SUBSET Tokens
        /\ Pg \in BOOLEAN /\ Redis \in BOOLEAN /\ Bumping \in BOOLEAN /\ Readable \in BOOLEAN /\ 0 \in Version
        /\ rows \in SUBSET Tokens /\ keys \in SUBSET Tokens
    BY IdleType, ReadTypes DEF TypeOK, Version
  <1>1. ASSUME NEW r \in Requests, Login(r) PROVE RequestsTyped'
    <2>1. [Idle EXCEPT !.op = "login", !.at = "stamp"] \in Request
      BY <1>0 DEF Request, Ops, SigningSteps, RevokingSteps
    <2> QED
      BY <1>1, <1>0, <2>1 DEF Login
  <1>2. ASSUME NEW r \in Requests, RefreshRead(r) PROVE RequestsTyped'
    <2>1. \A t \in keys : [Idle EXCEPT !.op = "refresh", !.at = "recheck", !.tok = t] \in Request
      BY <1>0 DEF Request, Ops, SigningSteps, RevokingSteps
    <2> QED
      BY <1>2, <1>0, <2>1 DEF RefreshRead
  <1>3. ASSUME NEW r \in Requests, RefreshCheck(r) PROVE RequestsTyped'
    <2>1. [req[r] EXCEPT !.at = "rotate"] \in Request
      BY <1>0 DEF Request, Ops, SigningSteps, RevokingSteps
    <2> QED
      BY <1>3, <1>0, <2>1 DEF RefreshCheck, Goto, Finish
  <1>4. ASSUME NEW r \in Requests, RefreshRotate(r) PROVE RequestsTyped'
    <2>1. [req[r] EXCEPT !.at = "unlist"] \in Request
      BY <1>0 DEF Request, Ops, SigningSteps, RevokingSteps
    <2> QED
      BY <1>4, <1>0, <2>1 DEF RefreshRotate, Rotated, Goto
  <1>5. ASSUME NEW r \in Requests, RefreshUnlist(r) PROVE RequestsTyped'
    <2>1. [req[r] EXCEPT !.at = "stamp", !.tok = None] \in Request
      BY <1>0 DEF Request, Ops, SigningSteps, RevokingSteps
    <2> QED
      BY <1>5, <1>0, <2>1 DEF RefreshUnlist
  <1>6. ASSUME NEW r \in Requests, Stamp(r) PROVE RequestsTyped'
    <2>1. [req[r] EXCEPT !.at = "store", !.ver = CurrentPwVersion, !.clean = ~Bumping /\ Readable] \in Request
      BY <1>0 DEF Request, Ops, SigningSteps, RevokingSteps
    <2> QED
      BY <1>6, <1>0, <2>1 DEF Stamp
  <1>7. ASSUME NEW r \in Requests, StoreRefresh(r) PROVE RequestsTyped'
    <2>1. \A t \in Tokens : [req[r] EXCEPT !.at = "record", !.tok = t] \in Request
      BY <1>0 DEF Request, Ops, SigningSteps, RevokingSteps
    <2> QED
      BY <1>7, <1>0, <2>1 DEF StoreRefresh, Finish
  <1>8. ASSUME NEW r \in Requests, RecordSession(r) PROVE RequestsTyped'
    <2> QED
      BY <1>8, <1>0 DEF RecordSession, Finish
  <1>9. ASSUME NEW r \in Requests, Logout(r) PROVE RequestsTyped'
    <2>1. \A t \in HandedOut : [Idle EXCEPT !.op = "logout", !.at = "deny", !.tok = t, !.denyOk = Pg, !.old = HandedOut] \in Request
      BY <1>0 DEF Request, Ops, SigningSteps, RevokingSteps
    <2> QED
      BY <1>9, <1>0, <2>1 DEF Logout
  <1>10. ASSUME NEW r \in Requests, RevokeToken(r) PROVE RequestsTyped'
    <2>1. [req[r] EXCEPT !.at = "dropRows", !.denyOk = @ \/ Redis, !.tok = None] \in Request
      BY <1>0 DEF Request, Ops, SigningSteps, RevokingSteps
    <2> QED
      BY <1>10, <1>0, <2>1 DEF RevokeToken
  <1>11. ASSUME NEW r \in Requests, RevokeAll(r) PROVE RequestsTyped'
    <2>1. [[Idle EXCEPT !.op = "revokeAll", !.denyOk = TRUE, !.old = HandedOut] EXCEPT !.at = "dropKeys", !.drop = rows] \in Request
      BY <1>0 DEF Request, Ops, SigningSteps, RevokingSteps
    <2> QED
      BY <1>11, <1>0, <2>1 DEF RevokeAll, DropAllRows, Finish
  <1>12. ASSUME NEW r \in Requests, DropRows(r) PROVE RequestsTyped'
    <2>1. [req[r] EXCEPT !.at = "dropKeys", !.drop = rows] \in Request
      BY <1>0 DEF Request, Ops, SigningSteps, RevokingSteps
    <2> QED
      BY <1>12, <1>0, <2>1 DEF DropRows, DropAllRows, Finish
  <1>13. ASSUME NEW r \in Requests, RevokeSome(r) PROVE RequestsTyped'
    <2>1. \A t \in rows : \A d \in {{t}, rows \ {t}} : [Idle EXCEPT !.op = "revokeSome", !.at = "dropKeys", !.drop = d] \in Request
      BY <1>0 DEF Request, Ops, SigningSteps, RevokingSteps
    <2> QED
      BY <1>13, <1>0, <2>1 DEF RevokeSome
  <1>14. ASSUME NEW r \in Requests, DropKeys(r) PROVE RequestsTyped'
    <2>1. [req[r] EXCEPT !.at = "bump", !.drop = {}] \in Request
      BY <1>0 DEF Request, Ops, SigningSteps, RevokingSteps
    <2> QED
      BY <1>14, <1>0, <2>1 DEF DropKeys, Finish
  <1>15. ASSUME NEW r \in Requests, ResetPassword(r) PROVE RequestsTyped'
    <2>1. [Idle EXCEPT !.op = "reset", !.at = "resetTx"] \in Request
      BY <1>0 DEF Request, Ops, SigningSteps, RevokingSteps
    <2> QED
      BY <1>15, <1>0, <2>1 DEF ResetPassword
  <1>16. ASSUME NEW r \in Requests, ResetTx(r) PROVE RequestsTyped'
    <2>1. [req[r] EXCEPT !.at = "bump"] \in Request
      BY <1>0 DEF Request, Ops, SigningSteps, RevokingSteps
    <2> QED
      BY <1>16, <1>0, <2>1 DEF ResetTx, Goto, Finish
  <1>17. ASSUME NEW r \in Requests, BumpPg(r) PROVE RequestsTyped'
    <2>1. \A q \in Requests : [req[q] EXCEPT !.clean = FALSE] \in Request
      BY <1>0 DEF Request
    <2>2. NextVersion \in Version \/ ~Pg
      <3>1. r \in Left
        BY <1>17 DEF BumpPg, Left
      <3>2. Cardinality(Left) \in Nat /\ Cardinality(Left) # 0
        BY <3>1, LeftFinite, FS_EmptySet
      <3> QED
        BY <3>2 DEF RoomKept, TypeOK, Version, NextVersion
    <2>3. [req[r] EXCEPT !.at = "mirror", !.ver = IF Pg THEN NextVersion ELSE 0] \in Request
      BY <1>0, <2>2 DEF Request, Ops, SigningSteps, RevokingSteps
    <2> QED
      BY <1>17, <2>1, <2>3 DEF BumpPg
  <1>18. ASSUME NEW r \in Requests, Mirror(r) PROVE RequestsTyped'
    <2>1. [req[r] EXCEPT !.at = "dropRows", !.ver = 0] \in Request
      BY <1>0 DEF Request, Ops, SigningSteps, RevokingSteps
    <2> QED
      BY <1>18, <1>0, <2>1 DEF Mirror, Finish
  <1>19. CASE req' = req
    BY <1>19, <1>0
  <1> QED
    BY <1>1, <1>2, <1>3, <1>4, <1>5, <1>6, <1>7, <1>8, <1>9, <1>10, <1>11, <1>12, <1>13, <1>14, <1>15, <1>16, <1>17, <1>18, <1>19 DEF Next, Environment, Signing, Revoking, Outage, Recover, Evict, vars

\* What a deletion of the listed sessions does to the request that asks for it.
LEMMA DropAllRowsFrame ==
  ASSUME req \in [Requests -> Request], NEW r \in Requests, NEW request \in Request, DropAllRows(r, request)
  PROVE  /\ \A q \in Requests : q # r => req'[q] = req[q]
         /\ \/ req'[r].at = "idle" /\ req'[r].old = {} /\ rows' = rows
            \/ req'[r].at = "dropKeys" /\ req'[r].drop = rows /\ req'[r].old = request.old /\ rows' = {}
  <1>1. CASE Pg
    BY <1>1 DEF DropAllRows, Request
  <1>2. CASE ~Pg
    BY <1>2 DEF DropAllRows, Finish, Idle
  <1> QED
    BY <1>1, <1>2

\* RevokeAllSessions begins with every session handed out as the ones to end.
LEMMA RevokeAllFrame ==
  ASSUME TypeOK, NEW r \in Requests, RevokeAll(r)
  PROVE  /\ \A q \in Requests : q # r => req'[q] = req[q]
         /\ \/ req'[r].at = "idle" /\ req'[r].old = {} /\ rows' = rows
            \/ req'[r].at = "dropKeys" /\ req'[r].drop = rows /\ req'[r].old = HandedOut /\ rows' = {}
         /\ req[r].at = "idle"
         /\ UNCHANGED <<pgVer, rdVer, keys, issued, dead, current, mirrored, redisOnly, apart, missed>>
  <1> DEFINE request == [Idle EXCEPT !.op = "revokeAll", !.denyOk = TRUE, !.old = HandedOut]
  <1>1. request \in Request /\ request.old = HandedOut
    BY IdleType, ReadTypes DEF Idle, Request, Ops
  <1>2. DropAllRows(r, request) /\ req[r].at = "idle"
        /\ UNCHANGED <<pgVer, rdVer, keys, issued, dead, current, mirrored, redisOnly, apart, missed>>
    BY DEF RevokeAll, history
  <1>3. req \in [Requests -> Request]
    BY DEF TypeOK
  <1> HIDE DEF request
  <1> QED
    BY <1>1, <1>2, <1>3, DropAllRowsFrame

\* The later deletions keep the sessions the request set out to end.
LEMMA DropRowsFrame ==
  ASSUME TypeOK, NEW r \in Requests, DropRows(r)
  PROVE  /\ \A q \in Requests : q # r => req'[q] = req[q]
         /\ \/ req'[r].at = "idle" /\ req'[r].old = {} /\ rows' = rows
            \/ req'[r].at = "dropKeys" /\ req'[r].drop = rows /\ req'[r].old = req[r].old /\ rows' = {}
         /\ req[r].at = "dropRows"
         /\ UNCHANGED <<pgVer, rdVer, keys, issued, dead, current, mirrored, redisOnly, apart, missed>>
  <1>1. req[r] \in Request /\ req \in [Requests -> Request]
    BY DEF TypeOK
  <1> QED
    BY <1>1, DropAllRowsFrame DEF DropRows, history

\* Every bump that was started still fits: starting one needs room, and taking a number uses it up.
LEMMA RoomStep == ASSUME TypeOK, RoomKept, VersionsOrdered, [Next]_vars PROVE RoomKept'
  <1> USE SessionsAssumption
  <1>0. pgVer \in Nat /\ MaxVersion \in Nat /\ Cardinality(Left) \in Nat /\ IsFiniteSet(Left)
        /\ (rdVer # None => rdVer \in Nat) /\ req \in [Requests -> Request] /\ Cardinality(Left') \in Nat /\ IsFiniteSet(Left')
    <2>1. Left' \subseteq Requests
      BY DEF Left
    <2> QED
      BY <2>1, LeftFinite, FS_Subset, FS_CardinalityType DEF TypeOK, Version
  <1>a. ASSUME Left' \subseteq Left, UNCHANGED pgVer, rdVer' = rdVer \/ rdVer' = None PROVE RoomKept'
    <2>1. Cardinality(Left') <= Cardinality(Left)
      BY <1>0, <1>a, FS_Subset
    <2> QED
      BY <2>1, <1>0, <1>a DEF RoomKept
  <1>b. ASSUME NEW r \in Requests, req[r].at = "idle", Left' \subseteq Left \cup {r}, RoomToBump, UNCHANGED <<pgVer, rdVer>> PROVE RoomKept'
    <2>1. IsFiniteSet(BumpAhead) /\ Cardinality(BumpAhead) \in Nat
      BY FS_Subset, FS_CardinalityType DEF BumpAhead
    <2>2. Cardinality(Left) <= Cardinality(BumpAhead)
      <3>1. Left \subseteq BumpAhead
        BY DEF Left, BumpAhead, RevokingSteps
      <3> QED
        BY <3>1, <2>1, FS_Subset
    <2>3. Cardinality(Left') <= Cardinality(Left) + 1
      <3>1. Cardinality(Left \cup {r}) <= Cardinality(Left) + 1 /\ IsFiniteSet(Left \cup {r}) /\ Cardinality(Left \cup {r}) \in Nat
        <4>1. IsFiniteSet(Left \cup {r}) /\ Cardinality(Left \cup {r}) = IF r \in Left THEN Cardinality(Left) ELSE Cardinality(Left) + 1
          BY <1>0, FS_AddElement
        <4> QED
          BY <4>1, <1>0
      <3> QED
        BY <3>1, <1>b, <1>0, FS_Subset
    <2>4. pgVer + Cardinality(BumpAhead) < MaxVersion /\ (rdVer # None => rdVer + Cardinality(BumpAhead) < MaxVersion)
      BY <1>b, <1>0 DEF RoomToBump
    <2> QED
      BY <2>1, <2>2, <2>3, <2>4, <1>0, <1>b DEF RoomKept
  <1>c. ASSUME NEW r \in Left, Left' \subseteq Left \ {r} PROVE Cardinality(Left') + 1 <= Cardinality(Left)
    <2>1. Cardinality(Left \ {r}) = Cardinality(Left) - 1 /\ IsFiniteSet(Left \ {r})
      BY <1>0, FS_RemoveElement
    <2> QED
      BY <2>1, <1>0, <1>c, FS_Subset
  <1>1. ASSUME NEW r \in Requests, Login(r) PROVE RoomKept'
    <2>1. req' = req \/ ((\A q \in Requests : q # r => req'[q] = req[q]) /\ (req'[r].at = "stamp"))
      BY <1>1, <1>0 DEF Login, Idle, Request
    <2>2. Left' \subseteq Left
      BY <2>1 DEF Left
    <2> QED
      BY <2>2, <1>a, <1>1 DEF Login, stores
  <1>2. ASSUME NEW r \in Requests, RefreshRead(r) PROVE RoomKept'
    <2>1. Left' \subseteq Left
      BY <1>2, <1>0 DEF RefreshRead, Idle, Left, Ending, Request
    <2> QED
      BY <2>1, <1>a, <1>2 DEF RefreshRead, stores
  <1>3. ASSUME NEW r \in Requests, RefreshCheck(r) PROVE RoomKept'
    <2>1. Left' \subseteq Left
      BY <1>3, <1>0 DEF RefreshCheck, Goto, Finish, Idle, Left, Ending, Request
    <2> QED
      BY <2>1, <1>a, <1>3 DEF RefreshCheck, stores
  <1>4. ASSUME NEW r \in Requests, RefreshRotate(r) PROVE RoomKept'
    <2>1. Left' \subseteq Left
      BY <1>4, <1>0 DEF RefreshRotate, Rotated, Goto, Left, Ending, Request
    <2> QED
      BY <2>1, <1>a, <1>4 DEF RefreshRotate, stores
  <1>5. ASSUME NEW r \in Requests, RefreshUnlist(r) PROVE RoomKept'
    <2>1. Left' \subseteq Left
      BY <1>5, <1>0 DEF RefreshUnlist, Left, Ending, Request
    <2> QED
      BY <2>1, <1>a, <1>5 DEF RefreshUnlist, stores
  <1>6. ASSUME NEW r \in Requests, Stamp(r) PROVE RoomKept'
    <2>1. Left' \subseteq Left
      BY <1>6, <1>0 DEF Stamp, Left, Ending, Request
    <2> QED
      BY <2>1, <1>a, <1>6 DEF Stamp, stores
  <1>7. ASSUME NEW r \in Requests, StoreRefresh(r) PROVE RoomKept'
    <2>1. Left' \subseteq Left
      BY <1>7, <1>0 DEF StoreRefresh, Finish, Idle, Left, Ending, Request
    <2> QED
      BY <2>1, <1>a, <1>7 DEF StoreRefresh, stores
  <1>8. ASSUME NEW r \in Requests, RecordSession(r) PROVE RoomKept'
    <2>1. Left' \subseteq Left
      BY <1>8, <1>0 DEF RecordSession, Finish, Idle, Left, Ending, Request
    <2> QED
      BY <2>1, <1>a, <1>8 DEF RecordSession, stores
  <1>9. ASSUME NEW r \in Requests, Logout(r) PROVE RoomKept'
    <2>1. \A q \in Requests : q # r => req'[q] = req[q]
      BY <1>9, <1>0 DEF Logout, Idle
    <2>2. Left' \subseteq Left \cup {r}
      BY <2>1 DEF Left
    <2> QED
      BY <2>2, <1>b, <1>9 DEF Logout, stores
  <1>10. ASSUME NEW r \in Requests, RevokeToken(r) PROVE RoomKept'
    <2>1. req' = req \/ ((\A q \in Requests : q # r => req'[q] = req[q]) /\ (req[r].at = "deny" /\ req'[r].at = "dropRows" /\ req'[r].op = req[r].op))
      BY <1>10, <1>0 DEF RevokeToken, Request
    <2>2. Left' \subseteq Left
      BY <2>1 DEF Left
    <2> QED
      BY <2>2, <1>a, <1>10 DEF RevokeToken, stores
  <1>11. ASSUME NEW r \in Requests, RevokeAll(r) PROVE RoomKept'
    <2>1. \A q \in Requests : q # r => req'[q] = req[q]
      BY <1>11, <1>0 DEF RevokeAll, DropAllRows, Finish, Idle
    <2>2. Left' \subseteq Left \cup {r}
      BY <2>1 DEF Left
    <2> QED
      BY <2>2, <1>b, <1>11 DEF RevokeAll, stores
  <1>12. ASSUME NEW r \in Requests, DropRows(r) PROVE RoomKept'
    <2>1. req' = req \/ ((\A q \in Requests : q # r => req'[q] = req[q]) /\ (req'[r].at = "idle" \/ (req[r].at = "dropRows" /\ req'[r].at = "dropKeys" /\ req'[r].op = req[r].op)))
      <3>1. CASE Pg
        BY <3>1, <1>12, <1>0 DEF DropRows, DropAllRows, Request
      <3>2. CASE ~Pg
        BY <3>2, <1>12, <1>0 DEF DropRows, DropAllRows, Finish, Idle
      <3> QED
        BY <3>1, <3>2
    <2>2. Left' \subseteq Left
      BY <2>1 DEF Left
    <2> QED
      BY <2>2, <1>a, <1>12 DEF DropRows, stores
  <1>13. ASSUME NEW r \in Requests, RevokeSome(r) PROVE RoomKept'
    <2>1. Left' \subseteq Left
      BY <1>13, <1>0 DEF RevokeSome, Idle, Left, Ending, Request
    <2> QED
      BY <2>1, <1>a, <1>13 DEF RevokeSome, stores
  <1>14. ASSUME NEW r \in Requests, DropKeys(r) PROVE RoomKept'
    <2>1. Left' \subseteq Left
      BY <1>14, <1>0 DEF DropKeys, Finish, Idle, Left, Ending, Request
    <2> QED
      BY <2>1, <1>a, <1>14 DEF DropKeys, stores
  <1>15. ASSUME NEW r \in Requests, ResetPassword(r) PROVE RoomKept'
    <2>1. \A q \in Requests : q # r => req'[q] = req[q]
      BY <1>15, <1>0 DEF ResetPassword, Idle
    <2>2. Left' \subseteq Left \cup {r}
      BY <2>1 DEF Left
    <2> QED
      BY <2>2, <1>b, <1>15 DEF ResetPassword, stores
  <1>16. ASSUME NEW r \in Requests, ResetTx(r) PROVE RoomKept'
    <2>1. Left' \subseteq Left
      BY <1>16, <1>0 DEF ResetTx, Goto, Finish, Idle, Left, Ending, Request
    <2> QED
      BY <2>1, <1>a, <1>16 DEF ResetTx, stores
  <1>17. ASSUME NEW r \in Requests, BumpPg(r) PROVE RoomKept'
    <2>1. \A q \in Requests : q # r => req'[q].at = req[q].at /\ req'[q].op = req[q].op /\ req'[q].ver = req[q].ver
      BY <1>17, <1>0 DEF BumpPg, Request
    <2>2. r \in Left /\ req'[r].at = "mirror" /\ req'[r].ver = IF Pg THEN NextVersion ELSE 0
      BY <1>17, <1>0 DEF BumpPg, Left, Request
    <2>3. CASE Pg
      <3>1. Left' \subseteq Left \ {r} /\ pgVer' = pgVer + 1 /\ rdVer' = rdVer
        BY <2>1, <2>2, <2>3, <1>17, <1>0 DEF Left, NextVersion, BumpPg
      <3> QED
        BY <3>1, <2>2, <1>0, <1>c DEF RoomKept
    <2>4. CASE ~Pg
      <3>1. Left' \subseteq Left
        BY <2>1, <2>2, <2>4 DEF Left
      <3> QED
        BY <3>1, <2>4, <1>a, <1>17 DEF BumpPg
    <2> QED
      BY <2>3, <2>4
  <1>18. ASSUME NEW r \in Requests, Mirror(r) PROVE RoomKept'
    <2>1. /\ \A q \in Requests : q # r => req'[q] = req[q]
          /\ req'[r].at = "idle" \/ (req'[r].at = "dropRows" /\ req'[r].op = "reset")
      BY <1>18, <1>0 DEF Mirror, Finish, Idle, Request
    <2>2. Left' \subseteq Left \ {r}
      BY <2>1 DEF Left, Ending
    <2>3. CASE ~Redis \/ req[r].ver > 0
      <3>1. rdVer' = rdVer \/ (rdVer' = req[r].ver /\ req[r].ver <= pgVer /\ req[r].ver \in Nat)
        BY <1>18, <1>0, <2>3 DEF VersionsOrdered, Mirror, MirrorValue, Carries, Request, Version
      <3> QED
        BY <3>1, <2>2, <1>0, <1>18, FS_Subset DEF RoomKept, Mirror
    <2>4. CASE req[r].ver = 0
      <3>1. r \in Left
        BY <1>18, <2>4 DEF Left, Mirror
      <3>2. rdVer' = rdVer \/ rdVer' = 1 \/ (rdVer # None /\ rdVer' = rdVer + 1)
        BY <1>18, <2>4 DEF Mirror, MirrorValue
      <3> QED
        BY <3>1, <3>2, <2>2, <1>0, <1>c, <1>18 DEF RoomKept, Mirror
    <2>5. req[r].ver \in Nat
      BY <1>0 DEF Request, Version
    <2> QED
      BY <2>3, <2>4, <2>5
  <1>19. ASSUME Outage PROVE RoomKept'
    BY <1>19, <1>a DEF Outage, Left, stores
  <1>20. ASSUME Recover PROVE RoomKept'
    BY <1>20, <1>a DEF Recover, Left, stores
  <1>21. ASSUME Evict PROVE RoomKept'
    BY <1>21, <1>a DEF Evict, Left, stores
  <1>22. ASSUME UNCHANGED vars PROVE RoomKept'
    BY <1>22, <1>a DEF vars, Left, stores
  <1> QED
    BY <1>1, <1>2, <1>3, <1>4, <1>5, <1>6, <1>7, <1>8, <1>9, <1>10, <1>11, <1>12, <1>13, <1>14, <1>15, <1>16, <1>17, <1>18, <1>19, <1>20, <1>21, <1>22 DEF Next, Environment, Signing, Revoking

\* The types are kept by every step.
LEMMA TypeStep == ASSUME TypeOK, RoomKept, TokensOnce, VersionsOrdered, [Next]_vars PROVE TypeOK'
  <1> USE SessionsAssumption
  <1>0. req' \in [Requests -> Request]
    BY RequestsStep DEF RequestsTyped
  <1>1. pgVer' \in Nat /\ (rdVer' # None => rdVer' \in Nat) => pgVer' \in Version /\ rdVer' \in Version \cup {None}
    <2>1. Left' \subseteq Requests
      BY DEF Left
    <2>2. Cardinality(Left') \in Nat
      BY <2>1, FS_Subset, FS_CardinalityType
    <2> QED
      BY <2>2, RoomStep DEF RoomKept, Version
  <1>2. pgVer \in Version /\ rdVer \in Version \cup {None} /\ CurrentPwVersion \in Version /\ req \in [Requests -> Request]
        /\ pgVer \in Nat /\ (rdVer # None => rdVer \in Nat) /\ \A r \in Requests : req[r].ver \in Nat /\ req[r].ver \in Version /\ req[r].old \subseteq Tokens
    BY ReadTypes DEF TypeOK, Version, Request
  <1>3. ASSUME NEW r \in Requests, Login(r) PROVE TypeOK'
    BY <1>3, <1>0, <1>2 DEF TypeOK, Login, Idle, stores, faults, history
  <1>4. ASSUME NEW r \in Requests, RefreshRead(r) PROVE TypeOK'
    BY <1>4, <1>0, <1>2 DEF TypeOK, RefreshRead, Idle, HandedOut, stores, faults, history
  <1>5. ASSUME NEW r \in Requests, RefreshCheck(r) PROVE TypeOK'
    BY <1>5, <1>0, <1>2 DEF TypeOK, RefreshCheck, Goto, Finish, Idle, stores, faults, history
  <1>6. ASSUME NEW r \in Requests, RefreshRotate(r) PROVE TypeOK'
    <2>1. req[r].tok \in Tokens
      BY <1>6 DEF TokensOnce, HandedOut, RefreshRotate
    <2> QED
      BY <2>1, <1>6, <1>0, <1>2 DEF TypeOK, RefreshRotate, Rotated, Goto, stores, faults, history
  <1>7. ASSUME NEW r \in Requests, RefreshUnlist(r) PROVE TypeOK'
    BY <1>7, <1>0, <1>2 DEF TypeOK, RefreshUnlist, stores, faults, history
  <1>8. ASSUME NEW r \in Requests, Stamp(r) PROVE TypeOK'
    BY <1>8, <1>0, <1>2 DEF TypeOK, Stamp, stores, faults, history
  <1>9. ASSUME NEW r \in Requests, StoreRefresh(r) PROVE TypeOK'
    BY <1>9, <1>0, <1>2 DEF TypeOK, StoreRefresh, HandedOut, Finish, Idle, stores, faults, history
  <1>10. ASSUME NEW r \in Requests, RecordSession(r) PROVE TypeOK'
    <2>1. req[r].tok \in Tokens
      BY <1>10 DEF TokensOnce, HandedOut, RecordSession
    <2> QED
      BY <2>1, <1>10, <1>0, <1>2 DEF TypeOK, RecordSession, Finish, Idle, stores, faults, history
  <1>11. ASSUME NEW r \in Requests, Logout(r) PROVE TypeOK'
    BY <1>11, <1>0, <1>2 DEF TypeOK, Logout, Idle, HandedOut, stores, faults, history
  <1>12. ASSUME NEW r \in Requests, RevokeToken(r) PROVE TypeOK'
    <2>1. req[r].tok \in Tokens
      BY <1>12 DEF TokensOnce, HandedOut, RevokeToken
    <2> QED
      BY <2>1, <1>12, <1>0, <1>2 DEF TypeOK, RevokeToken, stores, faults, history
  <1>13. ASSUME NEW r \in Requests, RevokeAll(r) PROVE TypeOK'
    BY <1>13, <1>0, <1>2 DEF TypeOK, RevokeAll, DropAllRows, Finish, Idle, HandedOut, stores, faults, history
  <1>14. ASSUME NEW r \in Requests, DropRows(r) PROVE TypeOK'
    BY <1>14, <1>0, <1>2 DEF TypeOK, DropRows, DropAllRows, Finish, Idle, stores, faults, history
  <1>15. ASSUME NEW r \in Requests, RevokeSome(r) PROVE TypeOK'
    BY <1>15, <1>0, <1>2 DEF TypeOK, RevokeSome, Idle, stores, faults, history
  <1>16. ASSUME NEW r \in Requests, DropKeys(r) PROVE TypeOK'
    <2>1. req[r].drop \subseteq Tokens
      BY <1>16, <1>2 DEF Request
    <2> QED
      BY <2>1, <1>16, <1>0, <1>2 DEF TypeOK, DropKeys, Finish, Idle, stores, faults, history
  <1>17. ASSUME NEW r \in Requests, ResetPassword(r) PROVE TypeOK'
    BY <1>17, <1>0, <1>2 DEF TypeOK, ResetPassword, Idle, stores, faults, history
  <1>18. ASSUME NEW r \in Requests, ResetTx(r) PROVE TypeOK'
    BY <1>18, <1>0, <1>2 DEF TypeOK, ResetTx, Goto, Finish, Idle, stores, faults, history
  <1>19. ASSUME NEW r \in Requests, BumpPg(r) PROVE TypeOK'
    <2>1. pgVer' \in Nat /\ rdVer' = rdVer
      BY <1>19, <1>2 DEF BumpPg, NextVersion
    <2> QED
      BY <2>1, <1>0, <1>1, <1>2, <1>19 DEF BumpPg, TypeOK, stores, faults, history
  <1>20. ASSUME NEW r \in Requests, Mirror(r) PROVE TypeOK'
    <2>1. pgVer' \in Nat /\ (rdVer' # None => rdVer' \in Nat)
      BY <1>20, <1>2 DEF Mirror, MirrorValue
    <2>2. mirrored' \in Version /\ redisOnly' \in BOOLEAN /\ apart' \in BOOLEAN
      BY <1>20, <1>2 DEF Mirror, TypeOK
    <2>3. dead' \subseteq Tokens
      BY <1>20, <1>2 DEF Mirror, TypeOK
    <2> QED
      <3>1. pgVer' \in Version /\ rdVer' \in Version \cup {None}
        BY <2>1, <1>1
      <3>2. UNCHANGED <<rows, keys, denied, linkUsed, issued, faults, current, missed>>
        BY <1>20 DEF Mirror
      <3> QED
        BY <3>1, <3>2, <2>2, <2>3, <1>0 DEF TypeOK, faults
  <1>21. ASSUME Outage PROVE TypeOK'
    BY <1>21, <1>0, <1>2 DEF TypeOK, Outage, stores, faults, history
  <1>22. ASSUME Recover PROVE TypeOK'
    BY <1>22, <1>0, <1>2 DEF TypeOK, Recover, stores, faults, history
  <1>23. ASSUME Evict PROVE TypeOK'
    BY <1>23, <1>0, <1>2 DEF TypeOK, Evict, stores, faults, history
  <1>24. ASSUME UNCHANGED vars PROVE TypeOK'
    BY <1>24, <1>0, <1>2 DEF TypeOK, vars, stores, faults, history
  <1> QED
    BY <1>3, <1>4, <1>5, <1>6, <1>7, <1>8, <1>9, <1>10, <1>11, <1>12, <1>13, <1>14, <1>15, <1>16, <1>17, <1>18, <1>19, <1>20, <1>21, <1>22, <1>23, <1>24 DEF Next, Environment, Signing, Revoking

\* A session is written down once: a new pair is taken from the unused ones and by one request only.
LEMMA TokensStep == ASSUME TypeOK, TokensOnce, [Next]_vars PROVE TokensOnce'
  <1> USE SessionsAssumption
  <1>0. req \in [Requests -> Request] /\ pgVer \in Nat /\ (rdVer # None => rdVer \in Nat) /\ issued \in [Tokens -> Version \cup {None}]
        /\ HandedOut \in SUBSET Tokens /\ \A t \in HandedOut : issued[t] \in Nat
    BY DEF TypeOK, Version, HandedOut
  <1>1. ASSUME NEW r \in Requests, Login(r) PROVE TokensOnce'
    <2>1. CASE req' = [req EXCEPT ![r] = [Idle EXCEPT !.op = "login", !.at = "stamp"]]
      BY <2>1, <1>1, <1>0 DEF Login, Idle, TokensOnce, HandedOut, Request, stores, faults, history
    <2>2. CASE UNCHANGED req
      BY <2>2, <1>1, <1>0 DEF Login, Idle, TokensOnce, HandedOut, Request, stores, faults, history
    <2> QED
      BY <2>1, <2>2, <1>1 DEF Login
  <1>2. ASSUME NEW r \in Requests, RefreshRead(r) PROVE TokensOnce'
    BY <1>2, <1>0 DEF RefreshRead, Idle, HandedOut, TokensOnce, Request, stores, faults, history
  <1>3. ASSUME NEW r \in Requests, RefreshCheck(r) PROVE TokensOnce'
    BY <1>3, <1>0 DEF RefreshCheck, Goto, Finish, Idle, TokensOnce, HandedOut, Request, stores, faults, history
  <1>4. ASSUME NEW r \in Requests, RefreshRotate(r) PROVE TokensOnce'
    BY <1>4, <1>0 DEF RefreshRotate, Rotated, Goto, TokensOnce, HandedOut, Request, stores, faults, history
  <1>5. ASSUME NEW r \in Requests, RefreshUnlist(r) PROVE TokensOnce'
    BY <1>5, <1>0 DEF RefreshUnlist, TokensOnce, HandedOut, Request, stores, faults, history
  <1>6. ASSUME NEW r \in Requests, Stamp(r) PROVE TokensOnce'
    BY <1>6, <1>0 DEF Stamp, TokensOnce, HandedOut, Request, stores, faults, history
  <1>7. ASSUME NEW r \in Requests, StoreRefresh(r) PROVE TokensOnce'
    BY <1>7, <1>0 DEF StoreRefresh, HandedOut, Finish, Idle, TokensOnce, Request, stores, faults, history
  <1>8. ASSUME NEW r \in Requests, RecordSession(r) PROVE TokensOnce'
    BY <1>8, <1>0 DEF RecordSession, Finish, Idle, TokensOnce, HandedOut, Request, stores, faults, history
  <1>9. ASSUME NEW r \in Requests, Logout(r) PROVE TokensOnce'
    BY <1>9, <1>0 DEF Logout, Idle, HandedOut, TokensOnce, Request, stores, faults, history
  <1>10. ASSUME NEW r \in Requests, RevokeToken(r) PROVE TokensOnce'
    BY <1>10, <1>0 DEF RevokeToken, TokensOnce, HandedOut, Request, stores, faults, history
  <1>11. ASSUME NEW r \in Requests, RevokeAll(r) PROVE TokensOnce'
    BY <1>11, <1>0, RevokeAllFrame DEF TokensOnce, HandedOut
  <1>12. ASSUME NEW r \in Requests, DropRows(r) PROVE TokensOnce'
    BY <1>12, <1>0, DropRowsFrame DEF TokensOnce, HandedOut
  <1>13. ASSUME NEW r \in Requests, RevokeSome(r) PROVE TokensOnce'
    BY <1>13, <1>0 DEF RevokeSome, Idle, TokensOnce, HandedOut, Request, stores, faults, history
  <1>14. ASSUME NEW r \in Requests, DropKeys(r) PROVE TokensOnce'
    BY <1>14, <1>0 DEF DropKeys, Finish, Idle, TokensOnce, HandedOut, Request, stores, faults, history
  <1>15. ASSUME NEW r \in Requests, ResetPassword(r) PROVE TokensOnce'
    BY <1>15, <1>0 DEF ResetPassword, Idle, TokensOnce, HandedOut, Request, stores, faults, history
  <1>16. ASSUME NEW r \in Requests, ResetTx(r) PROVE TokensOnce'
    BY <1>16, <1>0 DEF ResetTx, Goto, Finish, Idle, TokensOnce, HandedOut, Request, stores, faults, history
  <1>17. ASSUME NEW r \in Requests, BumpPg(r) PROVE TokensOnce'
    BY <1>17, <1>0 DEF BumpPg, NextVersion, TokensOnce, HandedOut, Request, stores, faults, history
  <1>18. ASSUME NEW r \in Requests, Mirror(r) PROVE TokensOnce'
    BY <1>18, <1>0 DEF Mirror, Confirms, Finish, Idle, TokensOnce, HandedOut, Request, stores, faults, history
  <1>19. ASSUME Outage PROVE TokensOnce'
    BY <1>19, <1>0 DEF TokensOnce, HandedOut, Outage, stores, faults, history
  <1>20. ASSUME Recover PROVE TokensOnce'
    BY <1>20, <1>0 DEF TokensOnce, HandedOut, Recover, stores, faults, history
  <1>21. ASSUME Evict PROVE TokensOnce'
    BY <1>21, <1>0 DEF TokensOnce, HandedOut, Evict, stores, faults, history
  <1>22. ASSUME UNCHANGED vars PROVE TokensOnce'
    BY <1>22, <1>0 DEF TokensOnce, HandedOut, vars, stores, faults, history
  <1> QED
    BY <1>1, <1>2, <1>3, <1>4, <1>5, <1>6, <1>7, <1>8, <1>9, <1>10, <1>11, <1>12, <1>13, <1>14, <1>15, <1>16, <1>17, <1>18, <1>19, <1>20, <1>21, <1>22 DEF Next, Environment, Signing, Revoking

\* The stamps stay at most the durable version, and below it once they were revoked.
LEMMA VersionsStep == ASSUME TypeOK, TokensOnce, VersionsOrdered, [Next]_vars PROVE VersionsOrdered'
  <1> USE SessionsAssumption
  <1>0. req \in [Requests -> Request] /\ pgVer \in Nat /\ (rdVer # None => rdVer \in Nat) /\ issued \in [Tokens -> Version \cup {None}]
        /\ HandedOut \in SUBSET Tokens /\ \A t \in HandedOut : issued[t] \in Nat
    BY DEF TypeOK, Version, HandedOut
  <1>1. ASSUME NEW r \in Requests, Login(r) PROVE VersionsOrdered'
    <2>1. CASE req' = [req EXCEPT ![r] = [Idle EXCEPT !.op = "login", !.at = "stamp"]]
      BY <2>1, <1>1, <1>0 DEF Login, Idle, VersionsOrdered, Carries, HandedOut, Request, stores, faults, history
    <2>2. CASE UNCHANGED req
      BY <2>2, <1>1, <1>0 DEF Login, Idle, VersionsOrdered, Carries, HandedOut, Request, stores, faults, history
    <2> QED
      BY <2>1, <2>2, <1>1 DEF Login
  <1>2. ASSUME NEW r \in Requests, RefreshRead(r) PROVE VersionsOrdered'
    BY <1>2, <1>0 DEF RefreshRead, Idle, HandedOut, VersionsOrdered, Carries, Request, stores, faults, history
  <1>3. ASSUME NEW r \in Requests, RefreshCheck(r) PROVE VersionsOrdered'
    BY <1>3, <1>0 DEF RefreshCheck, Goto, Finish, Idle, VersionsOrdered, Carries, HandedOut, Request, stores, faults, history
  <1>4. ASSUME NEW r \in Requests, RefreshRotate(r) PROVE VersionsOrdered'
    BY <1>4, <1>0 DEF RefreshRotate, Rotated, Goto, VersionsOrdered, Carries, HandedOut, Request, stores, faults, history
  <1>5. ASSUME NEW r \in Requests, RefreshUnlist(r) PROVE VersionsOrdered'
    BY <1>5, <1>0 DEF RefreshUnlist, VersionsOrdered, Carries, HandedOut, Request, stores, faults, history
  <1>6. ASSUME NEW r \in Requests, Stamp(r) PROVE VersionsOrdered'
    <2>1. CurrentPwVersion \in Nat /\ (~redisOnly => CurrentPwVersion <= pgVer)
      BY <1>0 DEF CurrentPwVersion, VersionsOrdered
    <2>2. /\ \A q \in Requests : q # r => req'[q] = req[q]
          /\ req'[r].at = "store" /\ req'[r].ver = CurrentPwVersion /\ req'[r].old = req[r].old
      BY <1>6, <1>0 DEF Stamp, Request
    <2> QED
      BY <2>1, <2>2, <1>6, <1>0 DEF Stamp, VersionsOrdered, Carries, HandedOut, stores, history
  <1>7. ASSUME NEW r \in Requests, StoreRefresh(r) PROVE VersionsOrdered'
    BY <1>7, <1>0 DEF StoreRefresh, HandedOut, Finish, Idle, VersionsOrdered, Carries, Request, stores, faults, history
  <1>8. ASSUME NEW r \in Requests, RecordSession(r) PROVE VersionsOrdered'
    <2>1. req[r].tok \in Tokens \ HandedOut /\ req[r].ver \in Nat
      BY <1>8, <1>0 DEF RecordSession, TokensOnce, HandedOut, Request, Version
    <2>2. /\ \A q \in Requests : q # r => req'[q] = req[q]
          /\ req'[r].at = "idle" /\ req'[r].old = {}
      BY <1>8, <1>0 DEF RecordSession, Finish, Idle
    <2>3. HandedOut' = HandedOut \cup {req[r].tok} /\ issued'[req[r].tok] = req[r].ver
          /\ \A t \in HandedOut : issued'[t] = issued[t]
      BY <1>8, <1>0, <2>1 DEF RecordSession, HandedOut
    <2>4. ~redisOnly => req[r].ver <= pgVer
      BY <1>8 DEF RecordSession, VersionsOrdered
    <2>5. UNCHANGED <<pgVer, rdVer, dead, mirrored, redisOnly>>
      BY <1>8 DEF RecordSession
    <2>6. \A q \in Requests : req'[q].old \subseteq HandedOut
      BY <2>2 DEF VersionsOrdered
    <2> QED
      BY <2>2, <2>3, <2>4, <2>5, <2>6, <1>0 DEF VersionsOrdered, Carries
  <1>9. ASSUME NEW r \in Requests, Logout(r) PROVE VersionsOrdered'
    BY <1>9, <1>0 DEF Logout, Idle, HandedOut, VersionsOrdered, Carries, Request, stores, faults, history
  <1>10. ASSUME NEW r \in Requests, RevokeToken(r) PROVE VersionsOrdered'
    BY <1>10, <1>0 DEF RevokeToken, VersionsOrdered, Carries, HandedOut, Request, stores, faults, history
  <1>11. ASSUME NEW r \in Requests, RevokeAll(r) PROVE VersionsOrdered'
    BY <1>11, <1>0, RevokeAllFrame DEF VersionsOrdered, Carries, HandedOut
  <1>12. ASSUME NEW r \in Requests, DropRows(r) PROVE VersionsOrdered'
    BY <1>12, <1>0, DropRowsFrame DEF VersionsOrdered, Carries, HandedOut
  <1>13. ASSUME NEW r \in Requests, RevokeSome(r) PROVE VersionsOrdered'
    BY <1>13, <1>0 DEF RevokeSome, Idle, VersionsOrdered, Carries, HandedOut, Request, stores, faults, history
  <1>14. ASSUME NEW r \in Requests, DropKeys(r) PROVE VersionsOrdered'
    BY <1>14, <1>0 DEF DropKeys, Finish, Idle, VersionsOrdered, Carries, HandedOut, Request, stores, faults, history
  <1>15. ASSUME NEW r \in Requests, ResetPassword(r) PROVE VersionsOrdered'
    BY <1>15, <1>0 DEF ResetPassword, Idle, VersionsOrdered, Carries, HandedOut, Request, stores, faults, history
  <1>16. ASSUME NEW r \in Requests, ResetTx(r) PROVE VersionsOrdered'
    BY <1>16, <1>0 DEF ResetTx, Goto, Finish, Idle, VersionsOrdered, Carries, HandedOut, Request, stores, faults, history
  <1>17. ASSUME NEW r \in Requests, BumpPg(r) PROVE VersionsOrdered'
    <2>1. \A q \in Requests : q # r => req'[q].at = req[q].at /\ req'[q].ver = req[q].ver /\ req'[q].old = req[q].old
      BY <1>17, <1>0 DEF BumpPg, Request
    <2>2. req'[r].at = "mirror" /\ req'[r].old = req[r].old /\ req'[r].ver = (IF Pg THEN pgVer + 1 ELSE 0) /\ pgVer' = (IF Pg THEN pgVer + 1 ELSE pgVer)
      BY <1>17, <1>0 DEF BumpPg, Request, NextVersion
    <2>3. UNCHANGED <<rdVer, dead, mirrored, redisOnly, issued>> /\ mirrored \in Nat /\ \A q \in Requests : req[q].ver \in Nat
      BY <1>17, <1>0 DEF BumpPg, TypeOK, Request, Version
    <2> QED
      BY <2>1, <2>2, <2>3, <1>0 DEF VersionsOrdered, Carries, HandedOut
  <1>18. ASSUME NEW r \in Requests, Mirror(r) PROVE VersionsOrdered'
    <2>1. /\ \A q \in Requests : q # r => req'[q] = req[q]
          /\ req'[r].at \in {"idle", "dropRows"} /\ req'[r].old \subseteq req[r].old
      BY <1>18, <1>0 DEF Mirror, Finish, Idle, Request
    <2>2. UNCHANGED <<pgVer, issued>> /\ req[r].at = "mirror" /\ req[r].ver \in Version /\ req[r].ver \in Nat /\ pgVer \in Version
      BY <1>18, <1>0 DEF Mirror, Request, Version, TypeOK
    <2>3. dead' \subseteq HandedOut
      BY <1>18 DEF Mirror, VersionsOrdered
    <2>4. ~redisOnly' => ~redisOnly /\ (Redis => req[r].ver > 0)
      <3>1. redisOnly' = (redisOnly \/ (Redis /\ req[r].ver = 0))
        BY <1>18 DEF Mirror
      <3>2. req[r].ver # 0 => req[r].ver > 0
        BY <2>2
      <3> QED
        BY <3>1, <3>2, Zenon
    <2>5. mirrored \in Nat /\ mirrored' = IF Redis /\ req[r].ver > mirrored THEN req[r].ver ELSE mirrored
      BY <1>18 DEF Mirror, TypeOK, Version
    <2>6. ASSUME ~Redis PROVE rdVer' = rdVer /\ dead' = dead
      BY <1>18, <2>6 DEF Mirror, MirrorValue, Confirms
    <2>7. ASSUME ~redisOnly' PROVE /\ rdVer' # None => rdVer' <= pgVer
                                  /\ mirrored' <= pgVer
                                  /\ \A t \in dead' : issued[t] < mirrored'
      <3>1. /\ rdVer # None => rdVer <= pgVer
            /\ mirrored <= pgVer
            /\ \A t \in dead : issued[t] < mirrored
            /\ req[r].ver > 0 => req[r].ver <= pgVer /\ \A t \in req[r].old : issued[t] < req[r].ver
            /\ \A t \in dead \cup req[r].old : issued[t] \in Nat
        BY <2>4, <2>7, <2>2, <1>0 DEF VersionsOrdered, Carries
      <3>2. CASE ~Redis
        BY <3>1, <3>2, <2>5, <2>6
      <3>3. CASE Redis
        <4>1. rdVer' = req[r].ver /\ req[r].ver > 0 /\ req[r].ver <= mirrored' /\ mirrored <= mirrored'
          BY <3>3, <2>2, <2>4, <2>5, <2>7, <1>18 DEF Mirror, MirrorValue
        <4>2. dead' \subseteq dead \cup req[r].old
          BY <1>18 DEF Mirror
        <4>3. mirrored' \in Nat /\ mirrored' <= pgVer
          BY <3>1, <3>3, <2>2, <2>5
        <4> QED
          BY <4>1, <4>2, <4>3, <3>1, <2>2, <2>5
      <3> QED
        BY <3>2, <3>3
    <2> QED
      BY <2>1, <2>2, <2>3, <2>4, <2>7, <1>0 DEF VersionsOrdered, Carries, HandedOut
  <1>19. ASSUME Outage PROVE VersionsOrdered'
    BY <1>19, <1>0 DEF VersionsOrdered, Carries, HandedOut, Outage, stores, faults, history
  <1>20. ASSUME Recover PROVE VersionsOrdered'
    BY <1>20, <1>0 DEF VersionsOrdered, Carries, HandedOut, Recover, stores, faults, history
  <1>21. ASSUME Evict PROVE VersionsOrdered'
    BY <1>21, <1>0 DEF VersionsOrdered, Carries, HandedOut, Evict, stores, faults, history
  <1>22. ASSUME UNCHANGED vars PROVE VersionsOrdered'
    BY <1>22, <1>0 DEF VersionsOrdered, Carries, HandedOut, vars, stores, faults, history
  <1> QED
    BY <1>1, <1>2, <1>3, <1>4, <1>5, <1>6, <1>7, <1>8, <1>9, <1>10, <1>11, <1>12, <1>13, <1>14, <1>15, <1>16, <1>17, <1>18, <1>19, <1>20, <1>21, <1>22 DEF Next, Environment, Signing, Revoking

\* Between two bumps both stores keep the number new sessions are stamped with.
LEMMA InStepStep == ASSUME TypeOK, TokensOnce, VersionsOrdered, InStep, [Next]_vars PROVE InStep'
  <1> USE SessionsAssumption
  <1>0. req \in [Requests -> Request] /\ pgVer \in Nat /\ (rdVer # None => rdVer \in Nat) /\ issued \in [Tokens -> Version \cup {None}]
        /\ HandedOut \in SUBSET Tokens /\ \A t \in HandedOut : issued[t] \in Nat
    BY DEF TypeOK, Version, HandedOut
  <1>1. ASSUME NEW r \in Requests, Login(r) PROVE InStep'
    <2>1. CASE req' = [req EXCEPT ![r] = [Idle EXCEPT !.op = "login", !.at = "stamp"]]
      BY <2>1, <1>1, <1>0 DEF Login, Idle, InStep, Bumping, HandedOut, Request, stores, faults, history
    <2>2. CASE UNCHANGED req
      BY <2>2, <1>1, <1>0 DEF Login, Idle, InStep, Bumping, HandedOut, Request, stores, faults, history
    <2> QED
      BY <2>1, <2>2, <1>1 DEF Login
  <1>2. ASSUME NEW r \in Requests, RefreshRead(r) PROVE InStep'
    BY <1>2, <1>0 DEF RefreshRead, Idle, HandedOut, InStep, Bumping, Request, stores, faults, history
  <1>3. ASSUME NEW r \in Requests, RefreshCheck(r) PROVE InStep'
    BY <1>3, <1>0 DEF RefreshCheck, Goto, Finish, Idle, InStep, Bumping, HandedOut, Request, stores, faults, history
  <1>4. ASSUME NEW r \in Requests, RefreshRotate(r) PROVE InStep'
    BY <1>4, <1>0 DEF RefreshRotate, Rotated, Goto, InStep, Bumping, HandedOut, Request, stores, faults, history
  <1>5. ASSUME NEW r \in Requests, RefreshUnlist(r) PROVE InStep'
    <2>1. /\ \A q \in Requests : q # r => req'[q] = req[q]
          /\ req[r].at = "unlist" /\ req'[r].at = "stamp"
      BY <1>5, <1>0 DEF RefreshUnlist, Request
    <2>2. UNCHANGED <<pgVer, rdVer, issued, current, apart>>
      BY <1>5 DEF RefreshUnlist, history
    <2> QED
      BY <2>1, <2>2 DEF InStep, Bumping, HandedOut
  <1>6. ASSUME NEW r \in Requests, Stamp(r) PROVE InStep'
    <2>1. /\ \A q \in Requests : q # r => req'[q] = req[q]
          /\ req[r].at = "stamp" /\ req'[r].at = "store" /\ req'[r].ver = CurrentPwVersion /\ req'[r].clean = (~Bumping /\ Readable)
      BY <1>6, <1>0 DEF Stamp, Request
    <2>2. ~apart /\ ~Bumping /\ Readable => CurrentPwVersion = pgVer
      BY <1>0 DEF Readable, CurrentPwVersion, Pg, Redis, InStep
    <2>3. (Bumping' <=> Bumping) /\ UNCHANGED <<pgVer, rdVer, issued, current, apart>>
      BY <2>1, <1>6 DEF Bumping, Stamp, stores, history
    <2> QED
      BY <2>1, <2>2, <2>3 DEF InStep, HandedOut
  <1>7. ASSUME NEW r \in Requests, StoreRefresh(r) PROVE InStep'
    BY <1>7, <1>0 DEF StoreRefresh, HandedOut, Finish, Idle, InStep, Bumping, Request, stores, faults, history
  <1>8. ASSUME NEW r \in Requests, RecordSession(r) PROVE InStep'
    <2>1. req[r].at = "record" /\ req[r].tok \in Tokens \ HandedOut /\ req[r].ver \in Nat /\ req[r].clean \in BOOLEAN
      BY <1>8, <1>0 DEF RecordSession, TokensOnce, HandedOut, Request, Version
    <2>2. (\A q \in Requests : q # r => req'[q] = req[q]) /\ req'[r].at = "idle"
      BY <1>8, <1>0 DEF RecordSession, Finish, Idle
    <2>3. HandedOut' = HandedOut \cup {req[r].tok} /\ issued'[req[r].tok] = req[r].ver
          /\ \A t \in HandedOut : issued'[t] = issued[t]
      BY <1>8, <1>0, <2>1 DEF RecordSession, HandedOut
    <2>4. (Bumping' <=> Bumping) /\ UNCHANGED <<pgVer, rdVer, apart>>
      BY <2>1, <2>2, <1>8 DEF Bumping, RecordSession
    <2>5. CASE ~req[r].clean
      <3>1. current' = current
        BY <2>5, <1>8 DEF RecordSession
      <3> QED
        BY <3>1, <2>2, <2>3, <2>4 DEF InStep
    <2>6. CASE req[r].clean
      <3>1. current' = current \cup {req[r].tok} /\ ~Bumping /\ (~apart => req[r].ver = pgVer)
        BY <2>6, <2>1, <1>8 DEF RecordSession, InStep
      <3> QED
        BY <3>1, <2>2, <2>3, <2>4 DEF InStep
    <2> QED
      BY <2>5, <2>6
  <1>9. ASSUME NEW r \in Requests, Logout(r) PROVE InStep'
    BY <1>9, <1>0 DEF Logout, Idle, HandedOut, InStep, Bumping, Request, stores, faults, history
  <1>10. ASSUME NEW r \in Requests, RevokeToken(r) PROVE InStep'
    BY <1>10, <1>0 DEF RevokeToken, InStep, Bumping, HandedOut, Request, stores, faults, history
  <1>11. ASSUME NEW r \in Requests, RevokeAll(r) PROVE InStep'
    BY <1>11, <1>0, RevokeAllFrame DEF InStep, Bumping, HandedOut
  <1>12. ASSUME NEW r \in Requests, DropRows(r) PROVE InStep'
    BY <1>12, <1>0, DropRowsFrame DEF InStep, Bumping, HandedOut
  <1>13. ASSUME NEW r \in Requests, RevokeSome(r) PROVE InStep'
    BY <1>13, <1>0 DEF RevokeSome, Idle, InStep, Bumping, HandedOut, Request, stores, faults, history
  <1>14. ASSUME NEW r \in Requests, DropKeys(r) PROVE InStep'
    BY <1>14, <1>0 DEF DropKeys, Finish, Idle, InStep, Bumping, HandedOut, Request, stores, faults, history
  <1>15. ASSUME NEW r \in Requests, ResetPassword(r) PROVE InStep'
    BY <1>15, <1>0 DEF ResetPassword, Idle, InStep, Bumping, HandedOut, Request, stores, faults, history
  <1>16. ASSUME NEW r \in Requests, ResetTx(r) PROVE InStep'
    BY <1>16, <1>0 DEF ResetTx, Goto, Finish, Idle, InStep, Bumping, HandedOut, Request, stores, faults, history
  <1>17. ASSUME NEW r \in Requests, BumpPg(r) PROVE InStep'
    BY <1>17, <1>0 DEF BumpPg, NextVersion, InStep, Bumping, HandedOut, Request, stores, faults, history
  <1>18. ASSUME NEW r \in Requests, Mirror(r) PROVE InStep'
    <2>1. (\A q \in Requests : q # r => req'[q] = req[q]) /\ req'[r].at \in {"idle", "dropRows"} /\ Bumping
      BY <1>18, <1>0 DEF Mirror, Finish, Idle, Request, Bumping
    <2>2. UNCHANGED <<pgVer, issued, current>> /\ req[r].ver \in Version /\ pgVer \in Version
      BY <1>18, <1>0 DEF Mirror, Request, TypeOK
    <2>3. ~apart' => rdVer' \in {None, pgVer}
      BY <1>18 DEF Mirror
    <2>4. current = {} /\ \A q \in Requests : ~(req[q].at \in {"store", "record"} /\ req[q].clean)
      BY <2>1 DEF InStep
    <2> QED
      BY <2>1, <2>2, <2>3, <2>4 DEF InStep, HandedOut
  <1>19. ASSUME Outage PROVE InStep'
    BY <1>19, <1>0 DEF InStep, Bumping, HandedOut, Outage, stores, faults, history
  <1>20. ASSUME Recover PROVE InStep'
    BY <1>20, <1>0 DEF InStep, Bumping, HandedOut, Recover, stores, faults, history
  <1>21. ASSUME Evict PROVE InStep'
    BY <1>21, <1>0 DEF InStep, Bumping, HandedOut, Evict, stores, faults, history
  <1>22. ASSUME UNCHANGED vars PROVE InStep'
    BY <1>22, <1>0 DEF InStep, Bumping, HandedOut, vars, stores, faults, history
  <1> QED
    BY <1>1, <1>2, <1>3, <1>4, <1>5, <1>6, <1>7, <1>8, <1>9, <1>10, <1>11, <1>12, <1>13, <1>14, <1>15, <1>16, <1>17, <1>18, <1>19, <1>20, <1>21, <1>22 DEF Next, Environment, Signing, Revoking

\* A key loses its row only while the request that drops both is running.
LEMMA KeysStep == ASSUME TypeOK, TokensOnce, KeysListed, [Next]_vars PROVE KeysListed'
  <1> USE SessionsAssumption
  <1>0. req \in [Requests -> Request] /\ pgVer \in Nat /\ (rdVer # None => rdVer \in Nat) /\ issued \in [Tokens -> Version \cup {None}]
        /\ HandedOut \in SUBSET Tokens /\ \A t \in HandedOut : issued[t] \in Nat
    BY DEF TypeOK, Version, HandedOut
  <1>1. ASSUME NEW r \in Requests, Login(r) PROVE KeysListed'
    <2>1. CASE req' = [req EXCEPT ![r] = [Idle EXCEPT !.op = "login", !.at = "stamp"]]
      BY <2>1, <1>1, <1>0 DEF Login, Idle, KeysListed, EveryKeyIsListed, TokensOnce, HandedOut, Request, stores, faults, history
    <2>2. CASE UNCHANGED req
      BY <2>2, <1>1, <1>0 DEF Login, Idle, KeysListed, EveryKeyIsListed, TokensOnce, HandedOut, Request, stores, faults, history
    <2> QED
      BY <2>1, <2>2, <1>1 DEF Login
  <1>2. ASSUME NEW r \in Requests, RefreshRead(r) PROVE KeysListed'
    BY <1>2, <1>0 DEF RefreshRead, Idle, HandedOut, KeysListed, EveryKeyIsListed, TokensOnce, Request, stores, faults, history
  <1>3. ASSUME NEW r \in Requests, RefreshCheck(r) PROVE KeysListed'
    BY <1>3, <1>0 DEF RefreshCheck, Goto, Finish, Idle, KeysListed, EveryKeyIsListed, TokensOnce, HandedOut, Request, stores, faults, history
  <1>4. ASSUME NEW r \in Requests, RefreshRotate(r) PROVE KeysListed'
    <2>1. /\ \A q \in Requests : q # r => req'[q] = req[q]
          /\ req[r].at = "rotate" /\ req'[r].at = "unlist" /\ req'[r].tok = req[r].tok
      BY <1>4, <1>0 DEF RefreshRotate, Goto, Request
    <2>2. /\ keys' \subseteq keys /\ rows' = rows /\ missed \subseteq missed'
          /\ req[r].tok \notin keys' \/ req[r].tok \in missed'
      BY <1>4 DEF RefreshRotate, Rotated
    <2> QED
      BY <2>1, <2>2 DEF KeysListed, EveryKeyIsListed
  <1>5. ASSUME NEW r \in Requests, RefreshUnlist(r) PROVE KeysListed'
    BY <1>5, <1>0 DEF RefreshUnlist, KeysListed, EveryKeyIsListed, TokensOnce, HandedOut, Request, stores, faults, history
  <1>6. ASSUME NEW r \in Requests, Stamp(r) PROVE KeysListed'
    BY <1>6, <1>0 DEF Stamp, KeysListed, EveryKeyIsListed, TokensOnce, HandedOut, Request, stores, faults, history
  <1>7. ASSUME NEW r \in Requests, StoreRefresh(r) PROVE KeysListed'
    BY <1>7, <1>0 DEF StoreRefresh, HandedOut, Finish, Idle, KeysListed, EveryKeyIsListed, TokensOnce, Request, stores, faults, history
  <1>8. ASSUME NEW r \in Requests, RecordSession(r) PROVE KeysListed'
    BY <1>8, <1>0 DEF RecordSession, Finish, Idle, KeysListed, EveryKeyIsListed, TokensOnce, HandedOut, Request, stores, faults, history
  <1>9. ASSUME NEW r \in Requests, Logout(r) PROVE KeysListed'
    BY <1>9, <1>0 DEF Logout, Idle, HandedOut, KeysListed, EveryKeyIsListed, TokensOnce, Request, stores, faults, history
  <1>10. ASSUME NEW r \in Requests, RevokeToken(r) PROVE KeysListed'
    BY <1>10, <1>0 DEF RevokeToken, KeysListed, EveryKeyIsListed, TokensOnce, HandedOut, Request, stores, faults, history
  <1>11. ASSUME NEW r \in Requests, RevokeAll(r) PROVE KeysListed'
    BY <1>11, <1>0, RevokeAllFrame DEF KeysListed, EveryKeyIsListed, TokensOnce, HandedOut
  <1>12. ASSUME NEW r \in Requests, DropRows(r) PROVE KeysListed'
    BY <1>12, <1>0, DropRowsFrame DEF KeysListed, EveryKeyIsListed, TokensOnce, HandedOut
  <1>13. ASSUME NEW r \in Requests, RevokeSome(r) PROVE KeysListed'
    BY <1>13, <1>0 DEF RevokeSome, Idle, KeysListed, EveryKeyIsListed, TokensOnce, HandedOut, Request, stores, faults, history
  <1>14. ASSUME NEW r \in Requests, DropKeys(r) PROVE KeysListed'
    <2>1. /\ \A q \in Requests : q # r => req'[q] = req[q]
          /\ req[r].at = "dropKeys" /\ req'[r].at \in {"bump", "idle"}
      BY <1>14, <1>0 DEF DropKeys, Finish, Idle, Request
    <2>2. /\ keys' \subseteq keys /\ rows' = rows /\ missed \subseteq missed'
          /\ \A t \in req[r].drop : t \notin keys' \/ t \in missed'
      BY <1>14 DEF DropKeys
    <2> QED
      BY <2>1, <2>2 DEF KeysListed, EveryKeyIsListed
  <1>15. ASSUME NEW r \in Requests, ResetPassword(r) PROVE KeysListed'
    BY <1>15, <1>0 DEF ResetPassword, Idle, KeysListed, EveryKeyIsListed, TokensOnce, HandedOut, Request, stores, faults, history
  <1>16. ASSUME NEW r \in Requests, ResetTx(r) PROVE KeysListed'
    BY <1>16, <1>0 DEF ResetTx, Goto, Finish, Idle, KeysListed, EveryKeyIsListed, TokensOnce, HandedOut, Request, stores, faults, history
  <1>17. ASSUME NEW r \in Requests, BumpPg(r) PROVE KeysListed'
    BY <1>17, <1>0 DEF BumpPg, NextVersion, KeysListed, EveryKeyIsListed, TokensOnce, HandedOut, Request, stores, faults, history
  <1>18. ASSUME NEW r \in Requests, Mirror(r) PROVE KeysListed'
    BY <1>18, <1>0 DEF Mirror, Confirms, Finish, Idle, KeysListed, EveryKeyIsListed, TokensOnce, HandedOut, Request, stores, faults, history
  <1>19. ASSUME Outage PROVE KeysListed'
    BY <1>19, <1>0 DEF KeysListed, EveryKeyIsListed, TokensOnce, HandedOut, Outage, stores, faults, history
  <1>20. ASSUME Recover PROVE KeysListed'
    BY <1>20, <1>0 DEF KeysListed, EveryKeyIsListed, TokensOnce, HandedOut, Recover, stores, faults, history
  <1>21. ASSUME Evict PROVE KeysListed'
    BY <1>21, <1>0 DEF KeysListed, EveryKeyIsListed, TokensOnce, HandedOut, Evict, stores, faults, history
  <1>22. ASSUME UNCHANGED vars PROVE KeysListed'
    BY <1>22, <1>0 DEF KeysListed, EveryKeyIsListed, TokensOnce, HandedOut, vars, stores, faults, history
  <1> QED
    BY <1>1, <1>2, <1>3, <1>4, <1>5, <1>6, <1>7, <1>8, <1>9, <1>10, <1>11, <1>12, <1>13, <1>14, <1>15, <1>16, <1>17, <1>18, <1>19, <1>20, <1>21, <1>22 DEF Next, Environment, Signing, Revoking

-----------------------------------------------------------------------------
(* The theorems.                                                           *)

\* The invariant holds of the initial state ...
LEMMA InvInit == Init => SessionInv
  <1> SUFFICES ASSUME Init PROVE SessionInv
    OBVIOUS
  <1> USE SessionsAssumption
  <1>1. TypeOK
    <2>1. req \in [Requests -> Request] /\ issued \in [Tokens -> Version \cup {None}]
      BY IdleType DEF Init
    <2>2. denied \in [{"pg", "redis"} -> SUBSET Tokens]
      BY DEF Init
    <2>3. 0 \in Version /\ 0 \in 0..MaxOutages /\ 0 \in 0..MaxEvictions
      BY DEF Version
    <2>4. up = {"pg", "redis"} /\ linkUsed = FALSE /\ pgVer = 0 /\ rdVer = None /\ rows = {} /\ keys = {}
          /\ outages = 0 /\ evictions = 0 /\ dead = {} /\ current = {}
          /\ mirrored = 0 /\ redisOnly = FALSE /\ apart = FALSE /\ missed = {}
      BY DEF Init
    <2> QED
      BY <2>1, <2>2, <2>3, <2>4 DEF TypeOK
  <1>2. Left = {} /\ HandedOut = {} /\ ~Bumping
    BY DEF Init, Idle, Left, HandedOut, Bumping
  <1>3. RoomKept
    BY <1>2, FS_EmptySet DEF RoomKept, Init
  <1>4. TokensOnce
    BY <1>2 DEF TokensOnce, Init, Idle
  <1>5. VersionsOrdered
    BY <1>2 DEF VersionsOrdered, Carries, Init, Idle
  <1>6. InStep
    BY <1>2 DEF InStep, Init, Idle
  <1>7. KeysListed
    BY DEF KeysListed, EveryKeyIsListed, Init, Idle
  <1> QED
    BY <1>1, <1>3, <1>4, <1>5, <1>6, <1>7 DEF SessionInv

\* ... and is kept by every step, so it holds throughout.
LEMMA InvHolds == Spec => []SessionInv
  <1>1. SessionInv /\ [Next]_vars => SessionInv'
    BY TypeStep, RoomStep, TokensStep, VersionsStep, InStepStep, KeysStep DEF SessionInv
  <1> QED
    BY InvInit, <1>1, PTL DEF Spec

\* Every reachable state is well typed, whatever the stores do.
THEOREM SessionsTypeCorrect == Spec => []TypeOK
  <1>1. SessionInv => TypeOK
    BY DEF SessionInv
  <1> QED
    BY InvHolds, <1>1, PTL

\* bumpPwVersionWith: as long as no bump was taken by Redis alone, PostgreSQL's number
\* separates the sessions a confirmed revocation ended from those that came later, however
\* the mirrors are reordered, lost or evicted.
THEOREM RevocationsAreDurable == Spec => []RevocationIsDurable
  <1>1. ASSUME SessionInv, ~redisOnly, NEW t \in dead PROVE issued[t] < pgVer
    <2>1. issued[t] < mirrored /\ mirrored <= pgVer
      BY <1>1 DEF SessionInv, VersionsOrdered
    <2>2. issued[t] \in Nat /\ mirrored \in Nat /\ pgVer \in Nat
      BY <1>1, SessionsAssumption DEF SessionInv, VersionsOrdered, TypeOK, Version, HandedOut
    <2> QED
      BY <2>1, <2>2
  <1>2. SessionInv => RevocationIsDurable
    BY <1>1 DEF RevocationIsDurable
  <1> QED
    BY InvHolds, <1>2, PTL

\* RevokeAllSessions, Logout: a session a confirmed revocation found is turned away on every
\* later request, through any number of outages, evictions and bumps, unless Redis answers
\* with an overtaken mirror or a bump was taken by Redis alone.
THEOREM RevokedSessionsStayRejected == Spec => []RevokedStaysRejected
  <1>1. ASSUME SessionInv PROVE RevokedStaysRejected
    <2>1. SUFFICES ASSUME ~redisOnly, Readable, ~Overtaken, NEW t \in dead PROVE ~CheckPwVersion(t)
      BY DEF RevokedStaysRejected, Accepts
    <2>2. issued[t] \in Nat /\ pgVer \in Nat /\ mirrored \in Nat /\ (rdVer # None => rdVer \in Nat)
      BY <1>1, <2>1, SessionsAssumption DEF SessionInv, VersionsOrdered, TypeOK, Version, HandedOut
    <2>3. issued[t] < mirrored /\ mirrored <= pgVer
      BY <1>1, <2>1 DEF SessionInv, VersionsOrdered
    <2> QED
      BY <2>1, <2>2, <2>3 DEF Readable, Overtaken, CheckPwVersion
  <1> QED
    BY InvHolds, <1>1, PTL

\* currentPwVersion, checkPwVersion: a session signed in while no bump was in flight is not
\* turned away before the next bump, if the last mirror left one number in both stores.
THEOREM SignInsAreHonoured == Spec => []SignInIsHonoured
  <1>1. ASSUME SessionInv PROVE SignInIsHonoured
    <2>1. SUFFICES ASSUME ~apart, NEW t \in current, Readable PROVE CheckPwVersion(t)
      BY DEF SignInIsHonoured
    <2>2. issued[t] = pgVer /\ (rdVer = None \/ rdVer = pgVer)
      BY <1>1, <2>1 DEF SessionInv, InStep
    <2> QED
      BY <2>1, <2>2 DEF Readable, CheckPwVersion
  <1> QED
    BY InvHolds, <1>1, PTL

\* issueTokenPair, RevokeAllSessions: no session can be renewed that the list does not show,
\* but one a store failed to list or to unlist.
THEOREM KeysAreListed == Spec => []EveryKeyIsListed
  <1>1. SessionInv => EveryKeyIsListed
    BY DEF SessionInv, KeysListed
  <1> QED
    BY InvHolds, <1>1, PTL

=============================================================================
