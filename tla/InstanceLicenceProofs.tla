----------------------- MODULE InstanceLicenceProofs -----------------------
(* Proofs about InstanceLicence, for every number of replicas,             *)
(* organisations and requests, every cache lifetime and every set of keys. *)
EXTENDS InstanceLicence, TLAPS

-----------------------------------------------------------------------------
(* How old a licence can be.                                               *)

\* At time t or later, lic was what parse() made of the row of organisation o.  A row
\* without a key is no row.
Knows(lic, o, t) ==
    /\ lic.key \in Wallet
    /\ lic.key = db[o] \/ (leftAt[o][lic.key] # Never /\ leftAt[o][lic.key] >= t)
    /\ lic.expired \/ lic.key.exp = Never \/ lic.key.exp >= t

\* No request outlives its timeout.
RequestsEnd == \A p \in Procs : ~At(p, "idle") => proc[p].from <= now /\ now <= proc[p].from + ReqLife

\* A licence just read from the row was right when its request began or later; what that
\* request cached was right at most ReqLife before it was cached; what another request
\* found there, at most TTL before that.
RowsKnown == \A p \in Procs : At(p, "fill") => Knows(proc[p].lic, proc[p].org, proc[p].from)
CacheKnown ==
    \A o \in Orgs : \A e \in cache[o] :
        e.at <= now /\ now <= e.at + TTL /\ Knows(e.lic, o, e.at - ReqLife)
GatedKnown ==
    \A p \in Procs : Gated(p) => Knows(proc[p].lic, proc[p].org, proc[p].from - TTL - ReqLife)

FreshnessInv ==
    /\ RequestsEnd
    /\ RowsKnown
    /\ CacheKnown
    /\ GatedKnown

-----------------------------------------------------------------------------
(* Types.                                                                  *)

\* What parse() answers is a licence.
LEMMA ParseType == \A key \in Keys : Parse(key) \in Licence
  BY DEF Parse, Past, Licence

\* So is the licence of an installation without a key.
LEMMA CommunityType == Community \in Licence
  BY DEF Community, Licence, Keys

\* A request that has not begun is well typed.
LEMMA IdleRequestType ==
    /\ \A n \in Nodes, o \in Orgs : IdleRequest(n, o) \in Request
    /\ AnyRequest \in Request
  <1>1. \A n \in Nodes, o \in Orgs : IdleRequest(n, o) \in Request
    BY CommunityType DEF IdleRequest, Request
  <1>2. (CHOOSE n \in Nodes : TRUE) \in Nodes /\ (CHOOSE o \in Orgs : TRUE) \in Orgs
    BY LicenceAssumption
  <1> QED
    BY <1>1, <1>2 DEF AnyRequest

\* A refresher between two checks is well typed.
LEMMA IdleRefresherType == IdleRefresher \in Refresher
  BY DEF IdleRefresher, Refresher, Keys

\* What a process starts with is a licence.
LEMMA AdoptedType ==
  ASSUME env \in Keys, db \in [Orgs -> Keys], recent \in Orgs \cup {"none"}
  PROVE  \A answers \in BOOLEAN : Adopted(answers) \in Licence
  <1>1. recent # "none" => db[recent] \in Keys
    OBVIOUS
  <1> QED
    BY <1>1, ParseType DEF Adopted

\* The installation starts well typed.
LEMMA InitType == Init => TypeOK
  <1> SUFFICES ASSUME Init PROVE TypeOK
    OBVIOUS
  <1>1. env \in Keys /\ db \in [Orgs -> Keys] /\ recent \in Orgs \cup {"none"} /\ srv \in Keys
    BY KeyAssumption DEF Init, Keys
  <1>2. inst \in [Nodes -> Licence]
    BY <1>1, AdoptedType DEF Init
  <1>3. refr \in [Nodes -> Refresher] /\ proc \in [Procs -> Request]
    BY IdleRefresherType, IdleRequestType DEF Init
  <1>4. now \in 0..MaxTick /\ crashes \in 0..MaxCrashes
    BY LicenceAssumption DEF Init
  <1>5. cache \in [Orgs -> SUBSET Entry] /\ failing \in [Nodes -> BOOLEAN]
    BY DEF Init
  <1>6. leftAt \in [Orgs -> [Wallet -> Nat \cup {Never}]]
    BY DEF Init
  <1> QED
    BY <1>1, <1>2, <1>3, <1>4, <1>5, <1>6 DEF TypeOK

\* The history stays well typed when a row is written.
LEMMA ReplacedType ==
  ASSUME TypeOK, NEW o, NEW key, Replaced(o, key)
  PROVE  leftAt' \in [Orgs -> [Wallet -> Nat \cup {Never}]]
  <1> DEFINE noted == [k \in Wallet |-> IF k = key THEN Never ELSE IF k = db[o] THEN now ELSE leftAt[o][k]]
  <1>1. leftAt \in [Orgs -> [Wallet -> Nat \cup {Never}]] /\ now \in Nat
    BY LicenceAssumption DEF TypeOK
  <1>2. leftAt' = [leftAt EXCEPT ![o] = noted]
    BY DEF Replaced
  <1>3. o \in Orgs => noted \in [Wallet -> Nat \cup {Never}]
    BY <1>1
  <1> HIDE DEF noted
  <1> QED
    BY <1>1, <1>2, <1>3

\* A request's record stays well typed when it moves on.
LEMMA RequestEdits ==
  ASSUME TypeOK, NEW p \in Procs
  PROVE  /\ proc[p] \in Request
         /\ \A r \in Request : [proc EXCEPT ![p] = r] \in [Procs -> Request]
         /\ Goes(p, "act_set") \/ Goes(p, "act_evict") => proc' \in [Procs -> Request]
         /\ \A lic \in Licence, src \in {"row", "inst"} :
               Served(p, lic, src) => proc' \in [Procs -> Request]
  <1>1. proc[p] \in Request /\ \A r \in Request : [proc EXCEPT ![p] = r] \in [Procs -> Request]
    BY DEF TypeOK
  <1>2. /\ [proc[p] EXCEPT !.pc = "act_set"] \in Request
        /\ [proc[p] EXCEPT !.pc = "act_evict"] \in Request
    BY <1>1 DEF Request
  <1>3. ASSUME NEW lic \in Licence, NEW src \in {"row", "inst"}
        PROVE  [proc[p] EXCEPT !.pc = "next", !.lic = lic, !.src = src] \in Request
    BY <1>1 DEF Request
  <1>4. Goes(p, "act_set") \/ Goes(p, "act_evict") => proc' \in [Procs -> Request]
    BY <1>1, <1>2 DEF Goes
  <1>5. ASSUME NEW lic \in Licence, NEW src \in {"row", "inst"}, Served(p, lic, src)
        PROVE  proc' \in [Procs -> Request]
    BY <1>1, <1>3, <1>5 DEF Served
  <1> QED
    BY <1>1, <1>4, <1>5

\* A refresher's record stays well typed when it moves on.
LEMMA RefresherEdits ==
  ASSUME TypeOK, NEW n \in Nodes
  PROVE  /\ refr[n] \in Refresher
         /\ \A r \in Refresher : Refreshes(n, r) => refr' \in [Nodes -> Refresher]
         /\ Rests(n) => refr' \in [Nodes -> Refresher]
  <1>1. refr[n] \in Refresher
    BY DEF TypeOK
  <1>2. [IdleRefresher EXCEPT !.org = refr[n].org] \in Refresher
    BY <1>1, IdleRefresherType DEF Refresher
  <1> QED
    BY <1>1, <1>2 DEF TypeOK, Refreshes, Rests

\* Every step of every request, refresher and of the environment keeps the types.
LEMMA TypeStep == TypeOK /\ [Next]_vars => TypeOK'
  <1> SUFFICES ASSUME TypeOK, [Next]_vars PROVE TypeOK'
    OBVIOUS
  <1>0. now \in Nat
    BY LicenceAssumption DEF TypeOK
  <1> USE DEF TypeOK
  <1>1. ASSUME NEW p \in Procs, NEW n \in Nodes, NEW o \in Orgs, NEW answers \in BOOLEAN,
               CacheLookup(p, n, o, answers)
        PROVE  TypeOK'
    <2>1. [[IdleRequest(n, o) EXCEPT !.from = now] EXCEPT !.pc = "row"] \in Request
      BY <1>0, IdleRequestType DEF Request
    <2>2. ASSUME NEW e \in cache[o]
          PROVE  [[IdleRequest(n, o) EXCEPT !.from = now] EXCEPT
                               !.pc = "next", !.lic = e.lic, !.src = "row"] \in Request
      <3>1. e.lic \in Licence
        BY DEF Entry
      <3> QED
        BY <1>0, <3>1, IdleRequestType DEF Request
    <2>3. proc' \in [Procs -> Request]
      <3>1. \E r \in Request : proc' = [proc EXCEPT ![p] = r]
        BY <1>1, <2>1, <2>2 DEF CacheLookup
      <3> QED
        BY <3>1
    <2> QED
      BY <1>1, <2>3 DEF CacheLookup
  <1>2. ASSUME NEW p \in Procs, NEW n \in Nodes, NEW o \in Orgs, NEW key \in Wallet,
               Activate(p, n, o, key)
        PROVE  TypeOK'
    <2>1. Parse(key) \in Licence
      BY ParseType DEF Keys
    <2>2. [IdleRequest(n, o) EXCEPT !.pc = "act_row", !.lic = Parse(key), !.from = now] \in Request
      BY <1>0, <2>1, IdleRequestType DEF Request
    <2> QED
      BY <1>2, <2>2 DEF Activate
  <1>3. ASSUME NEW p \in Procs, NEW ok \in BOOLEAN, QueryRow(p, ok) PROVE TypeOK'
    <2>1. proc[p] \in Request /\ proc[p].org \in Orgs /\ proc[p].node \in Nodes
      BY DEF Request
    <2>2. Parse(db[proc[p].org]) \in Licence
      BY <2>1, ParseType
    <2>3. [proc EXCEPT ![p].pc = "fill", ![p].lic = Parse(db[proc[p].org])] \in [Procs -> Request]
      BY <2>1, <2>2 DEF Request
    <2>4. proc' \in [Procs -> Request]
      BY <1>3, <2>1, <2>3, RequestEdits DEF QueryRow
    <2> QED
      BY <1>3, <2>4 DEF QueryRow
  <1>4. ASSUME NEW p \in Procs, NEW ok \in BOOLEAN, FillCache(p, ok) PROVE TypeOK'
    <2>1. proc[p] \in Request /\ proc[p].lic \in Licence
      BY DEF Request
    <2>2. [lic |-> Cached(proc[p].lic), at |-> now] \in Entry
      BY <2>1, LicenceAssumption DEF Entry, Cached
    <2>3. cache' \in [Orgs -> SUBSET Entry]
      BY <1>4, <2>2 DEF FillCache
    <2>4. proc' \in [Procs -> Request]
      BY <1>4, <2>1, RequestEdits DEF FillCache
    <2> QED
      BY <1>4, <2>3, <2>4 DEF FillCache
  <1>5. ASSUME NEW p \in Procs, Finish(p) PROVE TypeOK'
    BY <1>5, IdleRequestType DEF Finish
  <1>6. ASSUME NEW p \in Procs, NEW ok \in BOOLEAN, ActivateRow(p, ok) PROVE TypeOK'
    <2>1. proc[p].org \in Orgs /\ proc[p].lic.key \in Keys
      BY DEF Request, Licence
    <2>2. proc' \in [Procs -> Request]
      BY <1>6, RequestEdits, IdleRequestType DEF ActivateRow
    <2>3. db' \in [Orgs -> Keys] /\ recent' \in Orgs \cup {"none"} /\ leftAt' \in [Orgs -> [Wallet -> Nat \cup {Never}]]
      BY <1>6, <2>1, ReplacedType DEF ActivateRow, TypeOK
    <2> QED
      BY <1>6, <2>2, <2>3 DEF ActivateRow
  <1>7. ASSUME NEW p \in Procs, ActivateSet(p) PROVE TypeOK'
    <2>1. proc[p].lic \in Licence
      BY DEF Request
    <2>2. proc' \in [Procs -> Request]
      BY <1>7, RequestEdits DEF ActivateSet
    <2> QED
      BY <1>7, <2>1, <2>2 DEF ActivateSet
  <1>8. ASSUME NEW p \in Procs, NEW ok \in BOOLEAN, ActivateEvict(p, ok) PROVE TypeOK'
    BY <1>8, IdleRequestType DEF ActivateEvict
  <1>9. ASSUME NEW n \in Nodes, Check(n) PROVE TypeOK'
    <2>1. [refr[n] EXCEPT !.pc = "token"] \in Refresher
      BY DEF Refresher
    <2> QED
      BY <1>9, <2>1, RefresherEdits DEF Check, Checked
  <1>10. ASSUME NEW n \in Nodes, Fetch(n) PROVE TypeOK'
    <2>1. [refr[n] EXCEPT !.pc = "compare", !.key = srv, !.expired = Past(srv)] \in Refresher
      BY DEF Refresher, Past
    <2> QED
      BY <1>10, <2>1, RefresherEdits DEF Fetch
  <1>11. ASSUME NEW n \in Nodes, FetchFails(n) PROVE TypeOK'
    BY <1>11, RefresherEdits DEF FetchFails
  <1>12. ASSUME NEW n \in Nodes, Compare(n) PROVE TypeOK'
    <2>1. [refr[n] EXCEPT !.pc = "set"] \in Refresher
      BY DEF Refresher
    <2> QED
      BY <1>12, <2>1, RefresherEdits DEF Compare
  <1>13. ASSUME NEW n \in Nodes, RefreshSet(n) PROVE TypeOK'
    <2>1. [refr[n] EXCEPT !.pc = "org"] \in Refresher
      BY DEF Refresher
    <2>2. [key |-> refr[n].key, expired |-> refr[n].expired] \in Licence
      BY DEF Refresher, Licence
    <2>3. inst' \in [Nodes -> Licence]
      BY <1>13, <2>2 DEF RefreshSet
    <2> QED
      BY <1>13, <2>1, <2>3, RefresherEdits DEF RefreshSet
  <1>14. ASSUME NEW n \in Nodes, NEW ok \in BOOLEAN, RefreshOrg(n, ok) PROVE TypeOK'
    <2> DEFINE org == IF refr[n].org = "none" /\ ok THEN recent ELSE refr[n].org
    <2>1. org \in Orgs \cup {"none"}
      BY DEF Refresher
    <2> HIDE DEF org
    <2>2. \A o \in Orgs \cup {"none"}, at \in {"evict", "update"} :
             [refr[n] EXCEPT !.org = o, !.pc = at] \in Refresher
      BY DEF Refresher
    <2> DEFINE pc == IF org = "none" THEN "evict" ELSE "update"
    <2>3. pc \in {"evict", "update"}
      OBVIOUS
    <2>4. Refreshes(n, [refr[n] EXCEPT !.org = org, !.pc = pc])
      BY <1>14 DEF RefreshOrg, org
    <2> HIDE DEF pc
    <2>5. [refr[n] EXCEPT !.org = org, !.pc = pc] \in Refresher
      BY <2>1, <2>2, <2>3
    <2> QED
      BY <1>14, <2>4, <2>5, RefresherEdits DEF RefreshOrg
  <1>15. ASSUME NEW n \in Nodes, NEW ok \in BOOLEAN, RefreshUpdate(n, ok) PROVE TypeOK'
    <2>1. refr[n].org \in Orgs \cup {"none"} /\ refr[n].key \in Keys
      BY DEF Refresher
    <2>2. [refr[n] EXCEPT !.pc = "evict"] \in Refresher
      BY DEF Refresher
    <2>3. db' \in [Orgs -> Keys] /\ recent' \in Orgs \cup {"none"} /\ leftAt' \in [Orgs -> [Wallet -> Nat \cup {Never}]]
      BY <1>15, <2>1, ReplacedType DEF RefreshUpdate, TypeOK
    <2> QED
      BY <1>15, <2>2, <2>3, RefresherEdits DEF RefreshUpdate
  <1>16. ASSUME NEW n \in Nodes, NEW kept \in SUBSET Orgs, RefreshEvict(n, kept) PROVE TypeOK'
    BY <1>16, RefresherEdits DEF RefreshEvict
  <1>17. ASSUME NEW n \in Nodes, NEW answers \in BOOLEAN, Restart(n, answers) PROVE TypeOK'
    <2>1. Adopted(answers) \in Licence
      BY AdoptedType
    <2>2. crashes' \in 0..MaxCrashes
      BY <1>17, LicenceAssumption DEF Restart
    <2>3. proc' \in [Procs -> Request]
      BY <1>17, IdleRequestType DEF Restart
    <2> QED
      BY <1>17, <2>1, <2>2, <2>3, IdleRefresherType DEF Restart
  <1>18. ASSUME NEW key \in Keys, ServerAnswers(key) PROVE TypeOK'
    BY <1>18 DEF ServerAnswers
  <1>19. CASE Tick
    <2>1. now' \in 0..MaxTick
      BY <1>19, LicenceAssumption DEF Tick
    <2>2. cache' \in [Orgs -> SUBSET Entry]
      BY <1>19 DEF Tick
    <2>3. leftAt' \in [Orgs -> [Wallet -> Nat \cup {Never}]]
      <3>1. \A o \in Orgs : leftAt[o] \in [Wallet -> Nat \cup {Never}]
        OBVIOUS
      <3> QED
        BY <1>19, <3>1 DEF Tick, Forgets
    <2> QED
      BY <1>19, <2>1, <2>2, <2>3 DEF Tick
  <1>20. CASE UNCHANGED vars
    BY <1>20 DEF vars
  <1>21. \A p \in Readers \cup Admins : p \in Procs
    BY DEF Procs
  <1>22. CASE \E n \in Nodes, o \in Orgs :
                 \/ \E p \in Readers, answers \in BOOLEAN : CacheLookup(p, n, o, answers)
                 \/ \E p \in Admins, key \in Wallet : Activate(p, n, o, key)
    BY <1>1, <1>2, <1>21, <1>22
  <1>23. CASE \E p \in Procs, ok \in BOOLEAN :
                 QueryRow(p, ok) \/ FillCache(p, ok) \/ ActivateRow(p, ok) \/ ActivateEvict(p, ok)
    BY <1>3, <1>4, <1>6, <1>8, <1>23
  <1>24. CASE \E p \in Procs : Finish(p) \/ ActivateSet(p)
    BY <1>5, <1>7, <1>24
  <1>25. ASSUME NEW n \in Nodes, Token(n) PROVE TypeOK'
    <2>1. [refr[n] EXCEPT !.pc = "fetch"] \in Refresher
      BY DEF Refresher
    <2> QED
      BY <1>25, <2>1, RefresherEdits DEF Token
  <1>26. CASE \E n \in Nodes : Check(n) \/ Fetch(n) \/ RefreshStep(n)
    BY <1>9, <1>10, <1>11, <1>12, <1>13, <1>14, <1>15, <1>16, <1>25, <1>26 DEF RefreshStep
  <1> QED
    BY <1>17, <1>18, <1>19, <1>20, <1>22, <1>23, <1>24, <1>26 DEF Next

\* Every state of the installation is well typed.
THEOREM LicenceTypeCorrect == Spec => []TypeOK
  BY InitType, TypeStep, PTL DEF Spec

-----------------------------------------------------------------------------
(* Freshness.                                                              *)

\* A licence known to be right at some time was right at every earlier one.
LEMMA KnowsEarlier ==
  ASSUME TypeOK, NEW lic \in Licence, NEW o \in Orgs, NEW t \in Int, NEW u \in Int, u <= t,
         Knows(lic, o, t)
  PROVE  Knows(lic, o, u)
  <1>1. lic.key.exp \in Int /\ leftAt[o][lic.key] \in Int
    BY KeyAssumption, LicenceAssumption DEF TypeOK, Licence, Keys, Key, NoKey, Never, Knows
  <1> QED
    BY <1>1 DEF Knows

\* parse() of the row is right now.
LEMMA ParsedKnown ==
  ASSUME TypeOK, NEW o \in Orgs, db[o] # NoKey, NEW t \in Int, t <= now
  PROVE  Knows(Parse(db[o]), o, t)
  <1>1. db[o].exp \in Int /\ now \in Int
    BY KeyAssumption, LicenceAssumption DEF TypeOK, Keys, Key, NoKey, Never
  <1>2. Parse(db[o]).key = db[o] /\ Parse(db[o]).expired = Past(db[o]) /\ db[o] \in Wallet
    BY DEF Parse, TypeOK, Keys
  <1>3. CASE Past(db[o])
    BY <1>2, <1>3 DEF Knows
  <1>4. CASE ~Past(db[o])
    <2>1. db[o].exp = Never \/ db[o].exp >= t
      BY <1>1, <1>4 DEF Past
    <2> QED
      BY <1>2, <2>1 DEF Knows
  <1> QED
    BY <1>3, <1>4

\* The clock is a natural number, and so are the times requests and entries remember.
LEMMA Times ==
  ASSUME TypeOK
  PROVE  /\ now \in Nat /\ TTL \in Nat /\ ReqLife \in Nat
         /\ \A p \in Procs : proc[p].from \in Nat /\ proc[p].lic \in Licence /\ proc[p].org \in Orgs
         /\ \A o \in Orgs, k \in Wallet : leftAt[o][k] \in Int
         /\ \A o \in Orgs : \A e \in cache[o] : e.at \in Nat /\ e.lic \in Licence
  BY LicenceAssumption DEF TypeOK, Request, Entry, Never

\* Every key of the wallet is one the row of o holds now, or its leaving is noted.
RowMoves(o) == \A k \in Wallet : k = db'[o] \/ leftAt'[o][k] = IF k = db[o] THEN now ELSE leftAt[o][k]

\* A write of a row notes the key it replaces.
LEMMA RowWritten ==
  ASSUME TypeOK, NEW o \in Orgs, NEW key, db' = [db EXCEPT ![o] = key], Replaced(o, key)
  PROVE  \A q \in Orgs : RowMoves(q)
  BY DEF TypeOK, Replaced, RowMoves

\* Rows that are not written note nothing.
LEMMA RowsRest ==
  ASSUME UNCHANGED <<db, leftAt>>
  PROVE  \A q \in Orgs : RowMoves(q)
  BY DEF RowMoves

\* A write takes nothing from what was known.
LEMMA StillKnown ==
  ASSUME TypeOK, NEW lic, NEW o \in Orgs, NEW t \in Int, t <= now, Knows(lic, o, t), RowMoves(o)
  PROVE  Knows(lic, o, t)'
  <1>1. CASE lic.key = db'[o]
    BY <1>1 DEF Knows
  <1>2. CASE lic.key # db'[o] /\ lic.key = db[o]
    <2>1. leftAt'[o][lic.key] = now
      BY <1>2 DEF RowMoves, Knows
    <2> QED
      BY <2>1, Times DEF Knows, Never
  <1>3. CASE lic.key # db'[o] /\ lic.key # db[o]
    BY <1>3 DEF RowMoves, Knows
  <1> QED
    BY <1>1, <1>2, <1>3

\* The clock moves on: what was known StaleBound before it or later stays known.
LEMMA KnownAfterTick ==
  ASSUME TypeOK, Tick, NEW lic, NEW o \in Orgs, NEW t \in Int, t + StaleBound >= now + 1, Knows(lic, o, t)
  PROVE  Knows(lic, o, t)'
  <1>1. CASE lic.key = db[o]
    BY <1>1 DEF Knows, Tick
  <1>2. CASE lic.key # db[o]
    <2>1. /\ lic.key \in Wallet /\ leftAt[o][lic.key] \in Int
          /\ leftAt[o][lic.key] # Never /\ leftAt[o][lic.key] >= t
      BY <1>2, Times DEF Knows
    <2>2. StaleBound \in Nat /\ now \in Nat
      BY Times DEF StaleBound
    <2>3. ~(now + 1 > leftAt[o][lic.key] + StaleBound)
      BY <2>1, <2>2
    <2>4. leftAt'[o][lic.key] = leftAt[o][lic.key]
      BY <2>1, <2>3 DEF Tick, Forgets
    <2> QED
      BY <2>1, <2>4 DEF Knows, Tick
  <1> QED
    BY <1>1, <1>2

\* A step that changes no row but where it notes the time, starts no request and caches
\* nothing keeps what is known.
LEMMA KeepsFreshness ==
  ASSUME TypeOK, FreshnessInv, UNCHANGED now,
         \A o \in Orgs : RowMoves(o),
         \A o \in Orgs : \A e \in cache'[o] : e \in cache[o],
         \A p \in Procs : \/ proc'[p] = proc[p]
                          \/ proc'[p].pc = "idle"
                          \/ /\ proc'[p].pc \in {"act_set", "act_evict"} /\ ~At(p, "idle")
                             /\ proc'[p].from = proc[p].from
  PROVE  FreshnessInv'
  <1>1. RequestsEnd'
    <2> SUFFICES ASSUME NEW p \in Procs, proc'[p].pc # "idle"
                 PROVE  proc'[p].from <= now' /\ now' <= proc'[p].from + ReqLife
      BY DEF RequestsEnd, At
    <2>1. proc[p].pc # "idle" /\ proc'[p].from = proc[p].from
      BY DEF At
    <2> QED
      BY <2>1 DEF FreshnessInv, RequestsEnd, At
  <1>2. ASSUME NEW p \in Procs, At(p, "fill")' PROVE Knows(proc[p].lic, proc[p].org, proc[p].from)'
    <2>1. proc'[p] = proc[p] /\ At(p, "fill")
      BY <1>2 DEF At
    <2>2. Knows(proc[p].lic, proc[p].org, proc[p].from) /\ proc[p].from <= now
      BY <2>1 DEF FreshnessInv, RowsKnown, RequestsEnd, At
    <2> QED
      BY <2>1, <2>2, Times, StillKnown DEF Knows
  <1>3. ASSUME NEW p \in Procs, Gated(p)'
        PROVE  Knows(proc[p].lic, proc[p].org, proc[p].from - TTL - ReqLife)'
    <2>1. proc'[p] = proc[p] /\ Gated(p)
      BY <1>3 DEF Gated, At
    <2>2. Knows(proc[p].lic, proc[p].org, proc[p].from - TTL - ReqLife) /\ proc[p].from <= now
      BY <2>1 DEF FreshnessInv, GatedKnown, RequestsEnd, Gated, At
    <2>3. proc[p].from - TTL - ReqLife \in Int /\ proc[p].from - TTL - ReqLife <= now /\ proc[p].org \in Orgs
      BY <2>2, Times
    <2> QED
      BY <2>1, <2>2, <2>3, Times, StillKnown DEF Knows
  <1>4. ASSUME NEW o \in Orgs, NEW e \in cache'[o]
        PROVE  e.at <= now' /\ now' <= e.at + TTL /\ Knows(e.lic, o, e.at - ReqLife)'
    <2>1. e \in cache[o]
      BY <1>4
    <2>2. e.at <= now /\ now <= e.at + TTL /\ Knows(e.lic, o, e.at - ReqLife)
      BY <2>1 DEF FreshnessInv, CacheKnown
    <2>3. e.at - ReqLife \in Int /\ e.at - ReqLife <= now
      BY <2>1, <2>2, Times
    <2> QED
      BY <2>2, <2>3, StillKnown DEF Knows
  <1> QED
    BY <1>1, <1>2, <1>3, <1>4 DEF FreshnessInv, RowsKnown, GatedKnown, CacheKnown

\* An installation that just started knows nothing yet.
LEMMA InitFreshness == Init => FreshnessInv
  <1> SUFFICES ASSUME Init PROVE FreshnessInv
    OBVIOUS
  <1>1. \A p \in Procs : proc[p].pc = "idle"
    BY DEF Init, AnyRequest, IdleRequest
  <1> QED
    BY <1>1 DEF Init, FreshnessInv, RequestsEnd, RowsKnown, CacheKnown, GatedKnown, Gated, At

\* A step of one request that changes neither rows nor the cache.
LEMMA RequestFreshness ==
  ASSUME TypeOK, FreshnessInv, NEW p \in Procs, NEW r, proc' = [proc EXCEPT ![p] = r],
         UNCHANGED <<now, db, leftAt, cache>>,
         r.from <= now, now <= r.from + ReqLife,
         r.pc = "fill" => Knows(r.lic, r.org, r.from),
         r.pc = "next" /\ r.src = "row" => Knows(r.lic, r.org, r.from - TTL - ReqLife)
  PROVE  FreshnessInv'
  <1>1. proc'[p] = r /\ \A q \in Procs : q # p => proc'[q] = proc[q]
    BY DEF TypeOK
  <1>2. RequestsEnd'
    BY <1>1 DEF FreshnessInv, RequestsEnd, At
  <1>3. RowsKnown'
    <2> SUFFICES ASSUME NEW q \in Procs, proc'[q].pc = "fill"
                 PROVE  Knows(proc[q].lic, proc[q].org, proc[q].from)'
      BY DEF RowsKnown, At
    <2>1. CASE q = p
      BY <1>1, <2>1 DEF Knows
    <2>2. CASE q # p
      BY <1>1, <2>2 DEF FreshnessInv, RowsKnown, At, Knows
    <2> QED
      BY <2>1, <2>2
  <1>4. GatedKnown'
    <2> SUFFICES ASSUME NEW q \in Procs, proc'[q].pc = "next", proc'[q].src = "row"
                 PROVE  Knows(proc[q].lic, proc[q].org, proc[q].from - TTL - ReqLife)'
      BY DEF GatedKnown, Gated, At
    <2>1. CASE q = p
      BY <1>1, <2>1 DEF Knows
    <2>2. CASE q # p
      BY <1>1, <2>2 DEF FreshnessInv, GatedKnown, Gated, At, Knows
    <2> QED
      BY <2>1, <2>2
  <1>5. CacheKnown'
    BY DEF FreshnessInv, CacheKnown, Knows
  <1> QED
    BY <1>2, <1>3, <1>4, <1>5 DEF FreshnessInv

\* Every step of every request, refresher and of the environment keeps it.
LEMMA FreshnessStep == TypeOK /\ FreshnessInv /\ [Next]_vars => FreshnessInv'
  <1> SUFFICES ASSUME TypeOK, FreshnessInv, [Next]_vars PROVE FreshnessInv'
    OBVIOUS
  <1>0. /\ now \in Nat /\ TTL \in Nat /\ ReqLife \in Nat
        /\ \A q \in Procs : /\ proc[q] \in Request /\ proc[q].from \in Nat
                            /\ proc[q].lic \in Licence /\ proc[q].org \in Orgs
        /\ \A o \in Orgs, k \in Wallet : leftAt[o][k] \in Int
        /\ \A o \in Orgs : \A e \in cache[o] : e.at \in Nat /\ e.lic \in Licence
    BY Times DEF TypeOK
  <1>1. ASSUME NEW p \in Procs, NEW n \in Nodes, NEW o \in Orgs, NEW answers \in BOOLEAN,
               CacheLookup(p, n, o, answers)
        PROVE  FreshnessInv'
    <2> DEFINE r == [IdleRequest(n, o) EXCEPT !.from = now]
    <2>0. UNCHANGED <<now, db, leftAt, cache>>
      BY <1>1 DEF CacheLookup
    <2>1. CASE proc' = [proc EXCEPT ![p] = [r EXCEPT !.pc = "row"]]
      <3> DEFINE s == [r EXCEPT !.pc = "row"]
      <3>1. s.pc = "row" /\ s.from = now
        BY DEF IdleRequest
      <3>2. now <= s.from + ReqLife /\ s.from <= now
        BY <1>0, <3>1
      <3>3. proc' = [proc EXCEPT ![p] = s]
        BY <2>1
      <3> HIDE DEF s
      <3>4. s.pc # "fill" /\ s.pc # "next"
        BY <3>1
      <3> QED
        BY <2>0, <3>2, <3>3, <3>4, RequestFreshness
    <2>2. ASSUME NEW e \in cache[o],
                 proc' = [proc EXCEPT ![p] = [r EXCEPT !.pc = "next", !.lic = e.lic, !.src = "row"]]
          PROVE  FreshnessInv'
      <3> DEFINE s == [r EXCEPT !.pc = "next", !.lic = e.lic, !.src = "row"]
      <3>1. s.pc = "next" /\ s.from = now /\ s.lic = e.lic /\ s.org = o
        BY DEF IdleRequest
      <3>2. now <= e.at + TTL /\ Knows(e.lic, o, e.at - ReqLife)
        BY DEF FreshnessInv, CacheKnown
      <3>3. /\ e.at - ReqLife \in Int /\ now - TTL - ReqLife \in Int
            /\ now - TTL - ReqLife <= e.at - ReqLife
        BY <1>0, <3>2
      <3>4. Knows(e.lic, o, now - TTL - ReqLife)
        BY <1>0, <3>2, <3>3, KnowsEarlier
      <3>5. proc' = [proc EXCEPT ![p] = s]
        BY <2>2
      <3>6. now <= s.from + ReqLife /\ s.from <= now
        BY <1>0, <3>1
      <3> HIDE DEF s
      <3>7. Knows(s.lic, s.org, s.from - TTL - ReqLife)
        BY <3>1, <3>4
      <3>8. s.pc # "fill"
        BY <3>1
      <3> QED
        BY <2>0, <3>5, <3>6, <3>7, <3>8, RequestFreshness
    <2> QED
      BY <1>1, <2>1, <2>2 DEF CacheLookup
  <1>2. ASSUME NEW p \in Procs, NEW n \in Nodes, NEW o \in Orgs, NEW key \in Wallet,
               Activate(p, n, o, key)
        PROVE  FreshnessInv'
    <2> DEFINE r == [IdleRequest(n, o) EXCEPT !.pc = "act_row", !.lic = Parse(key), !.from = now]
    <2>1. r.pc = "act_row" /\ r.from = now
      BY DEF IdleRequest
    <2>2. proc' = [proc EXCEPT ![p] = r]
      BY <1>2 DEF Activate
    <2>3. UNCHANGED <<now, db, leftAt, cache>>
      BY <1>2 DEF Activate
    <2>4. r.from <= now /\ now <= r.from + ReqLife
      BY <1>0, <2>1
    <2> HIDE DEF r
    <2> QED
      BY <2>1, <2>2, <2>3, <2>4, RequestFreshness
  <1>3. ASSUME NEW p \in Procs, NEW ok \in BOOLEAN, QueryRow(p, ok) PROVE FreshnessInv'
    <2>1. proc[p].from <= now /\ now <= proc[p].from + ReqLife
      BY <1>3 DEF QueryRow, FreshnessInv, RequestsEnd, At
    <2>2. CASE Served(p, inst[proc[p].node], "inst")
      <3> DEFINE r == [proc[p] EXCEPT !.pc = "next", !.lic = inst[proc[p].node], !.src = "inst"]
      <3>1. proc' = [proc EXCEPT ![p] = r]
        BY <2>2 DEF Served, TypeOK
      <3>2. r.pc = "next" /\ r.src = "inst" /\ r.from = proc[p].from
        BY <1>0 DEF Request
      <3> HIDE DEF r
      <3> QED
        BY <1>3, <2>1, <3>1, <3>2, RequestFreshness DEF QueryRow
    <2>3. CASE /\ proc' = [proc EXCEPT ![p].pc = "fill", ![p].lic = Parse(db[proc[p].org])]
               /\ db[proc[p].org] # NoKey
      <3> DEFINE r == [proc[p] EXCEPT !.pc = "fill", !.lic = Parse(db[proc[p].org])]
      <3>1. proc' = [proc EXCEPT ![p] = r]
        BY <2>3 DEF TypeOK
      <3>2. /\ r.pc = "fill" /\ r.from = proc[p].from /\ r.org = proc[p].org
            /\ r.lic = Parse(db[proc[p].org])
        BY <1>0 DEF Request
      <3>3. Knows(Parse(db[proc[p].org]), proc[p].org, proc[p].from)
        BY <1>0, <2>1, <2>3, ParsedKnown
      <3> HIDE DEF r
      <3> QED
        BY <1>3, <2>1, <3>1, <3>2, <3>3, RequestFreshness DEF QueryRow
    <2> QED
      BY <1>3, <2>2, <2>3 DEF QueryRow
  <1>4. ASSUME NEW p \in Procs, NEW ok \in BOOLEAN, FillCache(p, ok) PROVE FreshnessInv'
    <2>1. /\ proc[p].from <= now /\ now <= proc[p].from + ReqLife
          /\ Knows(proc[p].lic, proc[p].org, proc[p].from)
      BY <1>4 DEF FillCache, FreshnessInv, RequestsEnd, RowsKnown, At
    <2> DEFINE r == [proc[p] EXCEPT !.pc = "next", !.lic = proc[p].lic, !.src = "row"]
    <2>2. /\ proc' = [proc EXCEPT ![p] = r]
          /\ r.pc = "next" /\ r.from = proc[p].from /\ r.org = proc[p].org /\ r.lic = proc[p].lic
      BY <1>0, <1>4 DEF FillCache, Served, TypeOK, Request
    <2>3. proc[p].from - TTL - ReqLife \in Int /\ proc[p].from - TTL - ReqLife <= proc[p].from
      BY <1>0
    <2>4. Knows(proc[p].lic, proc[p].org, proc[p].from - TTL - ReqLife)
      BY <1>0, <2>1, <2>3, KnowsEarlier
    <2>5. now - ReqLife \in Int /\ now - ReqLife <= proc[p].from
      BY <1>0, <2>1
    <2>6. Knows(proc[p].lic, proc[p].org, now - ReqLife)
      BY <1>0, <2>1, <2>5, KnowsEarlier
    <2> HIDE DEF r
    <2>7. RequestsEnd' /\ RowsKnown' /\ GatedKnown'
      <3>1. proc'[p] = r /\ \A q \in Procs : q # p => proc'[q] = proc[q]
        BY <2>2 DEF TypeOK
      <3>2. RequestsEnd'
        BY <1>4, <2>1, <2>2, <3>1 DEF FillCache, FreshnessInv, RequestsEnd, At
      <3>3. RowsKnown'
        BY <1>4, <2>2, <3>1 DEF FillCache, FreshnessInv, RowsKnown, At, Knows
      <3>4. ASSUME NEW q \in Procs, proc'[q].pc = "next", proc'[q].src = "row"
            PROVE  Knows(proc[q].lic, proc[q].org, proc[q].from - TTL - ReqLife)'
        <4>1. CASE q = p
          BY <1>4, <2>2, <2>4, <3>1, <4>1 DEF FillCache, Knows
        <4>2. CASE q # p
          BY <1>4, <3>1, <3>4, <4>2 DEF FillCache, FreshnessInv, GatedKnown, Gated, At, Knows
        <4> QED
          BY <4>1, <4>2
      <3> QED
        BY <3>2, <3>3, <3>4 DEF GatedKnown, Gated, At
    <2>8. ASSUME NEW o \in Orgs, NEW e \in cache'[o]
          PROVE  e.at <= now' /\ now' <= e.at + TTL /\ Knows(e.lic, o, e.at - ReqLife)'
      <3>1. CASE e \in cache[o]
        BY <1>4, <3>1 DEF FillCache, FreshnessInv, CacheKnown, Knows
      <3>2. CASE o = proc[p].org /\ e = [lic |-> proc[p].lic, at |-> now]
        BY <1>0, <1>4, <2>6, <3>2 DEF FillCache, Knows
      <3> QED
        BY <1>4, <2>8, <3>1, <3>2 DEF FillCache, Cached, TypeOK
    <2> QED
      BY <1>4, <2>7, <2>8 DEF FillCache, FreshnessInv, CacheKnown
  <1>5. ASSUME NEW p \in Procs, Finish(p) PROVE FreshnessInv'
    <2>1. AnyRequest.pc = "idle"
      BY DEF AnyRequest, IdleRequest
    <2> QED
      BY <1>5, <2>1, RowsRest, KeepsFreshness DEF Finish, TypeOK
  <1>6. ASSUME NEW p \in Procs, NEW ok \in BOOLEAN, ActivateRow(p, ok) PROVE FreshnessInv'
    <2>1. AnyRequest.pc = "idle"
      BY DEF AnyRequest, IdleRequest
    <2>2. \A o \in Orgs : RowMoves(o)
      BY <1>0, <1>6, RowWritten, RowsRest DEF ActivateRow
    <2>3. \A q \in Procs : \/ proc'[q] = proc[q]
                           \/ proc'[q].pc = "idle"
                           \/ /\ proc'[q].pc \in {"act_set", "act_evict"} /\ ~At(q, "idle")
                              /\ proc'[q].from = proc[q].from
      BY <1>0, <1>6, <2>1 DEF ActivateRow, Goes, At, TypeOK, Request
    <2> QED
      BY <1>6, <2>2, <2>3, KeepsFreshness DEF ActivateRow
  <1>7. ASSUME NEW p \in Procs, ActivateSet(p) PROVE FreshnessInv'
    <2>1. \A q \in Procs : \/ proc'[q] = proc[q]
                           \/ /\ proc'[q].pc \in {"act_set", "act_evict"} /\ ~At(q, "idle")
                              /\ proc'[q].from = proc[q].from
      BY <1>0, <1>7 DEF ActivateSet, Goes, At, TypeOK, Request
    <2> QED
      BY <1>7, <2>1, RowsRest, KeepsFreshness DEF ActivateSet
  <1>8. ASSUME NEW p \in Procs, NEW ok \in BOOLEAN, ActivateEvict(p, ok) PROVE FreshnessInv'
    <2>1. AnyRequest.pc = "idle"
      BY DEF AnyRequest, IdleRequest
    <2>2. \A q \in Procs : proc'[q] = proc[q] \/ proc'[q].pc = "idle"
      BY <1>8, <2>1 DEF ActivateEvict, TypeOK
    <2>3. \A o \in Orgs : \A e \in cache'[o] : e \in cache[o]
      BY <1>8 DEF ActivateEvict, TypeOK
    <2> QED
      BY <1>8, <2>2, <2>3, RowsRest, KeepsFreshness DEF ActivateEvict
  <1>9. ASSUME NEW n \in Nodes,
               Check(n) \/ Token(n) \/ Fetch(n) \/ FetchFails(n) \/ Compare(n) \/ RefreshSet(n)
               \/ \E ok \in BOOLEAN : RefreshOrg(n, ok)
        PROVE  FreshnessInv'
    <2>1. UNCHANGED <<now, db, leftAt, cache, proc>>
      BY <1>9 DEF Check, Token, Fetch, FetchFails, Compare, RefreshSet, RefreshOrg
    <2> QED
      BY <2>1, RowsRest, KeepsFreshness
  <1>10. ASSUME NEW n \in Nodes, NEW ok \in BOOLEAN, RefreshUpdate(n, ok) PROVE FreshnessInv'
    <2>1. \A o \in Orgs : RowMoves(o)
      <3>1. CASE ok
        <4>1. /\ db' = [db EXCEPT ![refr[n].org] = refr[n].key]
              /\ Replaced(refr[n].org, refr[n].key)
          BY <1>10, <3>1 DEF RefreshUpdate
        <4>2. CASE refr[n].org \notin Orgs
          <5>1. db' = db
            BY <4>1, <4>2 DEF TypeOK
          <5>2. leftAt' = leftAt
            BY <4>1, <4>2 DEF TypeOK, Replaced
          <5> QED
            BY <5>1, <5>2, RowsRest
        <4> QED
          BY <4>1, <4>2, RowWritten
      <3>2. CASE ~ok
        BY <1>10, <3>2, RowsRest DEF RefreshUpdate
      <3> QED
        BY <3>1, <3>2
    <2> QED
      BY <1>10, <2>1, KeepsFreshness DEF RefreshUpdate
  <1>11. ASSUME NEW n \in Nodes, NEW kept \in SUBSET Orgs, RefreshEvict(n, kept) PROVE FreshnessInv'
    <2>1. \A o \in Orgs : \A e \in cache'[o] : e \in cache[o]
      BY <1>11 DEF RefreshEvict
    <2> QED
      BY <1>11, <2>1, RowsRest, KeepsFreshness DEF RefreshEvict
  <1>12. ASSUME NEW n \in Nodes, NEW answers \in BOOLEAN, Restart(n, answers) PROVE FreshnessInv'
    <2>1. AnyRequest.pc = "idle"
      BY DEF AnyRequest, IdleRequest
    <2>2. \A q \in Procs : proc'[q] = proc[q] \/ proc'[q].pc = "idle"
      BY <1>12, <2>1 DEF Restart
    <2> QED
      BY <1>12, <2>2, RowsRest, KeepsFreshness DEF Restart
  <1>13. ASSUME NEW key \in Keys, ServerAnswers(key) PROVE FreshnessInv'
    BY <1>13, RowsRest, KeepsFreshness DEF ServerAnswers
  <1>14. CASE Tick
    <2>1. now' = now + 1 /\ UNCHANGED <<db, proc>>
      BY <1>14 DEF Tick
    <2>2. RequestsEnd'
      BY <1>0, <1>14, <2>1 DEF Tick, FreshnessInv, RequestsEnd, At
    <2>3. ASSUME NEW p \in Procs, At(p, "fill")
          PROVE  Knows(proc[p].lic, proc[p].org, proc[p].from)'
      <3>1. now + 1 <= proc[p].from + ReqLife /\ Knows(proc[p].lic, proc[p].org, proc[p].from)
        BY <1>0, <1>14, <2>3 DEF Tick, FreshnessInv, RowsKnown, At
      <3>2. proc[p].from + StaleBound >= now + 1
        BY <1>0, <3>1 DEF StaleBound
      <3> QED
        BY <1>0, <1>14, <2>1, <3>1, <3>2, KnownAfterTick DEF Knows
    <2>6. ASSUME NEW p \in Procs, Gated(p)
          PROVE  Knows(proc[p].lic, proc[p].org, proc[p].from - TTL - ReqLife)'
      <3> DEFINE t == proc[p].from - TTL - ReqLife
      <3>1. now + 1 <= proc[p].from + ReqLife /\ Knows(proc[p].lic, proc[p].org, t)
        BY <1>0, <1>14, <2>6 DEF Tick, FreshnessInv, GatedKnown, Gated, At
      <3>2. t + StaleBound >= now + 1 /\ t \in Int
        BY <1>0, <3>1 DEF StaleBound
      <3> QED
        BY <1>0, <1>14, <2>1, <3>1, <3>2, KnownAfterTick DEF Knows
    <2>4. ASSUME NEW o \in Orgs, NEW e \in cache'[o]
          PROVE  e.at <= now' /\ now' <= e.at + TTL /\ Knows(e.lic, o, e.at - ReqLife)'
      <3>1. e \in cache[o] /\ now + 1 <= e.at + TTL
        BY <1>14, <2>4 DEF Tick, Kept
      <3>2. e.at <= now /\ Knows(e.lic, o, e.at - ReqLife)
        BY <3>1 DEF FreshnessInv, CacheKnown
      <3>3. e.at - ReqLife \in Int /\ e.at - ReqLife + StaleBound >= now + 1
        BY <1>0, <3>1, <3>2 DEF StaleBound
      <3> QED
        BY <1>0, <1>14, <2>1, <3>1, <3>2, <3>3, KnownAfterTick DEF Knows
    <2>5. RowsKnown' /\ GatedKnown'
      BY <2>1, <2>3, <2>6 DEF RowsKnown, GatedKnown, Gated, At
    <2> QED
      BY <2>2, <2>4, <2>5 DEF FreshnessInv, CacheKnown
  <1>15. CASE UNCHANGED vars
    BY <1>15, RowsRest, KeepsFreshness DEF vars
  <1>16. CASE \E n \in Nodes, o \in Orgs :
                 \/ \E p \in Readers, answers \in BOOLEAN : CacheLookup(p, n, o, answers)
                 \/ \E p \in Admins, key \in Wallet : Activate(p, n, o, key)
    BY <1>1, <1>2, <1>16 DEF Procs
  <1>17. CASE \E p \in Procs, ok \in BOOLEAN :
                 QueryRow(p, ok) \/ FillCache(p, ok) \/ ActivateRow(p, ok) \/ ActivateEvict(p, ok)
    BY <1>3, <1>4, <1>6, <1>8, <1>17
  <1>18. CASE \E p \in Procs : Finish(p) \/ ActivateSet(p)
    BY <1>5, <1>7, <1>18
  <1>19. CASE \E n \in Nodes : Check(n) \/ Fetch(n) \/ RefreshStep(n)
    BY <1>9, <1>10, <1>11, <1>19 DEF RefreshStep
  <1> QED
    BY <1>12, <1>13, <1>14, <1>15, <1>16, <1>17, <1>18, <1>19 DEF Next

\* What is known bounds how old the key and the verdict of a gated request can be.
LEMMA FreshnessSuffices == TypeOK /\ FreshnessInv => FreshLicence /\ ExpiryRespected
  <1> SUFFICES ASSUME TypeOK, FreshnessInv PROVE FreshLicence /\ ExpiryRespected
    OBVIOUS
  <1>1. ASSUME NEW p \in Procs, Gated(p)
        PROVE  /\ Knows(proc[p].lic, proc[p].org, proc[p].from - TTL - ReqLife)
               /\ now <= proc[p].from + ReqLife /\ proc[p].lic.key.exp \in Int
    <2>1. proc[p].lic.key.exp \in Int
      BY Times, KeyAssumption, LicenceAssumption DEF Licence, Keys, Key, NoKey, Never
    <2> QED
      BY <1>1, <2>1 DEF FreshnessInv, GatedKnown, RequestsEnd, Gated, At
  <1>2. FreshLicence
    <2> SUFFICES ASSUME NEW p \in Procs, Gated(p), proc[p].lic.key # db[proc[p].org]
                 PROVE  /\ leftAt[proc[p].org][proc[p].lic.key] # Never
                        /\ now <= leftAt[proc[p].org][proc[p].lic.key] + StaleBound
      BY DEF FreshLicence
    <2>1. leftAt[proc[p].org][proc[p].lic.key] \in Int
      BY <1>1, Times DEF Knows
    <2> QED
      BY <1>1, <2>1, Times DEF StaleBound, Knows
  <1>3. \A p \in Procs, f \in Features : Allows(proc[p].lic, "write", f) => ~proc[p].lic.expired
    BY DEF Allows, Has
  <1>4. ExpiryRespected
    BY <1>1, <1>3, Times DEF ExpiryRespected, StaleBound, Knows
  <1> QED
    BY <1>2, <1>4

\* DBMiddleware, Activate, AutoRefresher: whatever fails and however requests,
\* activations and renewals interleave, no gated request runs under a key that was
\* replaced more than a cache lifetime and two request lifetimes ago.
THEOREM StalenessBounded == Spec => []FreshLicence
  <1>1. TypeOK /\ FreshnessInv /\ [Next]_vars => (TypeOK /\ FreshnessInv)'
    BY TypeStep, FreshnessStep
  <1>2. TypeOK /\ FreshnessInv => FreshLicence
    BY FreshnessSuffices
  <1> QED
    BY InitType, InitFreshness, <1>1, <1>2, PTL DEF Spec

\* License.Expired, Allows: nor does it write under a key that ran out longer ago.
THEOREM ExpiredKeysOnlyRead == Spec => []ExpiryRespected
  <1>1. TypeOK /\ FreshnessInv /\ [Next]_vars => (TypeOK /\ FreshnessInv)'
    BY TypeStep, FreshnessStep
  <1>2. TypeOK /\ FreshnessInv => ExpiryRespected
    BY FreshnessSuffices
  <1> QED
    BY InitType, InitFreshness, <1>1, <1>2, PTL DEF Spec
=============================================================================
