-------------------------- MODULE InstanceLicence --------------------------
(***************************************************************************)
(* The licence a Vakt installation runs under (backend/internal/license):  *)
(* the instance licence each API process holds in memory, the key an       *)
(* organisation activated (license_keys), the Redis cache in front of it,  *)
(* the gate that decides what an expired key may still do, and the         *)
(* auto-renewal that fetches the next key.                                 *)
(*                                                                         *)
(* A key is a record of what its signed payload says.  A licence is what   *)
(* parse() made of a key: whether it is expired is decided once, when it   *)
(* is parsed.  Every database, Redis and HTTP call and every access to the *)
(* atomic instance pointer is one step.  A tick is one cache lifetime or a *)
(* fraction of it; a request lives at most ReqLife ticks (the request      *)
(* timeout of cmd/api).                                                    *)
(*                                                                         *)
(* An operator placed right before the one it resembles and used by no     *)
(* other definition is a faulty variant for the mutation checks.           *)
(***************************************************************************)
EXTENDS Integers

CONSTANTS
    Nodes,       \* API processes (replicas)
    Orgs,        \* organisations on this installation
    Readers,     \* requests to gated routes that can be in flight at the same time
    Admins,      \* activations that can be in flight at the same time
    Wallet,      \* keys signed for this customer
    EnvKeys,     \* what VAKT_LICENSE_KEY may hold
    Features, LegacyProFeatures,
    TTL,         \* licenceCacheTTL, in ticks
    ReqLife,     \* longest life of a request, in ticks
    MaxWindow,   \* maxRenewWindow, in ticks
    MaxTick,     \* bound: last tick of the clock
    MaxCrashes,  \* bound: restarts of a process
    Faults       \* what may fail: a subset of {"db", "redis", "net"}

Never == -1   \* exp of a perpetual key: NULL; also the time of what has not happened

Procs == Readers \cup Admins

Key == [tier: {"community", "pro"}, list: SUBSET Features, exp: Nat \cup {Never}, iat: Int, token: BOOLEAN]

ASSUME LicenceAssumption ==
    /\ Wallet \subseteq Key /\ LegacyProFeatures \subseteq Features
    /\ TTL \in Nat /\ ReqLife \in Nat /\ MaxWindow \in Nat
    /\ MaxTick \in Nat /\ MaxCrashes \in Nat /\ Nodes # {} /\ Orgs # {}

\* No key: the column is NULL, the variable empty, or the server refuses.
NoKey == [tier |-> "community", list |-> {}, exp |-> Never, iat |-> 0, token |-> FALSE]

ASSUME KeyAssumption == NoKey \notin Wallet /\ EnvKeys \subseteq Wallet \cup {NoKey}

Keys == Wallet \cup {NoKey}
Licence == [key: Keys, expired: BOOLEAN]
Community == [key |-> NoKey, expired |-> FALSE]   \* communityLicense

VARIABLES
    now,      \* the clock
    env,      \* VAKT_LICENSE_KEY
    db,       \* [Orgs -> Keys]: license_keys.key_value, NoKey where there is no row
    recent,   \* organisations by activated_at: the last one activated, or none
    cache,    \* [Orgs -> cached licences]: Redis "license:<org>", at most one each
    inst,     \* [Nodes -> Licence]: Instance
    failing,  \* [Nodes -> BOOLEAN]: Handler.renewalFailing
    refr,     \* [Nodes -> the auto-refresher's local state]
    proc,     \* [Procs -> local state of a request]
    srv,      \* the key the billing service answers with; NoKey: it refuses
    crashes,  \* restarts so far
    leftAt    \* history: [Orgs -> [Wallet -> when the row stopped holding the key, unless it holds
              \* it again or that is longer ago than StaleBound]]

vars == <<now, env, db, recent, cache, inst, failing, refr, proc, srv, crashes, leftAt>>

Entry == [lic: Licence, at: Nat]
Refresher == [pc: {"idle", "token", "fetch", "compare", "set", "org", "update", "evict"},
              key: Keys, expired: BOOLEAN, org: Orgs \cup {"none"}]
Request == [pc: {"idle", "row", "fill", "next", "act_row", "act_set", "act_evict"},
            node: Nodes, org: Orgs, lic: Licence, from: Nat, src: {"row", "inst"}]

TypeOK ==
    /\ now \in 0..MaxTick
    /\ env \in Keys
    /\ db \in [Orgs -> Keys]
    /\ recent \in Orgs \cup {"none"}
    /\ cache \in [Orgs -> SUBSET Entry]
    /\ inst \in [Nodes -> Licence]
    /\ failing \in [Nodes -> BOOLEAN]
    /\ refr \in [Nodes -> Refresher]
    /\ proc \in [Procs -> Request]
    /\ srv \in Keys
    /\ crashes \in 0..MaxCrashes
    /\ leftAt \in [Orgs -> [Wallet -> Nat \cup {Never}]]

-----------------------------------------------------------------------------
(* Keys and licences.                                                      *)

\* parse(): a licence is expired if its key has run out by now.
Past(key) == key.exp # Never /\ now > key.exp
Parse(key) == [key |-> key, expired |-> Past(key)]

\* IsPro: an expired licence is not Pro.
IsPro(lic) == lic.key.tier = "pro" /\ ~lic.expired

\* Has, HasReadOnly, Allows: what a request may do with a feature.
Has(lic, f) ==
    ~lic.expired /\ (f \in lic.key.list \/ (IsPro(lic) /\ f \in LegacyProFeatures))
HasReadOnly(lic, f) ==
    Has(lic, f) \/ (/\ lic.expired /\ lic.key.tier = "pro"
                    /\ f \in lic.key.list \cup LegacyProFeatures \/ lic.key.list = {})
Allows(lic, method, f) ==
    Has(lic, f) \/ (lic.expired /\ method = "read" /\ HasReadOnly(lic, f))

\* AutoRefresher.due, renewWindow: the last quarter of the key's life, capped.
RenewWindow(key) ==
    LET quarter == (key.exp - key.iat) \div 4
    IN IF quarter > MaxWindow THEN MaxWindow ELSE quarter
Due(n) == inst[n].key.exp # Never /\ inst[n].key.exp - now < RenewWindow(inst[n].key)

\* Load and AdoptActivatedKey at startup: an unexpired Pro key of the environment wins,
\* then the key activated last, if the database answers.
Adopted(answers) ==
    IF IsPro(Parse(env)) \/ recent = "none" \/ ~answers THEN Parse(env) ELSE Parse(db[recent])

IdleRequest(n, o) == [pc |-> "idle", node |-> n, org |-> o, lic |-> Community, from |-> 0, src |-> "inst"]
IdleRefresher == [pc |-> "idle", key |-> NoKey, expired |-> FALSE, org |-> "none"]
AnyRequest == IdleRequest(CHOOSE n \in Nodes : TRUE, CHOOSE o \in Orgs : TRUE)

Init ==
    /\ now = 0
    /\ env \in EnvKeys
    /\ db = [o \in Orgs |-> NoKey]
    /\ recent = "none"
    /\ cache = [o \in Orgs |-> {}]
    /\ inst = [n \in Nodes |-> Adopted(TRUE)]
    /\ failing = [n \in Nodes |-> FALSE]
    /\ refr = [n \in Nodes |-> IdleRefresher]
    /\ proc = [p \in Procs |-> AnyRequest]
    /\ srv = NoKey
    /\ crashes = 0
    /\ leftAt = [o \in Orgs |-> [key \in Wallet |-> Never]]

-----------------------------------------------------------------------------
(* A request passes DBMiddleware.                                          *)

At(p, pc) == proc[p].pc = pc
Goes(p, pc) == proc' = [proc EXCEPT ![p].pc = pc]
Served(p, lic, src) ==
    proc' = [proc EXCEPT ![p].pc = "next", ![p].lic = lic, ![p].src = src]

\* The cache is asked first.
CacheLookup(p, n, o, answers) ==
    /\ At(p, "idle") /\ (answers \/ "redis" \in Faults)
    /\ LET hits == IF answers THEN cache[o] ELSE {}
           r == [IdleRequest(n, o) EXCEPT !.from = now]
       IN \/ /\ hits = {}
             /\ proc' = [proc EXCEPT ![p] = [r EXCEPT !.pc = "row"]]
          \/ \E e \in hits :
                proc' = [proc EXCEPT ![p] = [r EXCEPT !.pc = "next", !.lic = e.lic, !.src = "row"]]
    /\ UNCHANGED <<now, env, db, recent, cache, inst, failing, refr, srv, crashes, leftAt>>

\* Then the organisation's row; without one, or if the query fails, the instance licence.
QueryRow(p, answers) ==
    /\ At(p, "row") /\ (answers \/ "db" \in Faults)
    /\ IF answers /\ db[proc[p].org] # NoKey
       THEN proc' = [proc EXCEPT ![p].pc = "fill", ![p].lic = Parse(db[proc[p].org])]
       ELSE Served(p, inst[proc[p].node], "inst")
    /\ UNCHANGED <<now, env, db, recent, cache, inst, failing, refr, srv, crashes, leftAt>>

\* The row's licence goes into the cache for TTL; a failing Set is ignored.
CachedKey(lic) == lic.key
CachedUnexpired(lic) == [lic EXCEPT !.expired = FALSE]
Cached(lic) == lic
FillCache(p, stored) ==
    /\ At(p, "fill") /\ (stored \/ "redis" \in Faults)
    /\ cache' = IF stored THEN [cache EXCEPT ![proc[p].org] = {[lic |-> Cached(proc[p].lic), at |-> now]}]
                ELSE cache
    /\ Served(p, proc[p].lic, "row")
    /\ UNCHANGED <<now, env, db, recent, inst, failing, refr, srv, crashes, leftAt>>

\* The handler behind the gate has answered.
Finish(p) ==
    /\ At(p, "next")
    /\ proc' = [proc EXCEPT ![p] = AnyRequest]
    /\ UNCHANGED <<now, env, db, recent, cache, inst, failing, refr, srv, crashes, leftAt>>

-----------------------------------------------------------------------------
(* POST /license/activate.                                                 *)

\* The key is parsed and refused if it was not signed; an expired one is accepted.
Activate(p, n, o, key) ==
    /\ At(p, "idle") /\ key.iat <= now
    /\ proc' = [proc EXCEPT ![p] = [IdleRequest(n, o) EXCEPT !.pc = "act_row", !.lic = Parse(key),
                                                             !.from = now]]
    /\ UNCHANGED <<now, env, db, recent, cache, inst, failing, refr, srv, crashes, leftAt>>

\* History: the row of o is about to hold key.
Replaced(o, key) ==
    leftAt' = [leftAt EXCEPT ![o] = [k \in Wallet |->
                  IF k = key THEN Never ELSE IF k = db[o] THEN now ELSE @[k]]]

\* UPSERT license_keys: on failure nothing changed and the caller is told.
ActivateRow(p, stored) ==
    /\ At(p, "act_row") /\ (stored \/ "db" \in Faults)
    /\ IF stored
       THEN /\ db' = [db EXCEPT ![proc[p].org] = proc[p].lic.key]
            /\ Replaced(proc[p].org, proc[p].lic.key)
            /\ recent' = proc[p].org
            /\ Goes(p, "act_set")
       ELSE /\ proc' = [proc EXCEPT ![p] = AnyRequest]
            /\ UNCHANGED <<db, leftAt, recent>>
    /\ UNCHANGED <<now, env, cache, inst, failing, refr, srv, crashes>>

ActivateSet(p) ==
    /\ At(p, "act_set")
    /\ inst' = [inst EXCEPT ![proc[p].node] = proc[p].lic]
    /\ Goes(p, "act_evict")
    /\ UNCHANGED <<now, env, db, recent, cache, failing, refr, srv, crashes, leftAt>>

\* InvalidateLicenseCache: a failing Del is only logged.
ActivateEvict(p, deleted) ==
    /\ At(p, "act_evict") /\ (deleted \/ "redis" \in Faults)
    /\ cache' = IF deleted THEN [cache EXCEPT ![proc[p].org] = {}] ELSE cache
    /\ proc' = [proc EXCEPT ![p] = AnyRequest]
    /\ UNCHANGED <<now, env, db, recent, inst, failing, refr, srv, crashes, leftAt>>

-----------------------------------------------------------------------------
(* AutoRefresher.  It remembers the organisation it once resolved.         *)

Works(n, pc) == refr[n].pc = pc
Refreshes(n, r) == refr' = [refr EXCEPT ![n] = r]
Rests(n) == Refreshes(n, [IdleRefresher EXCEPT !.org = refr[n].org])

\* check, at startup and once a day: outside the window nothing can be failing.
CheckedKeeps(n) == failing[n]
Checked(n) == FALSE
Check(n) ==
    /\ Works(n, "idle")
    /\ IF Due(n)
       THEN Refreshes(n, [refr[n] EXCEPT !.pc = "token"]) /\ UNCHANGED failing
       ELSE failing' = [failing EXCEPT ![n] = Checked(n)] /\ UNCHANGED refr
    /\ UNCHANGED <<now, env, db, recent, cache, inst, proc, srv, crashes, leftAt>>

\* Without a renewal token in the key of this moment somebody has to act.
Token(n) ==
    /\ Works(n, "token")
    /\ IF inst[n].key.token
       THEN Refreshes(n, [refr[n] EXCEPT !.pc = "fetch"]) /\ UNCHANGED failing
       ELSE failing' = [failing EXCEPT ![n] = TRUE] /\ Rests(n)
    /\ UNCHANGED <<now, env, db, recent, cache, inst, proc, srv, crashes, leftAt>>

\* fetchKey and parse: the service answers the token with its current key, refuses, or
\* is down.
Fetch(n) ==
    /\ Works(n, "fetch") /\ inst[n].key.token /\ srv # NoKey
    /\ Refreshes(n, [refr[n] EXCEPT !.pc = "compare", !.key = srv, !.expired = Past(srv)])
    /\ UNCHANGED <<now, env, db, recent, cache, inst, failing, proc, srv, crashes, leftAt>>
FetchFails(n) ==
    /\ Works(n, "fetch") /\ (~inst[n].key.token \/ srv = NoKey \/ "net" \in Faults)
    /\ failing' = [failing EXCEPT ![n] = TRUE]
    /\ Rests(n)
    /\ UNCHANGED <<now, env, db, recent, cache, inst, proc, srv, crashes, leftAt>>

\* A key that does not end later than the current one is no renewal.
NewerSwapped(key, current) == key.exp = Never \/ current.exp = Never \/ key.exp < current.exp
Newer(key, current) == key.exp = Never \/ current.exp = Never \/ key.exp > current.exp
Compare(n) ==
    /\ Works(n, "compare")
    /\ IF Newer(refr[n].key, inst[n].key)
       THEN Refreshes(n, [refr[n] EXCEPT !.pc = "set"]) /\ UNCHANGED failing
       ELSE failing' = [failing EXCEPT ![n] = TRUE] /\ Rests(n)
    /\ UNCHANGED <<now, env, db, recent, cache, inst, proc, srv, crashes, leftAt>>

RefreshSet(n) ==
    /\ Works(n, "set")
    /\ inst' = [inst EXCEPT ![n] = [key |-> refr[n].key, expired |-> refr[n].expired]]
    /\ failing' = [failing EXCEPT ![n] = FALSE]
    /\ Refreshes(n, [refr[n] EXCEPT !.pc = "org"])
    /\ UNCHANGED <<now, env, db, recent, cache, proc, srv, crashes, leftAt>>

\* The organisation is looked up once and kept; if the query fails or finds none, the
\* UPDATE is left out.
RefreshOrg(n, answers) ==
    /\ Works(n, "org") /\ (answers \/ "db" \in Faults)
    /\ LET org == IF refr[n].org = "none" /\ answers THEN recent ELSE refr[n].org
       IN Refreshes(n, [refr[n] EXCEPT !.org = org, !.pc = IF org = "none" THEN "evict" ELSE "update"])
    /\ UNCHANGED <<now, env, db, recent, cache, inst, failing, proc, srv, crashes, leftAt>>

\* A failing UPDATE is only logged.
RefreshUpdate(n, stored) ==
    /\ Works(n, "update") /\ (stored \/ "db" \in Faults)
    /\ IF stored
       THEN LET o == refr[n].org
            IN /\ db' = [db EXCEPT ![o] = refr[n].key]
               /\ Replaced(o, refr[n].key)
               /\ recent' = o
       ELSE UNCHANGED <<db, leftAt, recent>>
    /\ Refreshes(n, [refr[n] EXCEPT !.pc = "evict"])
    /\ UNCHANGED <<now, env, cache, inst, failing, proc, srv, crashes>>

\* Scan "license:*" and Del what it finds; errors are ignored, one by one.
RefreshEvict(n, kept) ==
    /\ Works(n, "evict") /\ (kept = {} \/ "redis" \in Faults)
    /\ cache' = [o \in Orgs |-> IF o \in kept THEN cache[o] ELSE {}]
    /\ Rests(n)
    /\ UNCHANGED <<now, env, db, recent, inst, failing, proc, srv, crashes, leftAt>>

-----------------------------------------------------------------------------
(* The environment.                                                        *)

\* The billing service: a payment, or the end of the subscription. Its keys carry a token.
ServerAnswers(key) ==
    /\ key # srv
    /\ key = NoKey \/ (key.token /\ key.iat <= now /\ (srv = NoKey \/ key.exp > srv.exp))
    /\ srv' = key
    /\ UNCHANGED <<now, env, db, recent, cache, inst, failing, refr, proc, crashes, leftAt>>

\* A process restarts: its requests and its refresher are gone, Redis and Postgres stay.
Restart(n, answers) ==
    /\ crashes < MaxCrashes /\ (answers \/ "db" \in Faults)
    /\ crashes' = crashes + 1
    /\ inst' = [inst EXCEPT ![n] = Adopted(answers)]
    /\ failing' = [failing EXCEPT ![n] = FALSE]
    /\ refr' = [refr EXCEPT ![n] = IdleRefresher]
    /\ proc' = [p \in Procs |-> IF proc[p].node = n THEN AnyRequest ELSE proc[p]]
    /\ UNCHANGED <<now, env, db, recent, cache, srv, leftAt>>

\* A licence read from the row, kept by one request, put into the cache by it, found
\* there by another and kept by that one.
StaleBound == TTL + 2 * ReqLife

\* History: what left the row longer ago is forgotten.
Forgets(t) ==
    leftAt' = [o \in Orgs |-> [key \in Wallet |->
                  IF t > leftAt[o][key] + StaleBound THEN Never ELSE leftAt[o][key]]]

\* Time passes; Redis drops what outlived its TTL.
KeptToExpiry(e, t) == t <= e.lic.key.exp
Kept(e, t) == t <= e.at + TTL
Tick ==
    /\ now < MaxTick
    /\ \A p \in Procs : ~At(p, "idle") => now < proc[p].from + ReqLife
    /\ now' = now + 1
    /\ cache' = [o \in Orgs |-> {e \in cache[o] : Kept(e, now + 1)}]
    /\ Forgets(now + 1)
    /\ UNCHANGED <<env, db, recent, inst, failing, refr, proc, srv, crashes>>

RefreshStep(n) ==
    \/ Token(n) \/ FetchFails(n) \/ Compare(n) \/ RefreshSet(n)
    \/ \E ok \in BOOLEAN : RefreshOrg(n, ok) \/ RefreshUpdate(n, ok)
    \/ \E kept \in SUBSET Orgs : RefreshEvict(n, kept)

Next ==
    \/ \E n \in Nodes, o \in Orgs :
          \/ \E p \in Readers, answers \in BOOLEAN : CacheLookup(p, n, o, answers)
          \/ \E p \in Admins, key \in Wallet : Activate(p, n, o, key)
    \/ \E p \in Procs, ok \in BOOLEAN :
          QueryRow(p, ok) \/ FillCache(p, ok) \/ ActivateRow(p, ok) \/ ActivateEvict(p, ok)
    \/ \E p \in Procs : Finish(p) \/ ActivateSet(p)
    \/ \E n \in Nodes : Check(n) \/ Fetch(n) \/ RefreshStep(n)
    \/ \E n \in Nodes, answers \in BOOLEAN : Restart(n, answers)
    \/ \E key \in Keys : ServerAnswers(key)
    \/ Tick

Spec == Init /\ [][Next]_vars

\* The refresher's goroutine checks for ever and finishes what it began; a fetch that the
\* service would answer does not fail for ever.
Fairness ==
    \A n \in Nodes : WF_vars(Check(n)) /\ WF_vars(RefreshStep(n) \/ Fetch(n)) /\ SF_vars(Fetch(n))

FairSpec == Spec /\ Fairness

-----------------------------------------------------------------------------
(* Properties.                                                             *)

Gated(p) == At(p, "next") /\ proc[p].src = "row"

\* DBMiddleware, InvalidateLicenseCache: a key that was activated or renewed is what the
\* organisation's requests run under at the latest StaleBound later, even when the
\* invalidation failed or an older licence was put back into the cache after it.  Until
\* then they run under a key the row did hold, and no longer ago than that.
FreshLicence ==
    \A p \in Procs : Gated(p) =>
        LET o == proc[p].org  key == proc[p].lic.key
        IN key = db[o] \/ (leftAt[o][key] # Never /\ now <= leftAt[o][key] + StaleBound)

\* License.Expired, Allows: an organisation whose own key has run out writes nothing any
\* more, at the latest StaleBound later, although the cache keeps what parse() decided.
ExpiryRespected ==
    \A p \in Procs, f \in Features :
        Gated(p) /\ Allows(proc[p].lic, "write", f) /\ proc[p].lic.key.exp # Never
            => now <= proc[p].lic.key.exp + StaleBound

\* check: a warning does not outlive its cause.
FailingHeals == \A n \in Nodes : (failing[n] /\ ~Due(n)) ~> (~failing[n] \/ Due(n))

\* AutoRefresher: an instance in its renewal window gets the later key the billing
\* service has for it, whatever else is activated and restarted meanwhile.
Renewable(n) == Due(n) /\ inst[n].key.token /\ srv.exp > inst[n].key.exp
Renewed == \A n \in Nodes : Renewable(n) ~> ~Renewable(n)

-----------------------------------------------------------------------------
(* What comments in the repository promise and the code does not keep.     *)

\* "Expired is true when the license key has passed its ExpiresAt timestamp" (License):
\* also where the instance licence answers, long after it was parsed.
ExpiredIsTrue ==
    \A p \in Procs :
        At(p, "next") /\ proc[p].src = "inst" /\ proc[p].lic.key.exp # Never
            => (now > proc[p].lic.key.exp + StaleBound => proc[p].lic.expired)

\* "There is no in-memory state that would diverge across replicas" (helm/vakt/values.yaml).
ReplicasAgree ==
    (\A p \in Procs : At(p, "idle")) /\ (\A n \in Nodes : Works(n, "idle"))
        => \A m, n \in Nodes : inst[m].key = inst[n].key
=============================================================================
