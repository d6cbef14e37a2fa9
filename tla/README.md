# Vakt: a TLA+ verification project

Vakt is a self-hosted compliance and security platform: a Go API server, a background
worker, a React frontend, PostgreSQL and Redis. Beside it stands the vendor's billing
service, which sells licences, raises invoices in Lexware Office and signs the licence
keys a Vakt installation runs under. This directory holds TLA+ modules that model the
parts of it whose correctness depends on interleavings, failures and time, the TLC runs
that check them on small instances, and TLAPS proofs of the most important properties for
every instance.

Paths below are relative to `backend/` unless they begin with another top-level directory.

## 1. Inventory

| Component | State | Operations | What is hard about it | Module |
|---|---|---|---|---|
| Direct-sale billing, `internal/billing/lexware` | `billing_quote_requests` (request = subscription), `billing_invoices`, `billing_licenses`; Lexware's own vouchers | quote, approve, settle (webhook and poller), renewal sweep, free grants, conversion, cancel, GetLicense, mail sweep, seats, reconcile, remind | no lock and few transactions: handlers and sweeps interleave at every SQL statement and every Lexware call; a raised invoice cannot be taken back; payments are reported by webhooks that are replayed or never come | `Billing`, `BillingContract` |
| Key signing, `internal/billing/licensing`, `internal/license/sign.go` | a private key | IssueUntil, SignUntil | the date a key runs to | `Billing` |
| Instance licence, `internal/license` | an atomic pointer in every API process, `license_keys`, `license:<org>` in Redis, `renewalFailing` | Activate, DBMiddleware, Require, the auto-refresher, startup | a cached decision about time; cache and row changed in two steps; best-effort writes | `InstanceLicence` |
| Authentication and sessions, `internal/auth` | `users.pw_version`, `refresh_sessions`, the fallback deny list in PostgreSQL; the version's mirror, the refresh keys and the deny list in Redis | login, refresh, logout, revoke one, others or all, password reset, the access check | dual writes where either side may fail and one side evicts; a version read early and used late; mirrors that arrive out of order | `Sessions` |
| Vakt HR, `internal/modules/vakthr` | `hr_checklist_runs`, `hr_employees`, evidence in `ck_evidence` | start, tick, edit and close an offboarding run; terminate; the revocation gate | evidence must not be written before the deed is done; a gate of five calls each of which may fail; two runs closed at once; sign-ins meanwhile | `Offboarding` |
| API keys, `internal/shared/apikeys` | `api_keys` | create, revoke, rotate | a key created by a request that was authenticated before the revocation | `Offboarding` (create, revoke) |
| User management and SCIM, `internal/shared/usermgmt`, `internal/services/scim`, `internal/admin` | `org_members`, `users.is_active` | role change, removal, invitation, SCIM POST/PUT/PATCH/DELETE | the last Admin under concurrent demotions; row locks of a snapshot; revocation after the commit | `Membership` |
| Audit log, `internal/shared/audit`; retention, `internal/shared/retention` | hash-chained rows in yearly partitions | append, verify, soft delete, drop partitions | the tail is read before the lock is got; clocks; rows that leave | `AuditTrail` |
| SIEM forwarding, `internal/services/siem` | `forwarded_to_siem` | read, send, mark | at-least-once delivery over stops and failed marks | `AuditTrail` |
| Vakt Privacy, `internal/modules/vaktprivacy`, with the erasers of `vaktaware` and `vakthr` | `po_dsr`, and the subject's rows in four modules' tables | create, update, resolve, erase, delete, mark overdue | two endpoints write what they read before; an erasure walks over tables other modules write | `DataSubjects` |
| Alerting, `internal/services/alerting`; worker, `cmd/worker` | channels, `notification_alert_state` | the daily check, Fire, FireAndMark | mark against delivery; a daily task against a 24-hour window; a task that is handed out again | `OverdueAlerts` (composed with `DataSubjects`) |
| Billing panel and reseller portal, `internal/billing/admin`, `internal/billing/portal` | panel session, portal token | forms that call the operations of billing | double clicks, two devices | through `Billing` |
| Vakt Scan, Vault, Aware, Comply; webhooks; scheduled reports | findings, secrets, campaigns, controls, deliveries | CRUD and life cycles | mostly single-row state machines | not modelled |
| Database layer, exports, frontend, AI assistant | generated code, formatting, user interface | | nothing of their own to check | not modelled |

`PROJECT.json` lists every component with its status and the reason where it is not, or not
wholly, modelled.

How they interact.

* A customer's installation asks the billing service for its next key
  (`AutoRefresher.fetchKey` against `Handler.GetLicense`); the answer depends on what `settle`
  booked, which depends on Lexware. Inside the installation the key travels from the refresher
  or the activation form into the process's `Instance`, the organisation's `license_keys` row
  and the Redis cache, and every gated route asks `Allows`. Panel and portal call the billing
  operations directly. The billing sweeps (`PollPayments`, `RenewDue`, `MailExpiringKeys`,
  `ReconcileLoop`) are goroutines of the billing process.
* `RevokeAllSessions` of `internal/auth` is called by logout, user management, SCIM and the
  offboarding gate. `Sessions` models it call by call; `Membership` and `Offboarding` use it by
  the contract `Sessions` proves for it (nil ends the access of every session handed out
  before; an error may or may not have).
* The offboarding gate removes the membership that user management and SCIM guard.
  `Membership` contains the gate's `DisableUser`, `Offboarding` contains user management's
  `RemoveUser`.
* An erasure of Vakt Privacy calls the erasers of Vakt Aware and Vakt HR in one transaction.
* The worker's daily alert reads the requests of Vakt Privacy and writes alerting's
  suppression mark; the SIEM pass reads the audit log while retention soft-deletes and drops.

What makes each correct:

* billing: nobody is invoiced twice, for a free licence or ahead of time; nobody gets a key
  beyond what was paid; everybody who paid gets one, and keeps getting billed;
* instance licence: a request runs under the key the organisation has now, up to a known
  delay; an expired key reads and does not write; a renewal that can succeed does;
* sessions: what was revoked stays rejected, what was signed in afterwards is accepted, and
  the user's list shows everything that can be renewed;
* offboarding: evidence is true when it is written; a failed gate can be repeated until the
  run closes;
* membership: somebody stays Admin; the claims in tokens are the membership's;
* audit: a verdict of the verifier means something in both directions; no entry is marked that
  the SIEM has not got, and none is forgotten;
* data subject requests: a completed erasure erased, and its evidence stays;
* alerts: the mark that suppresses an alert stands for a delivery, and suppression does not
  add up to silence.

## 2. Modules

| Module | Models | Checked by |
|---|---|---|
| `Billing` | `internal/billing/lexware` and the dates of `licensing`, `sign.go` | `MCBilling`, 4 passing runs, 1 disagreement |
| `BillingContract` | the abstract specification `Billing` implements | run `billing_storno`, `BillingRefinement` |
| `BillingProofs`, `BillingRefinement` | theorems about `Billing`, and that it implements the contract | TLAPS |
| `InstanceLicence`, `InstanceLicenceProofs` | `internal/license` and its wiring in `cmd/api` | `MCInstanceLicence`, TLAPS |
| `Sessions`, `SessionsProofs` | `internal/auth` over two stores | `MCSessions`, TLAPS |
| `Offboarding`, `OffboardingProofs` | the handlers of offboarding runs | `MCOffboarding`, TLAPS |
| `Membership`, `MembershipProofs` | role changes, removals, SCIM, sign-ins under row locks | `MCMembership`, TLAPS |
| `AuditTrail`, `AuditTrailProofs` | `audit.Write`, the verifier, retention, partitions, SIEM | `MCAuditTrail`, TLAPS |
| `DataSubjects` | data subject requests and erasure across modules | `MCDataSubjects` |
| `OverdueAlerts` | extends `DataSubjects` with the daily alert: the composition of both | `MCOverdueAlerts` |
| `DataSubjectsProofs` | theorems about `DataSubjects` and `OverdueAlerts` | TLAPS |

In every module an operator that no other definition uses and that stands right before the
one it resembles (`ClaimableAgain` before `Claimable`) is a plausible bug; the mutation
checks put it in the place of the real one to see that a property notices.

History variables (they are marked in the declarations) record what no row remembers; no
guard reads them.

### 2.1 Billing

**State.** `sub[s]` is a row of `billing_quote_requests`: status, `is_free`, whether a Lexware
contact exists, `cancelled_at`, `next_invoice_at`. `voucher[v]` is what Lexware holds. `rows`
is `billing_invoices`; a free period is a row with a synthetic reference (`NoVoucher`), paid
from the start. `lic[l]` is `billing_licenses` in order of creation; a key is abstracted to
the day it runs to, `0` for the empty string the row is inserted with. `report` is what the
reconciliation loop last said.

**Atomicity.** The handlers hold no lock, so every SQL statement (or transaction) and every
Lexware call is a step, and what a handler read earlier waits in `proc[p]` until it is used.
A sweep keeps its whole list (`todo`) the same way. Each action carries the name of the
function it is part of: `ApproveRequest`, `ApproveInvoice`, `ApproveRow`, `ApproveKey`,
`ApproveCommit` are the steps of one approval. `Idle` is a handler that is not running;
`Sweeps` says that a sweep is one goroutine and never runs twice at once, `Starts` that a
handler may.

**Failures.** With `Faults`, any call may fail: `CallFails` returns early where the code does,
the actions with a `stored` parameter go on where the code only logs, `ItemFails` skips an
item of a sweep, `Restart` loses everything in flight. A payment cannot arrive before the
invoice was mailed (`Unmailed`), unless the handler died on the way.

**Time.** One unit is a day, and no day passes while a handler runs: each has a deadline of at
most five minutes. The plan is scaled down (period 2, grace 1, lead 1) and keeps the order of
the code's constants: lead < period, and thresholds (`RenewBelow`, `MailBelow`) that reach over
a period end, as the 35-day key of the monthly plan does.

**Left out.** VAT and VIES classification, amounts, discount and notes columns (no control reads
them), mail texts, the signature.

### 2.2 BillingContract and the refinement

`BillingContract` is the billing service as a customer and a bookkeeper see it: no handlers, no
sweeps, no restarts, no Lexware. An invoice goes from open to paid exactly once and may be
voided; being booked as paid earns one key (`owed`, `DeliverKey`), unless a crash abandons it;
free periods, auto-renewals and seats sign keys too, never past what was booked plus grace.
Every promise is one atomic step.

`Billing` implements it under `Contract == INSTANCE BillingContract WITH` the mapping

| Contract | Billing |
|---|---|
| `invoice` | `InvoiceStatus`: the status of the invoice's row in `billing_invoices`, `"none"` without one |
| `owed` | `Owed`: invoices a handler has claimed in `settle` and not signed for (`st_sign`) |
| `keys` | `keysFor`, the keys signed on account of an invoice |
| `paid`, `key` | `paidMax`, `keyMax`, the latest end booked as paid and the latest expiry signed |

so that, for instance, `ApproveRow` and `RenewRow` map to `Raise`, `SettleClaim` to `Settle`,
`SettleSign` to `DeliverKey`, `ReconcileVoid` to `Void`, and everything else to a stutter, to
`Grant` or to `Resign`. TLC checks `ImplementsContract` in `billing_storno`; `BillingRefinement`
proves it.

### 2.3 InstanceLicence

**State.** `db[o]` and `recent` are `license_keys`; `cache[o]` is the Redis entry with the time
it was set; `inst[n]` and `failing[n]` belong to one API process; `refr[n]` is its refresher
goroutine, with the organisation it once resolved and keeps; `env` is `VAKT_LICENSE_KEY`. A key
is a record of its payload; a licence is a key plus the `Expired` bit that `parse` computed.

**Actions.** A request is `CacheLookup`, then on a miss `QueryRow`, `FillCache`, and `Finish`
when the handler behind the gate has answered. An activation is `Activate` (parse),
`ActivateRow`, `ActivateSet`, `ActivateEvict`. A renewal is `Check` (due), `Token`, `Fetch` or
`FetchFails`, `Compare`, `RefreshSet`, `RefreshOrg`, `RefreshUpdate`, `RefreshEvict`: the
instance pointer is read anew by `due`, `currentToken`, `fetchKey` and `tryRefresh`, and an
activation may land between any two. `Restart` is `Load` plus `AdoptActivatedKey`.
`ServerAnswers` is the billing service as this code sees it (external).

**Failures.** `Faults` may hold `"db"`, `"redis"` and `"net"`; each makes the calls of that kind
fail, and each failure is handled as in the code. **Time.** `TTL` is `licenceCacheTTL` (60 s) and
`ReqLife` the request timeout of `cmd/api` (30 s), in ticks. With both 0 in the run, everything
a lifetime long happens within a tick.

**Left out.** The demo licence, the signature, `VAKT_LICENSE_TOKEN` (it stands in for the token
in the key), the response bodies.

### 2.4 Sessions

**State.** PostgreSQL: `pgVer` (`users.pw_version`), `rows` (`refresh_sessions`),
`denied["pg"]`. Redis: `rdVer` (the version's mirror), `keys` (`refresh:<hash>`),
`denied["redis"]`. `issued[t]` is the version stamped into the access token of session `t`.
A request (`req[r]`) is the sequence of store calls of one handler: login and refresh end in
`Stamp`, `StoreRefresh`, `RecordSession` (`issueTokenPair`); logout, `RevokeAllSessions` and the
password reset are walks over `deny`, `dropRows`, `dropKeys`, `bump`, `mirror` in the code's
order. `Accepts` is the middleware: `checkDenyList` and `checkPwVersion`, Redis first, then
PostgreSQL, and with neither the token passes, as in the code. History remembers what the two
stores disagree about: `mirrored`, the largest number of PostgreSQL's that reached Redis (a smaller
one there is `Overtaken`), `redisOnly`, `apart`, and the sessions a store failed to list (`missed`).

**Failures.** `Outage` takes a store away and `Recover` brings it back between any two calls;
`Evict` drops any Redis key, since Redis runs with `allkeys-lru`. `RoomToSign` and `RoomToBump`
keep the bounded session numbers and versions from running out in mid-request.

**Left out.** Expiry (it only shortens what is modelled), login lockout, TOTP, OIDC and SAML.

### 2.5 Offboarding

**State.** `run[x]` is a row of `hr_checklist_runs`, `member` the `org_members` row (also the only
way to find the account), `alive` the tokens and API keys that are accepted, `attested` what
evidence rows claim is revoked. `CompleteStep` (op `step`), `UpdateChecklistRun` (`put`),
`UpdateEmployee` (`terminate`) and user management's `RemoveUser` (`remove`) work on a copy of
the run read at the beginning; the first three pass the gate `Resolve`, `RevokeTokens`,
`RevokeApiKeys`, `DisableUser`, then `WriteRun` and `FireEvidence`. `Die` ends a request between
any two calls. The employee signs in (`SignInCheck`, `SignIn`) and creates keys
(`CreateApiKeyCheck`, `CreateApiKey`) in two steps each, since authentication precedes the
insert.

**Left out.** Onboarding runs (no gate), CRUD, the Personio import, API key rotation.

### 2.6 Membership

**State.** `role[u]` (`org_members.role_id`) and `account[u]` (`users.is_active`), the row locks
`holder[u]` and `roleHolder`, `live` (accepted tokens as user and role claim), `req[r]`.

**Locks.** `SELECT ... FOR UPDATE` is `Snapshot` (which rows it wants) followed by one `LockRow`
per row, in any order; a row that changed while the request waited is looked at again, one that
began to match is never seen, and one that was deleted is skipped, even if a new one took its
place (`Unseen`). This is PostgreSQL at READ COMMITTED, and the reason why counting
locked rows (`LastAdmin`) is less obvious than it looks. `Deadlock` is PostgreSQL's detector,
`Rollback` a failed call or a client that left. A write and its COMMIT are one step, the
revocation after it another that may fail (`RevokeSessions`).

**Left out.** SCIM listing, collisions of names, the `users.role` cache, several organisations.

### 2.7 AuditTrail

**State.** `log` is one organisation's `audit_log`. A hash stands for the row it was computed
from, so `prev` is the creation time of the row it links to; `nth` (history) is the position in
commit order. A write is `WriteBegin` (the snapshot that decides which row is the tail),
`WriteLock`, `WriteStamp` (the process's clock, read under the lock, which may lag by
`MaxSkew`), `WriteCommit`; `WriteFails` rolls back. `LogUnchained` is `Logger.Log`,
`RunRetention` the soft delete, `DropPartitions` `MaintainPartitions`. `BadRows` and `Verdict`
are `VerifyOrgChain`. The forwarder is `ForwardRead`, `ForwardSend`, and one `ForwardMark` per
row, each of which may fail.

### 2.8 DataSubjects and OverdueAlerts

`dsr[d]` is a row of `po_dsr` (type, status, whether the notes hold the evidence marker, days
left); `pii` the subject's rows elsewhere. `UpdateDSR` and `ResolveDSR` are `UpdateRead` or
`ResolveRead` and a `Write` that repeats no condition of the read. `ExecuteErasure` is
`EraseRead`, `EraseResolve`, `EraseEnrolments`, `EraseEvents`, `EraseFinish`: one transaction
whose statements each see what is committed when they run. Meanwhile Vakt HR deletes the
employee (`EmployeeDeleted`), the enrolment of a new employee arrives late (`Enrol`), and a click
is attributed and recorded in two steps (`Attribute`, `RecordClick`).

`OverdueAlerts` EXTENDS `DataSubjects` and adds the daily task: `CronStart` reads the requests,
`Fire` and `Mark` deliver and suppress; `Crash` hands the task out again, `Missed` skips it,
`Toggle` switches channels or stops the receiver, `NextDay` moves both calendars. Every step of
the composition is a step of one of the two, and `AlertsObserveRequests` proves that what was
proved of the requests holds in it.

## 3. Runs

| Run | Instance | Distinct states | Shows |
|---|---|---|---|
| `billing_cycle` | 1 subscription, 2 vouchers, 2 handlers, days 0..2, faults; quote, grant, approve, webhook, renew, fetch, convert | 1 154 000 | `KeyWithinPaid`, `OneKeyPerInvoice`, `RenewalFollowsPayment`, `FreeNeverInvoiced` through a first period, its renewal and a conversion |
| `billing_seats` | 4 organisations, 4 licence rows, 2 seats bought, 2 handlers, day 0, faults | 361 000 | `SeatOverrunBounded` with seats issued and revoked at once |
| `billing_storno` | 1 voucher, both reconciliation callers, poller, reminders, cancellation, revocation, faults | 1 493 000 | `TypeOK`, `ImplementsContract`, `InvoiceFinality`, `SevereDriftPersists` |
| `billing_live` | 2 vouchers, no faults, days 0..3, fairness | 64 000 | `CycleAlive`; `PaidIsSettled`, `KeyCatchesUp`, `DueIsBilled` |
| `claim_lost` | 1 voucher, faults | | violates `PaidStatusRenews` (section 4) |
| `licence` | 1 process, 1 organisation, a reader and an admin, 2 keys of which the environment may hold the first, all faults, 1 restart, fairness | 472 000 | `TypeOK`, `FreshLicence`, `ExpiryRespected`; `FailingHeals`, `Renewed` |
| `sessions` | 2 sessions, 2 requests, versions up to 2, an outage, an eviction | 1 106 000 | `TypeOK`, `RevokedStaysRejected`, `RevocationIsDurable`, `EveryKeyIsListed`, `SignInIsHonoured` |
| `offboarding` | 2 requests, a token, an API key, 1 run with 1 required step, a fault, user management, fairness | 1 096 000 | `TypeOK`, `EvidenceIsTrue`, `HandleKept`, `ClosedMeansOut`; `RetryCompletes` |
| `audit` | 2 writers, a forwarder, 4 instants in 2 years, skew 1, batch 2, a fault, fairness | 232 000 | `TypeOK`, `NoFalseAlarm`, `ReplayIsHistory`, `MarkedIsReceived`; `EventuallyReceived` |
| `membership` | 2 users, 2 requests, 2 tokens at a time | 2 321 000 | `TypeOK`, `AdminRemains`, `ClaimsAreCurrent` |
| `data_subjects` | 1 request, 2 handlers, due after a day | 539 000 | `CompletedIsErased`, `EvidenceSurvives` |
| `overdue_alerts` | 1 request, 1 handler, due after 2 days, ages up to 3 | 2 114 000 | `MarkMeansTold`, `SilenceBounded` |

Symmetry is declared in runs without liveness only, over sets whose members no definition
names: vouchers and handlers, the organisations other than the company, sessions and requests,
the users other than the first Admin.

Deadlock checking is on except in `audit` and `data_subjects`, where the system really may stop:
in the first the instants are used up and the forwarder has nothing pending, in the second the
request has been deleted and nothing is left of the subject.

### The bounds, and why they are enough

* Billing. Every operation touches one subscription, and the only state two subscriptions share
  is a sweep's list, worked through item by item. Two handlers are two of the same kind, a
  handler and a sweep, or two sweeps. The days reach the end of a period of two, its lead time,
  its grace and its renewal. Which operations meet is chosen per run (`Ops`); the theorems know no
  such choice.
* Licence. One reader meets its own leftovers in the cache, because it finishes and starts again.
  Two ticks after the start the first key has run out and entries of both earlier ticks are gone.
* Sessions. Two sessions are one from before a revocation and one from after; two requests are
  any two handlers; two versions are two bumps, which can be mirrored in either order.
* Offboarding. Two requests can be two steps of one run, an edit against a step, or user
  management against the gate; one token and one key suffice to be missed by a revocation.
* Audit. Two writers overlap, two years let a partition go, batch 2 of up to four rows leaves a rest.
* Membership. Two users are the last two Admins; two tokens are the caller's and the victim's
  (`MaxTokens`). With two requests every pair of transactions deadlocks or takes turns.
* Data subjects. One request erased by two handlers, or edited by one and erased by the other.
* Alerts. An age of three days and more makes no difference to a 24-hour window
  (`ForgottenAssumption`).

Faults are counted (`MaxFaults`, `MaxOutages`, `MaxEvictions`, `MaxCrashes`) or, in billing, the
licence, memberships, requests and alerts, unlimited. The proofs cover any number of everything
above.

### Fairness

* Billing: a handler that was started goes on (`WF` of `HandlerStep`); each sweep starts again
  and again (`SF` of `PollOnce`, `RenewOnce`, `MailExpiringOnce`): each is a `time.Ticker` loop
  that lives as long as the process. Strong, because in the model a sweep needs a free slot of
  `Procs`, for which handlers compete, while in the code it has a goroutine of its own. In a run
  without faults no day passes while a payment the poller would find is unclaimed: the poller runs
  many times a day. The binary that starts the sweeps is not part of this repository; that they
  run for ever is an assumption (their comments say so).
* Licence: the refresher checks for ever and finishes what it began (`AutoRefresher.Start`), and a
  fetch the service would answer does not fail for ever (`SF` of `Fetch`).
* Offboarding: handlers run to their end, and an admin who sees an open run posts its steps again
  (`SF` of `CompleteStep`): the run stays `in_progress`, which is what the code promises in return
  for "a retry after a partial failure completes the rest". Faults are bounded, so they do not go
  on for ever.
* Audit: the scheduler starts the forwarder every five minutes (`cmd/worker/scheduler.go:418`), so
  `WF` of `Forward`.

## 4. Disagreements between code and comments

With a run, `claim_lost`: `settle` books the invoice as paid first. If anything after that fails,
the subscription stays `approved`, no retry finds an open invoice, and `LicenceStatus` shows it as
paid: "the current period is settled. The key renews."

Further disagreements. Each is stated in its module, after the properties the code keeps, and TLC
finds a counterexample when the named `.cfg` checks it instead, with the changes given.

| Property | Start from, change | What happens |
|---|---|---|
| `ApprovedOnce` | `BillingStorno`: `Ops` quote, approve; 2 vouchers, no faults | two clicks raise two invoices; `handler.go:359` calls the link idempotent |
| `OneOpenInvoice` | `BillingStorno`: `Ops` grant, approve, convert; 2 vouchers, no faults | two conversions invoice at once (`subscription.go:32`); with faults and a renewal also an INSERT that fails after `CreateInvoice` |
| `CancelledNeverInvoiced` | `BillingCycle`: `Ops` quote, approve, renew, cancel, webhook | cancelled while the sweep holds it in its list, and invoiced (`subscription.go:31`) |
| `NoEarlyPeriod` | `BillingCycle`: `Ops` grant, approve, renew, convert | a conversion that read the period end before the sweep extended it (`free.go:288`); with `Ops` grant, approve, renew, faults and `MaxDay` 3 also a free period that was recorded before its UPDATE failed, so that the next sweep grants one more at once (`free.go:392`) |
| `NextFollowsPaid` (PROPERTY) | `BillingCycle`: `Ops` grant, approve, renew, convert, webhook; no faults, no SYMMETRY | a conversion (`free.go:288`), or the settlement of an invoice (`handler.go:758`), writes the date of the end it read, behind a period the sweep recorded meanwhile |
| `NoInventedInvoice` | `BillingStorno`: `Ops` grant, approve, convert, reconcile | free periods granted before a conversion are reported as invoices Vakt invented (`reconcile.go:102`, `free.go:42`) |
| `SeatCap` | `BillingSeats`: `Ops` grant, approve, issue | two seat requests both pass the count (migration 238, line 54) |
| `RemindedOncePerDay` | `BillingStorno`: `Ops` quote, approve, remind | two clicks both pass the check (`actions.go:239`) |
| `PaidIsSettled` | `BillingLive`: `PollWindow` 1 | a payment after the poller's 180 days (`handler.go:838`) |
| `ExpiredIsTrue` | `Licence`: `Spec` | the instance licence is parsed once; a key from the environment that runs out while the process lives keeps granting writes where it is the fallback |
| `ReplicasAgree` | `Licence`: `Spec`, 2 nodes | an activation reaches one process; `helm/vakt/values.yaml` says no in-memory state diverges |
| `RevocationTakesEffect` | `Sessions`: no outages, no evictions | two revocations bump PostgreSQL in one order and mirror to Redis in the other: the older number stays, and a token "rejected on the very next request" (`auth/service.go:841`) is accepted |
| `SignInIsNeverLockedOut` | `Sessions`: `Spec` | a sign-in after such reordered mirrors, a lost one, or a bump by INCR alone carries the number of one store, and every request is refused once the other one answers, until the next bump or sign-in (`auth/service.go:578`) |
| `AttestedRevocationSucceeded` | `Offboarding`: `Spec` | a lookup of the account that fails is taken for a person without one (`vakthr/service.go:254`), and a retry publishes evidence that "has already succeeded" (`:626`) |
| `LastAdminStays` | `Membership` | the guard counts rows it locked by their role before the wait and may hold none but its own (`usermgmt/service.go:171`) |
| `SomebodyAdministers` | `Membership` | deactivating the only active Admin is not refused by PATCH or PUT, and an inactive Admin counts as one (`scim/service.go:400`) |
| `PatchKeepsActive` | `Membership` | a PATCH of another attribute writes back the `is_active` it read, over a deactivation (`scim/service.go:345`) |
| `BadRowIsABreak` | `Audit`: `Spec` | two writers that overlap break the chain of an untouched log (`verify.go:81`) |
| `FalseAlarmRecognised` | `Audit`: `Spec` | a lagging clock or a dropped partition gives a false alarm without the shared `prev_hash` operators are told to look for (`helm/vakt/values.yaml:101`) |
| `EvidenceAlwaysSurvives` | `DataSubjects` | an edit that read the request before its erasure overwrites the marker (`vaktprivacy/repository.go:844`) |
| `OnlyErasureCloses` | `DataSubjects` | a completed erasure is reopened by an edit in flight and closed again by one (`dsr_erasure_guard.go`) |
| `NothingRemains` | `DataSubjects` | an enrolment that arrives late, or one whose employee Vakt HR deleted, is left behind a completed erasure (`repository.go:961`) |
| `AlarmIsDeserved` | `OverdueAlerts` | `due_date < NOW()` on a DATE rings on the due day, and for extended requests (`cmd/worker/handlers_secprivacy.go:132`), where the deadline check uses `CURRENT_DATE` and leaves extended ones out (`service_dsr_enhanced.go:28`) |

Seen while modelling, inside the modelled steps but without a property of their own:

* `license/autorefresh.go:217`, `:227`: an `UPDATE` of `license_keys` that fails is never retried,
  and the organisation is resolved once: the row keeps the old key while the instance has the new
  one. `renewal_failing`, "always false while renewal is not due", stays true after a key was entered
  by hand until the next daily check (`FailingHeals` says that it ends).
* `subscription.go:88`: a renewal continues from the latest end of all rows, voided ones included.
* `auth/service.go:520`: a refresh that read its key before `RevokeAllSessions` and stamps after the
  bump yields a live session; the password's re-hash at login (`:366`) can write over a reset. A bump
  PostgreSQL did not answer is an INCR in Redis alone (`:968`), whose number a later bump repeats:
  `RevocationIsDurable` and `RevokedStaysRejected` hold until that happens (`redisOnly`).
* `auth/service.go:385`: a token may be issued with a role that was read before it changed and its
  sessions were revoked, and `usermgmt/service.go:252` drops the error of a revocation that failed.
  `ClaimsAreCurrent` excepts these tokens (`outlived`); nothing but their expiry ends them.
* `siem/service.go:172`: retention takes unforwarded rows first; they never reach the SIEM
  (`EventuallyReceived` excepts them).
* HR's offboarding removes a membership without asking whether it is the last Admin's
  (`db/vakthr.sql.go:641`), which is why `AdminRemains` excepts it.
* An erasure of Vakt Privacy deletes refresh sessions without bumping the password version, and after
  an HR offboarding it misses the `users` row, because its lookup joins `org_members`
  (`vaktprivacy/repository.go:1026`).
* `apikeys/rotation_and_scopes.go:83` hands out `sk_` keys; the middleware refuses one without
  scopes, so a rotated key without scopes never works, although both are meant to be valid in the
  grace period (`:72`). API key rotation is not modelled.

## 5. Proofs

Eight modules of proofs are checked by TLAPS with SMT, Zenon and, for the last step of each
theorem, LS4. They hold for every value of the constants, from the named assumptions next to
them: bounds are naturals, sets that are counted are finite, "no value" is no value, and a
subscription buys at least one seat (`SeatsAssumption`; `RequestQuote` and `CreateSubscription`
raise a quantity below one to one). TLC evaluates all of them in every run. Every safety property
of the passing runs has a theorem; what a theorem assumes beyond that stands in its statement.

**Types.** `TypeCorrect`, `LicenceTypeCorrect`, `SessionsTypeCorrect`, `MembershipTypeCorrect`,
`OffboardingTypeCorrect`, `AuditTypeCorrect`, `DataSubjectsTypeCorrect`.

**Entitlement** (`BillingProofs`): `KeysNeverOutliveWhatWasPaid`, `RenewalNeverAheadOfPayment`. A
handler signs against a limit it read some steps ago, so neither is inductive. `EntitlementInv`
adds that the end of every row booked as paid is covered by `paidMax` and that so is whatever a
handler carries, at every point from which it may sign or write a date. `paidMax` never falls, so
what a handler carries stays covered whatever the others do. That is also the exact meaning: a key
is bounded by what *was* booked as paid, not by what still is.

**Refinement** (`BillingRefinement`): `BillingImplementsContract`, and on the way
`AtMostOneKeyPerInvoice` and `InvoicesAreFinal`. `HoldingInv` says who may act on which invoice: a
voucher has one row; between raising an invoice and recording it one handler carries it and nobody
else does; two handlers at `st_sign` have claimed different invoices, each of them already spent in
the books and with no key yet (`Holds`, `Apart`). The claim's UPDATE hands an invoice to one handler
only. With it, each action of `Billing` is one step of the contract or a stutter.

**Who does what** (`BillingProofs`). The invariants below need to know how a handler came to
where it stands. `Arrivals` says it once for all of them: which operation brings a handler to which
step, from which step, and with what in its record; `TableWriters` says which step writes which
table; `OpsFit` that a handler is at a step of its own operation. A proof about one table then
splits on its few writers, not on all actions.

**Who is invoiced** (`BillingProofs`): `FreeLicencesAreNeverInvoiced`. A sweep acts on the free
flag it read for its whole list, and a conversion clears the flag meanwhile. `BilledInv` says that
whoever stands before `CreateInvoice`, or still has a subscription on its list as not free, is
right about it now (`MayBill`): the flag is only ever cleared (`SubsAdvance`).

**What the reconciliation reports** (`BillingProofs`): `SevereDriftsStayReported`. `ReportInv`: the
loop is one goroutine, what it reports as voided is voided for good, and a loop that asked Lexware
later has it flagged in what it carries to the rows.

**Seats** (`BillingProofs`): `SeatOverrunIsBounded`. The count is not locked, so the invariant
counts the seats taken and those admitted together (`SeatBound`): the last handler to be admitted
saw a free seat, and at most one organisation is pending per handler. An approval inserts a row
too, without counting: that of the subscriber's own organisation. It takes no seat that was not
taken, because seats are asked for after a first approval, and `AnchorInv` keeps that approval's
row: whatever shows that one went through (an invoice, a key, a handler behind the approval)
implies a row of that organisation no handler may still drop.

**The cycle** (`BillingRefinement`): `CyclesNeverStop`, `PaidLicencesRenew`,
`OnlyAVoidedInvoiceStopsACycle`, all with the hypothesis `Faults = FALSE`; the first two also
assume that no invoice is voided (`"storno" \notin Ops`). Neither can be dropped: `claim_lost` is the
counterexample of one failing call, and the third theorem says that voiding is the only other way
out of billing. `CycleInv` holds in every state without faults: an invoiced subscription has an
invoice somebody can still act on (`Pending`), or is paid and has its next date (`Turning`). It
takes in that a row once written only moves on (`RowsAdvance`), and that the sweep's two statements
between a renewal's row and its cleared date concern an invoice nobody was mailed, hence nobody
paid (`NeverPaid`). `FirstLicExists` finds the oldest row of the subscriber's organisation, where
`settle` stores the key: without one it would return before the date is set.

**Staleness** (`InstanceLicenceProofs`): `StalenessBounded`, `ExpiredKeysOnlyRead`. A request runs
under the key the row holds or one it held at most `TTL + 2 * ReqLife` ago; `leftAt` remembers when
a key left the row, for that long. `FreshnessInv` dates a licence on its way: one just read is
known since its request began, a cached one since `ReqLife` before it was cached, and is at most
`TTL` old; no request outlives `ReqLife`. The sum is `TTL + 2 * ReqLife`, not the 60 s the comment
in `Activate` mentions, because a request that read the old row may put it back after the
invalidation. The argument uses no deletion: the bound holds even if every `Del` fails.

**Revocation** (`SessionsProofs`): `RevocationsAreDurable`, `RevokedSessionsStayRejected`,
`SignInsAreHonoured`, `KeysAreListed`. `SessionInv` orders versions: what a request stamped is at
most `pgVer`, what a confirmed revocation saw was stamped below the number it wrote, hence below the
largest one that ever reached Redis, `mirrored`, which PostgreSQL had taken before
(`VersionsOrdered`). Mirrors may be reordered, lost or evicted in all of this; it ends with a bump
Redis took alone (`redisOnly`). A sign-in is honoured as long as the two stores hold one number, or
Redis none, while no bump is in flight (`InStep`), which the last mirror decides (`apart`). The
session list is exact but for the sessions a store failed for: each exempts itself only
(`KeysListed`). The bounds on numbers are part of the invariant (`RoomKept`), since they are what
keeps a version in its type.

**Membership** (`MembershipProofs`): `OrganisationKeepsAnAdmin`, `ClaimsFollowMembership`. What a
guard counted it has locked, and a locked Admin stays one until the lock goes (`HeldAdmins`), so a
write behind a guard leaves an Admin whose row the writer held (`GuardedWrites`).

**Offboarding** (`OffboardingProofs`): `EvidenceStaysTrue`, `TheHandleIsKept`, `ClosedRunsMeanOut`.
`OffboardingInv` says of each request, by where in the gate it stands, what is already dead:
`Sound(r)` relates `found`, `tokensDead`, `failed` and the credentials `r` saw when it began (`old`)
to `alive`, so that reaching `evidence` means that all of `old` is dead or excused.

**Audit** (`AuditTrailProofs`): `NoFalseAlarms`, `ReplayedChainsAreHistory`, `MarksAreReceived`. Of
`AuditInv`, one part holds always: rows and stamps have instants of their own, a writer's tail stays
in the chain, a row whose predecessor left was there before any writer in flight (`OrphansOld`), and
links that lead back in time lead back in commit order (`LinksLeadBack`). The other part holds while
writers took turns on clocks that agree: every row links to the row before it, or to one that left
with its partition (`LinkedOrCut`), so that a cut is all the verifier can report, however many
partitions go. The replay theorem assumes none of this: a verdict other than "broken" means that
everything links to the row before it (`Linked`, `NothingBadMeansLinked`); then a first row out of
commit order would have a predecessor in order, and there is none (`LinkedInOrder`, a minimal
counterexample).

**Erasure and alerts** (`DataSubjectsProofs`): `CompletedErasuresErased`, `EvidenceStays`;
`AlertsObserveRequests` (`AlertSpec => Spec`, the requests inside the composition behave as
without it); `MarksAreDeserved`, `SilenceIsBounded`. `ErasureInv` follows what an erasure found
through its statements (`AtWork`); `AlertInv` adds why a day may have been silent
(`SilenceHasACause`) and that the mark which silenced it is too old to silence the next one
(`MarkWornOut`).

Only model-checked: everything that needs fairness (`PaidIsSettled`, `KeyCatchesUp`, `DueIsBilled`,
`FailingHeals`, `Renewed`, `RetryCompletes`, `EventuallyReceived`), which is out of the prover's
reach. And the runs, not the theorems, show that the interesting cases happen at all: each mutant
of an action is caught there.

## 6. Not modelled

* API key rotation and scopes; webhooks' deliveries; scheduled reports; the worker's other
  schedules, of which the SLA and contract alerts run the same code as the one modelled.
* Login lockout, TOTP, OIDC and SAML; SCIM listing.
* Vakt Scan, Vault, Aware and Comply beyond what erasure and offboarding touch: mostly CRUD on
  single rows. Findings and scans, secret rotation, campaigns and the incident deadlines (DORA,
  NIS2) have control of their own and would be next.
* The panel's own session, generated queries, exports, the frontend, the AI assistant: no
  control, or none but the called operation's.

## 7. Plan

1. Rotation of an API key with its grace period, as actions of `Offboarding`, whose gate must reach
   both keys.
2. `NoEarlyPeriod` under the hypotheses that make it true: no conversion, one approval at a time.
3. An abstract register with bounded staleness that `InstanceLicence` implements, and one for
   `RevokeAllSessions` that `Membership` and `Offboarding` instantiate instead of citing.
4. Webhook deliveries with their retries and the disabling of an endpoint, composed with
   `OverdueAlerts`.
5. The incident deadlines of Vakt Comply and the scan life cycle of Vakt Scan.
