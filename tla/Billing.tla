------------------------------ MODULE Billing ------------------------------
(***************************************************************************)
(* The direct-sale billing service of Vakt                                 *)
(* (backend/internal/billing/lexware): quote requests that become          *)
(* subscriptions, the invoices raised for them in Lexware Office, the      *)
(* licence keys signed against paid periods, and the sweeps and request    *)
(* handlers that share those tables.                                       *)
(*                                                                         *)
(* Handlers run concurrently and hold no lock: every SQL statement and     *)
(* every Lexware call is one atomic step, and what a handler read earlier  *)
(* is kept in its own record proc[p] until it uses it.  One day of the     *)
(* calendar is one unit of time; the day does not change while a handler   *)
(* runs (each has a deadline of at most five minutes).                     *)
(*                                                                         *)
(* An operator no other definition uses, placed right before the one it    *)
(* resembles (LimitsFromToday before Limits), is a faulty variant of it:   *)
(* the mutation checks put it in its place to see a property fail.         *)
(***************************************************************************)
EXTENDS Integers, FiniteSets

CONSTANTS
    Subs,        \* rows of billing_quote_requests (a request becomes the subscription)
    Vouchers,    \* invoices Lexware can hand out
    NoVoucher,   \* the synthetic "free:<sub>:<start>" reference of a free period
    MaxLic,      \* bound: rows of billing_licenses
    Orgs,        \* organisations a seat can be issued for
    Company,     \* the subscriber's own organisation
    Procs,       \* handlers that can be in flight at the same time
    Ops,         \* operations enabled in this instance of the model
    Faults,      \* TRUE: a database, Lexware, signing or mail call may fail
    MaxDay,      \* bound: last day of the calendar
    Period, GraceDays, LeadDays,          \* the plan (plans.go)
    PollWindow,  \* days an open invoice is asked about (180 in pollOnce)
    TrialDays, RenewBelow, MailBelow,     \* lifetimes in days (license/sign.go)
    Quantity     \* seats bought

ASSUME PlanAssumption ==
    /\ Period \in Nat /\ GraceDays \in Nat /\ LeadDays \in Nat
    /\ LeadDays < Period
    /\ TrialDays \in Nat /\ RenewBelow \in Nat /\ MailBelow \in Nat /\ PollWindow \in Nat
ASSUME BoundsAssumption ==
    /\ MaxDay \in Nat /\ MaxLic \in Nat /\ Quantity \in Nat /\ Subs # {}
    /\ NoVoucher \notin Vouchers /\ Company \in Orgs /\ Faults \in BOOLEAN
\* RequestQuote and CreateSubscription raise a quantity below one to one.
ASSUME SeatsAssumption == Quantity >= 1 /\ Procs # {} /\ IsFiniteSet(Procs)

NULL == -1       \* SQL NULL in a date column
Lics == 1..MaxLic
Horizon == MaxDay + 2 * Period   \* bound: latest end of a free period
Dates == Int     \* a day, or NULL

VARIABLES
    now,         \* today
    sub,         \* [Subs -> row of billing_quote_requests]
    voucher,     \* [Vouchers -> what Lexware holds]
    rows,        \* set of rows of billing_invoices
    lic,         \* [Lics -> row of billing_licenses], in order of creation
    proc,        \* [Procs -> local state of a handler]
    report,      \* what the reconciliation loop last reported (set of drifts)
    paidMax,     \* history: latest period end ever booked as paid, per subscription
    keyMax,      \* history: latest expiry of a non-trial key ever signed
    keysFor,     \* history: how many keys settle() signed on account of a voucher
    nagged       \* history: reminders mailed today on account of a voucher (2: two or more)

vars == <<now, sub, voucher, rows, lic, proc, report, paidMax, keyMax, keysFor, nagged>>
ghosts == <<paidMax, keyMax, keysFor, nagged>>

Statuses == {"none", "requested", "approved", "paid"}
SubRow == [status: Statuses, free: BOOLEAN, contact: BOOLEAN,
           cancelled: BOOLEAN, next: Dates]
InvRow == [v: Vouchers \cup {NoVoucher}, s: Subs, start: Nat, end: Nat,
           status: {"open", "paid", "voided"},
           made: Nat, reminded: Dates]   \* created_at, reminded_at
LicRow == [kind: {"none", "trial", "full", "seat", "deleted"}, s: Subs, org: Orgs,
           key: Nat, expires: Nat, revoked: BOOLEAN]   \* key = 0: license_key is ''
Voucher == [st: {"none", "open", "paid", "voided"}, s: Subs,
            late: BOOLEAN]   \* history: raised for a subscription already cancelled
Drift  == [kind: {"storniert", "storniert-mit-key", "nur-in-vakt", "nur-in-lexware"}, v: Vouchers \cup {NoVoucher}]
Item   == [s: Subs, l: Lics \cup {0}, v: Vouchers \cup {NoVoucher}, free: BOOLEAN, date: Nat]

Pcs == {"idle", "loop", "ap_invoice", "ap_row", "ap_key", "ap_tx", "fr_row", "fr_tx",
        "st_claim", "st_sign", "st_req", "st_lic", "rn_invoice", "rn_row", "rn_clear",
        "rf_row", "rf_next", "cv_flip", "gl_limit", "gl_sign", "ml_sign",
        "is_limit", "is_row", "is_key", "rc_rows", "rm_send"}
OpNames == {"none", "quote", "panel", "grant", "approve", "webhook", "poll", "renew", "convert", "cancel",
            "fetch", "mail", "issue", "revoke", "reconcile", "panelcheck", "storno", "remind"}
Local == [op: OpNames, pc: Pcs, s: Subs, l: Lics \cup {0}, v: Vouchers \cup {NoVoucher},
          end: Nat, lim: Nat, org: Orgs, todo: SUBSET Item]

AnySub == CHOOSE s \in Subs : TRUE
Idle == [op |-> "none", pc |-> "idle", s |-> AnySub, l |-> 0, v |-> NoVoucher,
         end |-> 0, lim |-> 0, org |-> Company, todo |-> {}]

TypeOK ==
    /\ now \in 0..MaxDay
    /\ sub \in [Subs -> SubRow]
    /\ voucher \in [Vouchers -> Voucher]
    /\ rows \subseteq InvRow
    /\ lic \in [Lics -> LicRow]
    /\ proc \in [Procs -> Local]
    /\ report \subseteq Drift
    /\ paidMax \in [Subs -> Nat]
    /\ keyMax \in [Subs -> Nat]
    /\ keysFor \in [Vouchers -> Nat]
    /\ nagged \in [Vouchers -> 0..2]

Init ==
    /\ now = 0
    /\ sub = [s \in Subs |-> [status |-> "none", free |-> FALSE, contact |-> FALSE,
                              cancelled |-> FALSE, next |-> NULL]]
    /\ voucher = [v \in Vouchers |-> [st |-> "none", s |-> AnySub, late |-> FALSE]]
    /\ rows = {}
    /\ lic = [l \in Lics |-> [kind |-> "none", s |-> AnySub, org |-> Company,
                              key |-> 0, expires |-> 0, revoked |-> FALSE]]
    /\ proc = [p \in Procs |-> Idle]
    /\ report = {}
    /\ paidMax = [s \in Subs |-> 0]
    /\ keyMax = [s \in Subs |-> 0]
    /\ keysFor = [v \in Vouchers |-> 0]
    /\ nagged = [v \in Vouchers |-> 0]

-----------------------------------------------------------------------------
(* Helpers.                                                                *)

Larger(a, b) == IF a >= b THEN a ELSE b

RowsOf(s) == {r \in rows : r.s = s}
PaidRows(s) == {r \in rows : r.s = s /\ r.status = "paid"}
HasOpen(s) == \E r \in rows : r.s = s /\ r.status = "open"
IsLatest(r, S) == r \in S /\ \A q \in S : q.end <= r.end

\* Plan.NextInvoiceAt
NextInvoiceAt(end) == end - LeadDays

\* Entitlement(): a paid, uncancelled subscription may hold keys up to the end of
\* the latest period booked as paid, plus grace.  Empty: no entitlement.
Live(s) == sub[s].status = "paid" /\ ~sub[s].cancelled
LimitsFromToday(s) == {now + Period + GraceDays : r \in {q \in PaidRows(s) : Live(s)}}
Limits(s) == {r.end + GraceDays : r \in {q \in PaidRows(s) : Live(s) /\ IsLatest(q, PaidRows(s))}}

\* The next row of billing_licenses to be inserted.
FreshLic(l) == lic[l].kind = "none" /\ \A k \in 1..(l - 1) : lic[k].kind # "none"
Exists(l) == lic[l].kind \notin {"none", "deleted"}
UsedOrgs(s) == {lic[l].org : l \in {k \in Lics : lic[k].s = s /\ Exists(k)}}

Step(p, r) == proc' = [proc EXCEPT ![p] = r]
At(p, pc) == proc[p].pc = pc
\* A handler returns; a sweep goes on with its next item.
Done(p) == Step(p, IF proc[p].todo = {} THEN Idle
                   ELSE [Idle EXCEPT !.op = proc[p].op, !.pc = "loop", !.todo = proc[p].todo])
Starts(p, op) == op \in Ops /\ At(p, "idle")
\* A sweep is one goroutine: it never runs twice at the same time.
Sweeps(p, op) == Starts(p, op) /\ \A q \in Procs : proc[q].op # op
Loops(p, op) == At(p, "loop") /\ proc[p].op = op
Begin(op, todo) == IF todo = {} THEN Idle ELSE [Idle EXCEPT !.op = op, !.pc = "loop", !.todo = todo]
Take(p, i) == i \in proc[p].todo

Signed(s, exp) == keyMax' = [keyMax EXCEPT ![s] = Larger(@, exp)]
Booked(s, end) == paidMax' = [paidMax EXCEPT ![s] = Larger(@, end)]

-----------------------------------------------------------------------------
(* A request becomes a subscription.                                       *)

\* RequestQuote, the public form: never a free licence.
RequestQuote(s) ==
    /\ "quote" \in Ops /\ sub[s].status = "none"
    /\ sub' = [sub EXCEPT ![s].status = "requested"]
    /\ UNCHANGED <<now, voucher, rows, lic, proc, report, ghosts>>

\* CreateSubscription, by hand in the panel.
CreateSubscription(s, free) ==
    /\ (IF free THEN "grant" ELSE "panel") \in Ops /\ sub[s].status = "none"
    /\ sub' = [sub EXCEPT ![s].status = "requested", ![s].free = free]
    /\ UNCHANGED <<now, voucher, rows, lic, proc, report, ghosts>>

\* ApproveRequest: the status is read here and written only by ApproveCommit.
ApproveRequest(p, s) ==
    /\ Starts(p, "approve") /\ sub[s].status = "requested"
    /\ Step(p, [Idle EXCEPT !.op = "approve", !.s = s,
                            !.pc = IF sub[s].free THEN "fr_row" ELSE "ap_invoice"])
    /\ UNCHANGED <<now, sub, voucher, rows, lic, report, ghosts>>

\* CreateInvoice in Lexware (the contact is created just before): irreversible.
CreateInvoice(p, v) ==
    /\ voucher[v].st = "none"
    /\ voucher' = [voucher EXCEPT ![v] = [st |-> "open", s |-> proc[p].s,
                                          late |-> sub[proc[p].s].cancelled]]

ApproveInvoice(p, v) ==
    /\ At(p, "ap_invoice") /\ CreateInvoice(p, v)
    /\ Step(p, [proc[p] EXCEPT !.pc = "ap_row", !.v = v])
    /\ UNCHANGED <<now, sub, rows, lic, report, ghosts>>

InsertLicence(p, l, kind, org, expires) ==
    /\ FreshLic(l)
    /\ lic' = [lic EXCEPT ![l] = [kind |-> kind, s |-> proc[p].s, org |-> org,
                                  key |-> 0, expires |-> expires, revoked |-> FALSE]]

\* The licence row goes in before the trial key is signed: the key carries its token.
ApproveRow(p, l) ==
    /\ At(p, "ap_row") /\ InsertLicence(p, l, "trial", Company, now + TrialDays)
    /\ Step(p, [proc[p] EXCEPT !.pc = "ap_key", !.l = l])
    /\ UNCHANGED <<now, sub, voucher, rows, report, ghosts>>

\* IssueUntil + UPDATE license_key: the key is stored, or signing or storing failed
\* and the handler goes on all the same.
ApproveKey(p, stored) ==
    /\ At(p, "ap_key") /\ (stored \/ Faults)
    /\ lic' = IF stored THEN [lic EXCEPT ![proc[p].l].key = now + TrialDays] ELSE lic
    /\ Step(p, [proc[p] EXCEPT !.pc = "ap_tx"])
    /\ UNCHANGED <<now, sub, voucher, rows, report, ghosts>>

\* One transaction: the request is approved and its first invoice recorded as open.
ApproveCommit(p) ==
    /\ At(p, "ap_tx")
    /\ sub' = [sub EXCEPT ![proc[p].s].status = "approved", ![proc[p].s].contact = TRUE]
    /\ rows' = rows \cup {[v |-> proc[p].v, s |-> proc[p].s, start |-> now,
                            end |-> now + Period, status |-> "open", made |-> now, reminded |-> NULL]}
    /\ Done(p)
    /\ UNCHANGED <<now, voucher, lic, report, ghosts>>

\* approveFree: no Lexware; the granted period is recorded as a paid 0-cent invoice.
FreeRow(p, l) ==
    /\ At(p, "fr_row") /\ InsertLicence(p, l, "full", Company, now + Period + GraceDays)
    /\ Step(p, [proc[p] EXCEPT !.pc = "fr_tx", !.l = l])
    /\ UNCHANGED <<now, sub, voucher, rows, report, ghosts>>

\* "free:<sub>:<start>" is UNIQUE: a second period with the same start is refused.
FreeRefTaken(s, start) == \E r \in rows : r.v = NoVoucher /\ r.s = s /\ r.start = start
FreePeriod(s, start) ==
    /\ rows' = rows \cup {[v |-> NoVoucher, s |-> s, start |-> start,
                            end |-> start + Period, status |-> "paid", made |-> now, reminded |-> NULL]}
    /\ Booked(s, start + Period)

FreeCommit(p) ==
    /\ At(p, "fr_tx")
    /\ IF FreeRefTaken(proc[p].s, now)
       THEN UNCHANGED <<sub, lic, rows, ghosts>>
       ELSE /\ sub' = [sub EXCEPT ![proc[p].s].status = "paid",
                                  ![proc[p].s].next = NextInvoiceAt(now + Period)]
            /\ lic' = [lic EXCEPT ![proc[p].l].key = now + Period + GraceDays]
            /\ FreePeriod(proc[p].s, now)
            /\ Signed(proc[p].s, now + Period + GraceDays)
            /\ UNCHANGED <<keysFor, nagged>>
    /\ Done(p)
    /\ UNCHANGED <<now, voucher, report>>

-----------------------------------------------------------------------------
(* Payment: webhook and poller both end in settle().                       *)

\* Webhook: a hint only; settle asks Lexware whether the voucher is balanced.
Webhook(p, v) ==
    /\ Starts(p, "webhook") /\ voucher[v].st = "paid"
    /\ Step(p, [Idle EXCEPT !.op = "webhook", !.pc = "st_claim", !.v = v])
    /\ UNCHANGED <<now, sub, voucher, rows, lic, report, ghosts>>

AnyItem == [s |-> AnySub, l |-> 0, v |-> NoVoucher, free |-> FALSE, date |-> 0]

\* pollOnce: every open invoice of the last PollWindow days.
AskedFirstOnly(r) == r.status = "open" /\ sub[r.s].status = "approved"
Asked(r) == r.status = "open" /\ r.made > now - PollWindow
PollOnce(p) ==
    /\ Sweeps(p, "poll")
    /\ Step(p, Begin("poll", {[AnyItem EXCEPT !.v = r.v] : r \in {q \in rows : Asked(q)}}))
    /\ UNCHANGED <<now, sub, voucher, rows, lic, report, ghosts>>

\* A sweep leaves one item behind and goes on at pc with the fields of r.
WorkOn(p, i, r) == Step(p, [r EXCEPT !.op = proc[p].op, !.todo = proc[p].todo \ {i}])
Skip(p, i) == Step(p, Begin(proc[p].op, proc[p].todo \ {i}))

PollItem(p, i) ==
    /\ Loops(p, "poll") /\ Take(p, i) /\ i.v \in Vouchers
    /\ IF voucher[i.v].st = "paid"
       THEN WorkOn(p, i, [Idle EXCEPT !.pc = "st_claim", !.v = i.v])
       ELSE Skip(p, i)
    /\ UNCHANGED <<now, sub, voucher, rows, lic, report, ghosts>>

\* UPDATE billing_invoices SET status = 'paid' WHERE ... AND status = 'open' RETURNING
ClaimableAgain(r, v) == r.v = v
Claimable(r, v) == r.v = v /\ r.status = "open"
SettleClaim(p) ==
    /\ At(p, "st_claim")
    /\ \/ /\ \A r \in rows : ~Claimable(r, proc[p].v)
          /\ Done(p) /\ UNCHANGED <<rows, ghosts>>
       \/ \E r \in rows :
             /\ Claimable(r, proc[p].v)
             /\ rows' = (rows \ {r}) \cup {[r EXCEPT !.status = "paid"]}
             /\ Booked(r.s, r.end)
             /\ Step(p, [proc[p] EXCEPT !.pc = "st_sign", !.s = r.s, !.end = r.end])
             /\ UNCHANGED <<keyMax, keysFor, nagged>>
    /\ UNCHANGED <<now, sub, voucher, lic, report>>

\* The oldest licence row of the subscriber's own organisation.
FirstLic(s, l) ==
    /\ Exists(l) /\ lic[l].s = s /\ lic[l].org = Company
    /\ \A k \in 1..(l - 1) : ~(Exists(k) /\ lic[k].s = s /\ lic[k].org = Company)

\* "Not a year from now": to the end of the period this invoice paid for, plus grace.
EntitledFromToday(end) == now + Period + GraceDays
EntitledTo(end) == end + GraceDays
SettleSign(p) ==
    /\ At(p, "st_sign")
    /\ \/ /\ \A l \in Lics : ~FirstLic(proc[p].s, l)
          /\ Done(p) /\ UNCHANGED ghosts
       \/ \E l \in Lics :
             /\ FirstLic(proc[p].s, l)
             /\ Step(p, [proc[p] EXCEPT !.pc = "st_req", !.l = l, !.lim = EntitledTo(proc[p].end)])
             /\ Signed(proc[p].s, EntitledTo(proc[p].end))
             /\ keysFor' = [keysFor EXCEPT ![proc[p].v] = @ + 1]
             /\ UNCHANGED <<paidMax, nagged>>
    /\ UNCHANGED <<now, sub, voucher, rows, lic, report>>

\* The cycle advances; a failed write is logged and the handler goes on.
AdvancedStatusOnly(row, end) == [row EXCEPT !.status = "paid"]
Advanced(row, end) == [row EXCEPT !.status = "paid", !.next = NextInvoiceAt(end)]
SettleRequest(p, stored) ==
    /\ At(p, "st_req") /\ (stored \/ Faults)
    /\ sub' = IF stored THEN [sub EXCEPT ![proc[p].s] = Advanced(@, proc[p].end)] ELSE sub
    /\ Step(p, [proc[p] EXCEPT !.pc = "st_lic"])
    /\ UNCHANGED <<now, voucher, rows, lic, report, ghosts>>

SettleLicence(p) ==
    /\ At(p, "st_lic")
    /\ lic' = [lic EXCEPT ![proc[p].l].key = proc[p].lim, ![proc[p].l].expires = proc[p].lim,
                          ![proc[p].l].kind = "full"]
    /\ Done(p)
    /\ UNCHANGED <<now, sub, voucher, rows, report, ghosts>>

-----------------------------------------------------------------------------
(* Renewal, conversion and cancellation.                                   *)

DateReached(s) == sub[s].next # NULL /\ sub[s].next <= now
\* A free licence has no Lexware contact and needs none.
BillableContactOnly(s) == sub[s].contact
Billable(s) == sub[s].free \/ sub[s].contact
Due(s) == Live(s) /\ DateReached(s) /\ Billable(s) /\ ~HasOpen(s)

\* renewOnce: the due subscriptions, each with the end of its last invoiced period.
RenewOnce(p) ==
    /\ Sweeps(p, "renew")
    /\ Step(p, Begin("renew", UNION {{[AnyItem EXCEPT !.s = s, !.free = sub[s].free, !.date = r.end] :
                   r \in {q \in RowsOf(s) : IsLatest(q, RowsOf(s))}} : s \in {t \in Subs : Due(t)}}))
    /\ UNCHANGED <<now, sub, voucher, rows, lic, report, ghosts>>

\* renewOne on what the sweep selected: a free licence is extended, not invoiced.
InvoicesEveryone(i) == "rn_invoice"
RenewsBy(i) == IF i.free THEN "rf_row" ELSE "rn_invoice"
RenewItem(p, i) ==
    /\ Loops(p, "renew") /\ Take(p, i)
    /\ WorkOn(p, i, [Idle EXCEPT !.pc = RenewsBy(i), !.s = i.s, !.end = i.date])
    /\ UNCHANGED <<now, sub, voucher, rows, lic, report, ghosts>>

RenewInvoice(p, v) ==
    /\ At(p, "rn_invoice") /\ CreateInvoice(p, v)
    /\ Step(p, [proc[p] EXCEPT !.pc = "rn_row", !.v = v])
    /\ UNCHANGED <<now, sub, rows, lic, report, ghosts>>

\* Recorded before it is mailed, or the payment would have nothing to match.
RenewRow(p) ==
    /\ At(p, "rn_row")
    /\ rows' = rows \cup {[v |-> proc[p].v, s |-> proc[p].s, start |-> proc[p].end,
                            end |-> proc[p].end + Period, status |-> "open", made |-> now, reminded |-> NULL]}
    /\ Step(p, [proc[p] EXCEPT !.pc = "rn_clear"])
    /\ UNCHANGED <<now, sub, voucher, lic, report, ghosts>>

RenewAdvance(p) ==
    /\ At(p, "rn_clear")
    /\ sub' = [sub EXCEPT ![proc[p].s].next = NextInvoiceAt(proc[p].end + Period)]
    /\ Done(p)
    /\ UNCHANGED <<now, voucher, rows, lic, report, ghosts>>
\* The cycle goes on only if this invoice is paid: settle sets the next date.
RenewClear(p) ==
    /\ At(p, "rn_clear")
    /\ sub' = [sub EXCEPT ![proc[p].s].next = NULL]
    /\ Done(p)
    /\ UNCHANGED <<now, voucher, rows, lic, report, ghosts>>

\* renewFree: records the next period as paid, then moves the cycle on.
RenewFreeRow(p) ==
    /\ At(p, "rf_row") /\ proc[p].end + Period <= Horizon
    /\ IF FreeRefTaken(proc[p].s, proc[p].end)
       THEN Done(p) /\ UNCHANGED <<rows, ghosts>>
       ELSE /\ FreePeriod(proc[p].s, proc[p].end)
            /\ Step(p, [proc[p] EXCEPT !.pc = "rf_next"])
            /\ UNCHANGED <<keyMax, keysFor, nagged>>
    /\ UNCHANGED <<now, sub, voucher, lic, report>>

RenewFreeNext(p) ==
    /\ At(p, "rf_next")
    /\ sub' = [sub EXCEPT ![proc[p].s].next = NextInvoiceAt(proc[p].end + Period)]
    /\ Done(p)
    /\ UNCHANGED <<now, voucher, rows, lic, report, ghosts>>

\* ConvertToPaid: checks, then the flip, then (invoiceNow) renewOne from today.
ConvertToPaid(p, s) ==
    /\ Starts(p, "convert")
    /\ sub[s].free /\ Live(s)
    /\ \E r \in PaidRows(s) : IsLatest(r, PaidRows(s)) /\
          Step(p, [Idle EXCEPT !.op = "convert", !.pc = "cv_flip", !.s = s, !.end = r.end])
    /\ UNCHANGED <<now, sub, voucher, rows, lic, report, ghosts>>

ConvertFlip(p, invoiceNow) ==
    /\ At(p, "cv_flip")
    /\ sub' = [sub EXCEPT ![proc[p].s].free = FALSE, ![proc[p].s].contact = TRUE,
                          ![proc[p].s].next = NextInvoiceAt(proc[p].end)]
    /\ IF invoiceNow
       THEN Step(p, [proc[p] EXCEPT !.pc = "rn_invoice", !.end = now])
       ELSE Done(p)
    /\ UNCHANGED <<now, voucher, rows, lic, report, ghosts>>

\* Cancel: the key is not revoked, it simply is not renewed.
Cancel(s) ==
    /\ "cancel" \in Ops /\ sub[s].status # "none" /\ ~sub[s].cancelled
    /\ sub' = [sub EXCEPT ![s].cancelled = TRUE, ![s].next = NULL]
    /\ UNCHANGED <<now, voucher, rows, lic, proc, report, ghosts>>

-----------------------------------------------------------------------------
(* Keys after the first one: auto-renewal, the mail sweep, seats.          *)

\* GetLicense: an instance asks with its token and is answered only if paid up.
GetLicense(p, l) ==
    /\ Starts(p, "fetch")
    /\ Exists(l) /\ ~lic[l].revoked /\ lic[l].key # 0 /\ Live(lic[l].s)
    /\ Step(p, [Idle EXCEPT !.op = "fetch", !.pc = "gl_limit", !.l = l, !.s = lic[l].s,
                            !.end = lic[l].expires])
    /\ UNCHANGED <<now, sub, voucher, rows, lic, report, ghosts>>

WorthResigning(expires, lim) == lim > now /\ expires - now < RenewBelow /\ lim > expires
GetLicenseLimit(p) ==
    /\ At(p, "gl_limit")
    /\ \/ /\ \A lim \in Limits(proc[p].s) : ~WorthResigning(proc[p].end, lim)
          /\ Done(p)
       \/ \E lim \in Limits(proc[p].s) :
             /\ WorthResigning(proc[p].end, lim)
             /\ Step(p, [proc[p] EXCEPT !.pc = "gl_sign", !.lim = lim])
    /\ UNCHANGED <<now, sub, voucher, rows, lic, report, ghosts>>

StoreKey(l, lim) == lic' = [lic EXCEPT ![l].key = lim, ![l].expires = lim]
GetLicenseSign(p) ==
    /\ At(p, "gl_sign")
    /\ StoreKey(proc[p].l, proc[p].lim) /\ Signed(proc[p].s, proc[p].lim)
    /\ Done(p)
    /\ UNCHANGED <<now, sub, voucher, rows, report, paidMax, keysFor, nagged>>

\* mailExpiringOnce: full and seat keys about to run out.
MailDue(l) ==
    /\ Exists(l) /\ ~lic[l].revoked /\ lic[l].key # 0 /\ lic[l].kind # "trial"
    /\ Live(lic[l].s) /\ lic[l].expires < now + MailBelow
MailExpiringOnce(p) ==
    /\ Sweeps(p, "mail")
    /\ Step(p, Begin("mail", {[AnyItem EXCEPT !.l = l, !.s = lic[l].s, !.date = lic[l].expires] :
                              l \in {k \in Lics : MailDue(k)}}))
    /\ UNCHANGED <<now, sub, voucher, rows, lic, report, ghosts>>

\* Only if the fresh key gains more than a day (renewalProgress) over the old one.
WorthMailingExpired(expires, lim) == lim > now /\ expires <= now
WorthMailing(expires, lim) == lim > now /\ lim > expires + 1
MailItem(p, i) ==
    /\ Loops(p, "mail") /\ Take(p, i)
    /\ \/ /\ \A lim \in Limits(i.s) : ~WorthMailing(i.date, lim)
          /\ Skip(p, i)
       \/ \E lim \in Limits(i.s) :
             /\ WorthMailing(i.date, lim)
             /\ WorkOn(p, i, [Idle EXCEPT !.pc = "ml_sign", !.l = i.l, !.s = i.s, !.lim = lim])
    /\ UNCHANGED <<now, sub, voucher, rows, lic, report, ghosts>>

\* Stored only after the mail went out; the store itself may fail.
MailSign(p, stored) ==
    /\ At(p, "ml_sign") /\ (stored \/ Faults)
    /\ Signed(proc[p].s, proc[p].lim)
    /\ IF stored THEN StoreKey(proc[p].l, proc[p].lim) ELSE lic' = lic
    /\ Done(p)
    /\ UNCHANGED <<now, sub, voucher, rows, report, paidMax, keysFor, nagged>>

\* Seats.Issue: the seat count is read here and the row inserted two calls later.
SeatFreeOffByOne(s, org) == org \in UsedOrgs(s) \/ Cardinality(UsedOrgs(s)) <= Quantity
SeatFree(s, org) == org \in UsedOrgs(s) \/ Cardinality(UsedOrgs(s)) < Quantity
IssueSeat(p, s, org) ==
    /\ Starts(p, "issue") /\ Live(s) /\ SeatFree(s, org)
    /\ Step(p, [Idle EXCEPT !.op = "issue", !.pc = "is_limit", !.s = s, !.org = org])
    /\ UNCHANGED <<now, sub, voucher, rows, lic, report, ghosts>>

IssueLimit(p) ==
    /\ At(p, "is_limit")
    /\ \/ Limits(proc[p].s) = {} /\ Done(p)
       \/ \E lim \in Limits(proc[p].s) : Step(p, [proc[p] EXCEPT !.pc = "is_row", !.lim = lim])
    /\ UNCHANGED <<now, sub, voucher, rows, lic, report, ghosts>>

IssueRow(p, l) ==
    /\ At(p, "is_row") /\ InsertLicence(p, l, "seat", proc[p].org, proc[p].lim)
    /\ Step(p, [proc[p] EXCEPT !.pc = "is_key", !.l = l])
    /\ UNCHANGED <<now, sub, voucher, rows, report, ghosts>>

\* Signed and stored; signed and not stored; not signed and the row dropped again;
\* not signed and the row left behind, because the DELETE (its error is ignored) failed.
IssueKey(p, outcome) ==
    /\ At(p, "is_key") /\ (outcome = "stored" \/ Faults)
    /\ lic' = CASE outcome = "stored"  -> [lic EXCEPT ![proc[p].l].key = proc[p].lim]
              [] outcome = "dropped" -> [lic EXCEPT ![proc[p].l].kind = "deleted"]
              [] OTHER -> lic
    /\ IF outcome \in {"stored", "unstored"} THEN Signed(proc[p].s, proc[p].lim) ELSE keyMax' = keyMax
    /\ Done(p)
    /\ UNCHANGED <<now, sub, voucher, rows, report, paidMax, keysFor, nagged>>

\* Seats.Revoke: not a kill switch, it stops renewals.
Revoke(l) ==
    /\ "revoke" \in Ops /\ Exists(l) /\ ~lic[l].revoked
    /\ lic' = [lic EXCEPT ![l].revoked = TRUE]
    /\ UNCHANGED <<now, sub, voucher, rows, proc, report, ghosts>>

-----------------------------------------------------------------------------
(* Reconciliation with Lexware.                                            *)

\* Reconcile asks Lexware for every voucher; item.free marks a voided one.  It runs
\* in the background loop and whenever somebody opens the panel.
Reconcile(p, op) ==
    /\ IF op = "reconcile" THEN Sweeps(p, op) ELSE Starts(p, op)
    /\ Step(p, [Idle EXCEPT !.op = op, !.pc = "rc_rows",
          !.todo = {[AnyItem EXCEPT !.v = v, !.free = (voucher[v].st = "voided")] :
                    v \in {w \in Vouchers : voucher[w].st # "none"}}])
    /\ UNCHANGED <<now, sub, voucher, rows, lic, report, ghosts>>

ValidKey(s) == \E l \in Lics : /\ Exists(l) /\ lic[l].s = s /\ lic[l].key # 0
                              /\ ~lic[l].revoked /\ lic[l].expires > now
Covered(r) == \E o \in rows : o # r /\ o.s = r.s /\ o.status = "paid" /\ o.end >= r.start

\* Derived from the state, not from the transition: a warning that only appears when the
\* status changes would erase itself.
SevereOnce(r) == ValidKey(r.s) /\ ~Covered(r) /\ r.status # "voided"
Severe(r) == ValidKey(r.s) /\ ~Covered(r)

\* Then it reads our invoices (not those of free subscriptions) and compares.
ReconcileRows(p) ==
    LET known  == {i.v : i \in proc[p].todo}
        void   == {i.v : i \in {j \in proc[p].todo : j.free}}
        mine   == {r \in rows : ~sub[r.s].free}
        severe == {r \in mine : r.v \in void /\ Severe(r)}
        late   == {r \in mine : r.v \in void /\ r.status # "voided"}
        Report(kind, R) == {[kind |-> kind, v |-> r.v] : r \in R}
    IN /\ At(p, "rc_rows")
       /\ report' = IF proc[p].op = "panelcheck" THEN report ELSE
             Report("nur-in-vakt", {r \in mine : r.v \notin known})
             \cup Report("storniert-mit-key", severe)
             \cup Report("storniert", late \ severe)
             \cup {[kind |-> "nur-in-lexware", v |-> v] : v \in (known \ void) \ {r.v : r \in mine}}
       /\ Step(p, Begin(proc[p].op, {[AnyItem EXCEPT !.v = r.v] : r \in late}))
       /\ UNCHANGED <<now, sub, voucher, rows, lic, ghosts>>

\* The one automatic write: an invoice voided in Lexware is voided here.
VoidedInGerman(r) == [r EXCEPT !.status = "storniert"]
Voided(r) == [r EXCEPT !.status = "voided"]
ReconcileVoid(p, i) ==
    /\ (Loops(p, "reconcile") \/ Loops(p, "panelcheck")) /\ Take(p, i)
    /\ rows' = {IF r.v = i.v THEN Voided(r) ELSE r : r \in rows}
    /\ Skip(p, i)
    /\ UNCHANGED <<now, sub, voucher, lic, report, ghosts>>

-----------------------------------------------------------------------------
(* Reminders.                                                              *)

\* SendReminder, a button in the panel: refused within a day of the last one.
SendReminder(p, v) ==
    /\ Starts(p, "remind")
    /\ \E r \in rows : r.v = v /\ r.status = "open" /\ r.reminded # now
    /\ Step(p, [Idle EXCEPT !.op = "remind", !.pc = "rm_send", !.v = v])
    /\ UNCHANGED <<now, sub, voucher, rows, lic, report, ghosts>>

\* The mail is out; recording it may fail.
RemindSend(p, stored) ==
    /\ At(p, "rm_send") /\ (stored \/ Faults)
    /\ nagged' = [nagged EXCEPT ![proc[p].v] = IF @ < 2 THEN @ + 1 ELSE @]
    /\ rows' = {IF stored /\ r.v = proc[p].v THEN [r EXCEPT !.reminded = now] ELSE r : r \in rows}
    /\ Done(p)
    /\ UNCHANGED <<now, sub, voucher, lic, report, paidMax, keyMax, keysFor>>

-----------------------------------------------------------------------------
(* The environment.                                                        *)

\* The invoice is raised in Lexware but its mail has not left yet.
Unmailed(v) == \E p \in Procs : proc[p].v = v /\ proc[p].pc \in {"ap_row", "ap_key", "rn_row", "rn_clear"}

\* Lexware: the payment is assigned to the voucher; a bookkeeper voids one.
CustomerPays(v) ==
    /\ voucher[v].st = "open" /\ ~Unmailed(v)
    /\ voucher' = [voucher EXCEPT ![v].st = "paid"]
    /\ UNCHANGED <<now, sub, rows, lic, proc, report, ghosts>>

Storno(v) ==
    /\ "storno" \in Ops /\ voucher[v].st \in {"open", "paid"}
    /\ voucher' = [voucher EXCEPT ![v].st = "voided"]
    /\ UNCHANGED <<now, sub, rows, lic, proc, report, ghosts>>

\* A call returns an error and the handler returns early (a sweep takes its next
\* item).  Running out of the model's vouchers, licence rows or days is such an error.
Exhausted(p) ==
    \/ proc[p].pc \in {"ap_invoice", "rn_invoice"} /\ \A v \in Vouchers : voucher[v].st # "none"
    \/ proc[p].pc \in {"ap_row", "fr_row", "is_row"} /\ \A l \in Lics : lic[l].kind # "none"
    \/ proc[p].pc = "rf_row" /\ proc[p].end + Period > Horizon
CallFails(p) ==
    /\ proc[p].pc \notin {"idle", "loop", "ap_key", "st_req", "is_key"}   \* these go on
    /\ Faults \/ Exhausted(p)
    /\ IF At(p, "rc_rows") THEN Step(p, Idle) ELSE Done(p)
    /\ UNCHANGED <<now, sub, voucher, rows, lic, report, ghosts>>

\* A sweep's call for one item fails: it is logged and the sweep goes on.
ItemFails(p, i) ==
    /\ Faults /\ At(p, "loop") /\ Take(p, i)
    /\ Skip(p, i)
    /\ UNCHANGED <<now, sub, voucher, rows, lic, report, ghosts>>

\* The billing process restarts: everything in flight is lost.
Restart ==
    /\ Faults /\ proc # [p \in Procs |-> Idle]
    /\ proc' = [p \in Procs |-> Idle]
    /\ UNCHANGED <<now, sub, voucher, rows, lic, report, ghosts>>

\* The poller runs many times a day: while nothing fails, no day passes over a payment
\* it would find.
Pollable == \E r \in rows : Asked(r) /\ r.v \in Vouchers /\ voucher[r.v].st = "paid"
Tick ==
    /\ now < MaxDay /\ \A p \in Procs : At(p, "idle")
    /\ ("poll" \in Ops /\ ~Faults) => ~Pollable
    /\ now' = now + 1
    /\ nagged' = [v \in Vouchers |-> 0]
    /\ UNCHANGED <<sub, voucher, rows, lic, proc, report, paidMax, keyMax, keysFor>>

HandlerStep(p) ==
    \/ \E v \in Vouchers : ApproveInvoice(p, v) \/ RenewInvoice(p, v)
    \/ \E l \in Lics : ApproveRow(p, l) \/ FreeRow(p, l) \/ IssueRow(p, l)
    \/ \E stored \in BOOLEAN : ApproveKey(p, stored) \/ SettleRequest(p, stored) \/ MailSign(p, stored)
                              \/ RemindSend(p, stored)
    \/ \E outcome \in {"stored", "unstored", "dropped", "burnt"} : IssueKey(p, outcome)
    \/ \E invoiceNow \in BOOLEAN : ConvertFlip(p, invoiceNow)
    \/ \E i \in proc[p].todo : PollItem(p, i) \/ RenewItem(p, i) \/ MailItem(p, i) \/ ReconcileVoid(p, i)
                           \/ ItemFails(p, i)
    \/ ApproveCommit(p) \/ FreeCommit(p)
    \/ SettleClaim(p) \/ SettleSign(p) \/ SettleLicence(p)
    \/ RenewRow(p) \/ RenewClear(p) \/ RenewFreeRow(p) \/ RenewFreeNext(p)
    \/ GetLicenseLimit(p) \/ GetLicenseSign(p) \/ IssueLimit(p) \/ ReconcileRows(p)
    \/ CallFails(p)

HandlerStart(p) ==
    \/ \E s \in Subs : ApproveRequest(p, s) \/ ConvertToPaid(p, s)
    \/ \E s \in Subs, org \in Orgs : IssueSeat(p, s, org)
    \/ \E v \in Vouchers : Webhook(p, v) \/ SendReminder(p, v)
    \/ \E l \in Lics : GetLicense(p, l)
    \/ PollOnce(p) \/ RenewOnce(p) \/ MailExpiringOnce(p)
    \/ \E op \in {"reconcile", "panelcheck"} : Reconcile(p, op)

Next ==
    \/ \E p \in Procs : HandlerStart(p) \/ HandlerStep(p)
    \/ \E s \in Subs : RequestQuote(s) \/ Cancel(s)
    \/ \E s \in Subs, free \in BOOLEAN : CreateSubscription(s, free)
    \/ \E l \in Lics : Revoke(l)
    \/ \E v \in Vouchers : CustomerPays(v) \/ Storno(v)
    \/ Restart \/ Tick

Spec == Init /\ [][Next]_vars

\* A handler that was started runs on.  PollPayments, RenewDue and MailExpiringKeys each
\* tick in a goroutine of their own for as long as the process lives, so each sweep
\* starts again and again whatever the other handlers do.
Fairness ==
    /\ \A p \in Procs : WF_vars(HandlerStep(p))
    /\ SF_vars(\E p \in Procs : PollOnce(p))
    /\ SF_vars(\E p \in Procs : RenewOnce(p))
    /\ SF_vars(\E p \in Procs : MailExpiringOnce(p))

FairSpec == Spec /\ Fairness

-----------------------------------------------------------------------------
(* Properties.                                                             *)

\* Entitlement(): no key other than the pre-payment trial key is ever signed past the
\* end of a period that was booked as paid plus grace, whichever of settle,
\* GetLicense, the mail sweep, Seats.Issue and the free path signs it and whatever
\* happens between reading the entitlement and using it.
KeyWithinPaid == \A s \in Subs : keyMax[s] <= paidMax[s] + GraceDays

\* settle(): webhooks (replayed or concurrent) and the poller sign at most one key on
\* account of one invoice.
OneKeyPerInvoice == \A v \in Vouchers : keysFor[v] <= 1

\* free.go: as long as a subscription is free, no Lexware invoice exists for it, also
\* while a conversion and the renewal sweep are in flight.
FreeNeverInvoiced ==
    \A v \in Vouchers : voucher[v].st # "none" => ~sub[voucher[v].s].free

\* A renewal date is only ever LeadDays before the end of a period that was booked as
\* paid: nobody is invoiced again on account of a period that was never paid.
RenewalFollowsPayment ==
    \A s \in Subs : sub[s].next # NULL => sub[s].next + LeadDays <= paidMax[s]

\* settle(), renewOnce, Reconcile: a voided invoice is never booked as paid again and
\* a paid one never reopened, however claim and storno interleave.
InvoiceFinality ==
    [][\A r \in rows : \A q \in rows' :
          (q.v = r.v /\ q.s = r.s /\ q.start = r.start) =>
             /\ r.status = "voided" => q.status = "voided"
             /\ r.status = "paid" => q.status # "open"]_vars

\* Reconcile: "a storno for an invoice whose key is already with the customer stays
\* reported until somebody acts" - the key is revoked or runs out, or another paid
\* invoice covers the period.
SevereDriftPersists ==
    [][report' # report =>
         \A r \in rows :
            (/\ [kind |-> "storniert-mit-key", v |-> r.v] \in report
             /\ ValidKey(r.s) /\ ~Covered(r))
            => [kind |-> "storniert-mit-key", v |-> r.v] \in report']_vars

\* paidThrough(): the same date without the gate of Entitlement().
PaidThrough(s) == {r.end + GraceDays : r \in {q \in PaidRows(s) : IsLatest(q, PaidRows(s))}}

\* LicenceStatus: what the panel and the portal show for a licence.
LicenceStatus(l) ==
    LET s == lic[l].s
        future == \E lim \in PaidThrough(s) : lim > now
    IN IF lic[l].revoked THEN "gesperrt"
       ELSE IF sub[s].cancelled THEN "gekuendigt"
       ELSE IF HasOpen(s) /\ (future \/ lic[l].expires > now) THEN "laeuft aus"
       ELSE IF future THEN "bezahlt" ELSE "abgelaufen"

Settling(s) == \E p \in Procs : proc[p].s = s /\ proc[p].pc \in {"st_sign", "st_req", "st_lic"}

\* "StatusPaid - the current period is settled. The key renews.": a licence shown as
\* paid is one GetLicense and the mail sweep would renew, once no settlement of that
\* subscription is in flight.
PaidStatusRenews ==
    \A l \in Lics : Exists(l) /\ LicenceStatus(l) = "bezahlt" /\ ~Settling(lic[l].s)
                     => Live(lic[l].s)

\* "Ohne next_invoice_at wird nie wieder eine Rechnung gestellt" (settle): the billing
\* cycle of a paid, uncancelled subscription never stops silently.  It has a next
\* invoice date, an open invoice somebody can pay, or a handler at work on it.
CycleAlive ==
    \A s \in Subs : Live(s) /\ sub[s].next = NULL =>
        HasOpen(s) \/ \E p \in Procs : proc[p].s = s /\ proc[p].pc # "idle"

\* Seats.Issue checks the seat count before it inserts the row, so concurrent requests
\* can overrun it: by at most one seat for every other request in flight.
SeatOverrunBounded ==
    \A s \in Subs : Cardinality(UsedOrgs(s)) <= Quantity + Cardinality(Procs) - 1

-----------------------------------------------------------------------------
(* The contract this module implements.                                    *)

\* The status of an invoice in our books.
InvoiceStatus == [v \in Vouchers |-> IF \E r \in rows : r.v = v
                                   THEN (CHOOSE r \in rows : r.v = v).status ELSE "none"]
\* Claimed by settle(), its key not signed yet.
Owed == {v \in Vouchers : \E p \in Procs : At(p, "st_sign") /\ proc[p].v = v}

Contract == INSTANCE BillingContract WITH
    invoice <- InvoiceStatus, owed <- Owed, keys <- keysFor, paid <- paidMax, key <- keyMax

\* The package's promise as a whole: seen through its books, its handlers, sweeps, retries,
\* failures and restarts do nothing but the atomic steps of BillingContract.
ImplementsContract == Contract!Spec

-----------------------------------------------------------------------------
(* Liveness.                                                               *)

\* PollPayments: "we ask, too. Slower (up to one interval), but it cannot silently stop."
\* An invoice the customer paid is settled even if no webhook ever arrives.
PaidIsSettled ==
    \A v \in Vouchers :
        (voucher[v].st = "paid" /\ \E r \in rows : r.v = v /\ r.status = "open")
        ~> (\A r \in rows : r.v = v => r.status # "open")

\* mailExpiringOnce: a licence whose stored key is behind what was paid for - also one a
\* concurrent GetLicense, sweep or settle overwrote with an older key - is brought up to
\* date again, as long as it stays entitled and unrevoked.
Behind(l) ==
    /\ MailDue(l)
    /\ \E lim \in Limits(lic[l].s) : lim > now /\ lim > lic[l].expires + 1
KeyCatchesUp == \A l \in Lics : Behind(l) ~> ~Behind(l)

\* renewOnce: an overdue subscription does not stay so; it is invoiced (or, free, extended).
\* The model's Lexware has finitely many vouchers: the claim ends when they are used up.
VouchersUsedUp == \A v \in Vouchers : voucher[v].st # "none"
Overdue(s) == Live(s) /\ sub[s].next # NULL /\ sub[s].next <= now /\ ~HasOpen(s)
DueIsBilled == \A s \in Subs : Overdue(s) ~> (~Overdue(s) \/ VouchersUsedUp)

-----------------------------------------------------------------------------
(* What comments in the repository promise and the code does not keep.     *)

\* "It is idempotent: a second click [...] returns the same answer instead of issuing
\* a second invoice" (Approve).
ApprovedOnce ==
    \A v, w \in Vouchers :
        voucher[v].st # "none" /\ voucher[w].st # "none" /\ voucher[v].s = voucher[w].s => v = w

\* The next invoice is due "LeadDays before the paid period ends" (plans.go:159), for a free
\* licence its next period: nothing is billed or granted earlier, whatever fails or interleaves.
NoEarlyPeriod == \A r \in rows : r.start <= now + LeadDays

\* "next_invoice_at haengt an das ENDE des bereits geschenkten Zeitraums an" (ConvertToPaid):
\* whoever moves the date, it does not fall before the end of a period that is paid or given.
NextFollowsPaid ==
    [][\A s \in Subs, r \in rows :
          /\ r.s = s /\ r.status = "paid"
          /\ sub'[s].next \notin {NULL, sub[s].next}
          => sub'[s].next >= r.end - LeadDays]_vars

\* "Cancelled subscriptions are never invoiced again" (RenewDue).
CancelledNeverInvoiced == \A v \in Vouchers : ~voucher[v].late

\* "A subscription with an OPEN invoice is never invoiced again" (RenewDue).
OneOpenInvoice ==
    \A v, w \in Vouchers :
        voucher[v].st = "open" /\ voucher[w].st = "open" /\ voucher[v].s = voucher[w].s => v = w

\* "Not twice in a day. Somebody double-clicks, or opens the panel from two devices, and
\* the customer gets two identical reminders" (SendReminder).
RemindedOncePerDay == \A v \in Vouchers : nagged[v] <= 1

\* "nur-in-vakt [...] Das darf nicht vorkommen" (Reconcile): no report says that Vakt
\* invented an invoice.
NoInventedInvoice == \A d \in report : d.kind # "nur-in-vakt"

\* "It cannot mint an eleventh key for ten paid seats" (migration 238).
SeatCap == \A s \in Subs : Cardinality(UsedOrgs(s)) <= Quantity
=============================================================================
