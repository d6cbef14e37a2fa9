--------------------------- MODULE BillingProofs ---------------------------
(* Proofs about Billing, for every number of subscriptions, vouchers,      *)
(* licence rows and concurrent handlers and every length of the calendar.  *)
EXTENDS Billing, TLAPS, FiniteSetTheorems

-----------------------------------------------------------------------------
(* What may be signed and when the next invoice falls due.                 *)

\* Every row booked as paid is covered by the history of payments.
PaidRowsCovered == \A r \in rows : r.status = "paid" => r.end <= paidMax[r.s]

\* What a handler read in an earlier step is still covered when it uses it, because
\* paidMax never shrinks: r is the handler's record, paid the history of payments.
Watched == {"st_sign", "st_req", "cv_flip", "gl_sign", "ml_sign", "is_row", "is_key", "rf_next"}
Within(r, paid) ==
    /\ r.pc \in {"st_sign", "st_req", "cv_flip"} => r.end <= paid[r.s]
    /\ r.pc \in {"gl_sign", "ml_sign", "is_row", "is_key"} => r.lim <= paid[r.s] + GraceDays
    /\ r.pc = "rf_next" => r.end + Period <= paid[r.s]
HandlersCovered == \A p \in Procs : Within(proc[p], paidMax)

EntitlementInv ==
    /\ PaidRowsCovered
    /\ HandlersCovered
    /\ KeyWithinPaid
    /\ RenewalFollowsPayment

-----------------------------------------------------------------------------
(* Types.                                                                  *)

\* The names of the steps of the handlers, as facts the provers need not rediscover.
LEMMA PcNames ==
    /\ "idle" \in Pcs /\ "loop" \in Pcs /\ "ap_invoice" \in Pcs
    /\ "ap_row" \in Pcs /\ "ap_key" \in Pcs /\ "ap_tx" \in Pcs
    /\ "fr_row" \in Pcs /\ "fr_tx" \in Pcs /\ "st_claim" \in Pcs
    /\ "st_sign" \in Pcs /\ "st_req" \in Pcs /\ "st_lic" \in Pcs
    /\ "rn_invoice" \in Pcs /\ "rn_row" \in Pcs /\ "rn_clear" \in Pcs
    /\ "rf_row" \in Pcs /\ "rf_next" \in Pcs /\ "cv_flip" \in Pcs
    /\ "gl_limit" \in Pcs /\ "gl_sign" \in Pcs /\ "ml_sign" \in Pcs
    /\ "is_limit" \in Pcs /\ "is_row" \in Pcs /\ "is_key" \in Pcs
    /\ "rc_rows" \in Pcs /\ "rm_send" \in Pcs
  BY DEF Pcs

\* The names of the operations, likewise.
LEMMA OpNameFacts ==
    /\ "none" \in OpNames /\ "approve" \in OpNames /\ "webhook" \in OpNames
    /\ "poll" \in OpNames /\ "renew" \in OpNames /\ "convert" \in OpNames
    /\ "fetch" \in OpNames /\ "mail" \in OpNames /\ "issue" \in OpNames
    /\ "reconcile" \in OpNames /\ "panelcheck" \in OpNames /\ "remind" \in OpNames
  BY DEF OpNames

\* A handler that is not running has a well-typed record.
LEMMA IdleType == Idle \in Local
  <1>1. AnySub \in Subs
    BY BoundsAssumption DEF AnySub
  <1> QED
    BY <1>1, BoundsAssumption DEF Idle, Local, OpNames, Pcs

\* The blank work item of a sweep is well typed.
LEMMA AnyItemType == AnyItem \in Item
  <1>1. AnySub \in Subs
    BY BoundsAssumption DEF AnySub
  <1> QED
    BY <1>1 DEF AnyItem, Item

\* The empty tables are well typed.
LEMMA InitType == Init => TypeOK
  <1> SUFFICES ASSUME Init PROVE TypeOK
    OBVIOUS
  <1>1. AnySub \in Subs
    BY BoundsAssumption DEF AnySub
  <1>2. \A p \in Procs : proc[p] \in Local
    BY IdleType DEF Init
  <1> QED
    BY <1>1, <1>2, BoundsAssumption DEF Init, TypeOK, SubRow, Statuses, Dates, NULL,
       Voucher, LicRow, InvRow, Drift

\* A handler's step to a well-typed record keeps all records well typed.
LEMMA ProcType ==
  ASSUME TypeOK, NEW p \in Procs, NEW r \in Local, Step(p, r)
  PROVE  proc' \in [Procs -> Local]
  BY DEF TypeOK, Step

\* So does returning, or going on with a sweep's next item.
LEMMA DoneType ==
  ASSUME TypeOK, NEW p \in Procs, Done(p)
  PROVE  proc' \in [Procs -> Local]
  <1>1. proc[p] \in Local
    BY DEF TypeOK
  <1>2. [Idle EXCEPT !.op = proc[p].op, !.pc = "loop", !.todo = proc[p].todo] \in Local
    BY <1>1, IdleType DEF Local, Pcs
  <1> QED
    BY <1>2, IdleType, ProcType DEF Done

\* A sweep that selected its items starts with a well-typed record.
LEMMA BeginType ==
  ASSUME NEW op \in OpNames, NEW todo \in SUBSET Item
  PROVE  Begin(op, todo) \in Local
  BY IdleType DEF Begin, Local, Pcs

\* Entitlement() answers a day of the calendar.
LEMMA LimitsType ==
  ASSUME TypeOK
  PROVE  \A s \in Subs : \A lim \in Limits(s) : lim \in Nat
  <1>1. \A r \in rows : r.end \in Nat
    BY DEF TypeOK, InvRow
  <1>2. ASSUME NEW s \in Subs, NEW lim \in Limits(s) PROVE lim \in Nat
    <2>1. PICK r \in rows : lim = r.end + GraceDays
      BY <1>2 DEF Limits, PaidRows
    <2> QED
      BY <1>1, <2>1, PlanAssumption
  <1> QED
    BY <1>2

\* What the handlers write into rows of the tables.
LEMMA LicRowEdits ==
  ASSUME NEW r \in LicRow, NEW n \in Nat
  PROVE  /\ [r EXCEPT !.key = n] \in LicRow
         /\ [r EXCEPT !.expires = n] \in LicRow
         /\ [r EXCEPT !.kind = "full"] \in LicRow
         /\ [r EXCEPT !.kind = "deleted"] \in LicRow
  BY DEF LicRow

\* Storing a key keeps billing_licenses well typed.
LEMMA StoreKeyType ==
  ASSUME TypeOK, NEW l, NEW lim \in Nat, StoreKey(l, lim)
  PROVE  lic' \in [Lics -> LicRow]
  <1>1. \A k \in Lics : [[lic[k] EXCEPT !.key = lim] EXCEPT !.expires = lim] \in LicRow
    BY LicRowEdits DEF TypeOK
  <1> QED
    BY <1>1 DEF StoreKey, TypeOK

\* What the handlers write into billing_quote_requests.
LEMMA SubRowEdits ==
  ASSUME NEW r \in SubRow, NEW d \in Dates
  PROVE  /\ [r EXCEPT !.next = d] \in SubRow
         /\ [r EXCEPT !.cancelled = TRUE] \in SubRow
         /\ [r EXCEPT !.contact = TRUE] \in SubRow
         /\ [r EXCEPT !.free = FALSE] \in SubRow
  BY DEF SubRow, Statuses

\* Every step of every operation keeps the tables and the handlers well typed.
LEMMA TypeStep == TypeOK /\ [Next]_vars => TypeOK'
  <1> SUFFICES ASSUME TypeOK, [Next]_vars PROVE TypeOK'
    OBVIOUS
  <1>1. ASSUME NEW s \in Subs, RequestQuote(s) PROVE TypeOK'
    <2>1. sub' \in [Subs -> SubRow]
      BY <1>1 DEF RequestQuote, TypeOK, SubRow, Statuses
    <2> QED
      BY <1>1, <2>1 DEF RequestQuote, TypeOK, ghosts
  <1>2. ASSUME NEW s \in Subs, NEW free \in BOOLEAN, CreateSubscription(s, free) PROVE TypeOK'
    <2>1. sub' \in [Subs -> SubRow]
      BY <1>2 DEF CreateSubscription, TypeOK, SubRow, Statuses
    <2> QED
      BY <1>2, <2>1 DEF CreateSubscription, TypeOK, ghosts
  <1>3. ASSUME NEW s \in Subs, Cancel(s) PROVE TypeOK'
    <2>1. sub' \in [Subs -> SubRow]
      <3>1. [[sub[s] EXCEPT !.cancelled = TRUE] EXCEPT !.next = NULL] \in SubRow
        <4>1. NULL \in Dates
          BY DEF NULL, Dates
        <4>2. [sub[s] EXCEPT !.cancelled = TRUE] \in SubRow
          BY <4>1, SubRowEdits DEF TypeOK
        <4> QED
          BY <4>1, <4>2, SubRowEdits
      <3> QED
        BY <1>3, <3>1 DEF Cancel, TypeOK
    <2> QED
      BY <1>3, <2>1 DEF Cancel, TypeOK, ghosts
  <1>4. ASSUME NEW l \in Lics, Revoke(l) PROVE TypeOK'
    <2>1. lic' \in [Lics -> LicRow]
      BY <1>4 DEF Revoke, TypeOK, LicRow
    <2> QED
      BY <1>4, <2>1 DEF Revoke, TypeOK, ghosts
  <1>5. ASSUME NEW v \in Vouchers, CustomerPays(v) PROVE TypeOK'
    <2>1. voucher' \in [Vouchers -> Voucher]
      BY <1>5 DEF CustomerPays, TypeOK, Voucher
    <2> QED
      BY <1>5, <2>1 DEF CustomerPays, TypeOK, ghosts
  <1>6. ASSUME NEW v \in Vouchers, Storno(v) PROVE TypeOK'
    <2>1. voucher' \in [Vouchers -> Voucher]
      BY <1>6 DEF Storno, TypeOK, Voucher
    <2> QED
      BY <1>6, <2>1 DEF Storno, TypeOK, ghosts
  <1>7. ASSUME Restart PROVE TypeOK'
    <2>1. proc' \in [Procs -> Local]
      BY <1>7, IdleType DEF Restart, TypeOK
    <2> QED
      BY <1>7, <2>1 DEF Restart, TypeOK, ghosts
  <1>8. ASSUME Tick PROVE TypeOK'
    <2>1. now' \in 0..MaxDay
      BY <1>8, BoundsAssumption DEF Tick, TypeOK, TypeOK
    <2>2. nagged' \in [Vouchers -> 0..2]
      BY <1>8 DEF Tick, TypeOK
    <2> QED
      BY <1>8, <2>1, <2>2 DEF Tick, TypeOK, ghosts
  <1>9. ASSUME NEW p \in Procs, NEW s \in Subs, ApproveRequest(p, s) PROVE TypeOK'
    <2>1. proc[p] \in Local
      BY DEF TypeOK
    <2>2. [Idle EXCEPT !.op = "approve", !.s = s,
                            !.pc = IF sub[s].free THEN "fr_row" ELSE "ap_invoice"] \in Local
      BY <2>1, IdleType, PcNames, OpNameFacts, PlanAssumption, BoundsAssumption DEF Local
    <2>3. proc' \in [Procs -> Local]
      BY <1>9, <2>2, ProcType DEF ApproveRequest
    <2> QED
      BY <1>9, <2>2, <2>3 DEF ApproveRequest, TypeOK, ghosts
  <1>10. ASSUME NEW p \in Procs, NEW v \in Vouchers, ApproveInvoice(p, v) PROVE TypeOK'
    <2>1. proc[p] \in Local
      BY DEF TypeOK
    <2>2. [proc[p] EXCEPT !.pc = "ap_row", !.v = v] \in Local
      BY <2>1, IdleType, PcNames, OpNameFacts, PlanAssumption, BoundsAssumption DEF Local
    <2>3. proc' \in [Procs -> Local]
      BY <1>10, <2>2, ProcType DEF ApproveInvoice
    <2>4. voucher' \in [Vouchers -> Voucher]
      BY <1>10, <2>1 DEF ApproveInvoice, TypeOK, CreateInvoice, Voucher, SubRow, Local
    <2> QED
      BY <1>10, <2>2, <2>3, <2>4 DEF ApproveInvoice, TypeOK, ghosts
  <1>11. ASSUME NEW p \in Procs, NEW l \in Lics, ApproveRow(p, l) PROVE TypeOK'
    <2>1. proc[p] \in Local
      BY DEF TypeOK
    <2>2. [proc[p] EXCEPT !.pc = "ap_key", !.l = l] \in Local
      BY <2>1, IdleType, PcNames, OpNameFacts, PlanAssumption, BoundsAssumption DEF Local
    <2>3. proc' \in [Procs -> Local]
      BY <1>11, <2>2, ProcType DEF ApproveRow
    <2>4. lic' \in [Lics -> LicRow]
      BY <1>11, <2>1, PlanAssumption, BoundsAssumption DEF ApproveRow, TypeOK, InsertLicence, LicRow, Local
    <2> QED
      BY <1>11, <2>2, <2>3, <2>4 DEF ApproveRow, TypeOK, ghosts
  <1>12. ASSUME NEW p \in Procs, NEW stored \in BOOLEAN, ApproveKey(p, stored) PROVE TypeOK'
    <2>1. proc[p] \in Local
      BY DEF TypeOK
    <2>2. [proc[p] EXCEPT !.pc = "ap_tx"] \in Local
      BY <2>1, IdleType, PcNames, OpNameFacts, PlanAssumption, BoundsAssumption DEF Local
    <2>3. proc' \in [Procs -> Local]
      BY <1>12, <2>2, ProcType DEF ApproveKey
    <2>4. lic' \in [Lics -> LicRow]
      <3>1. now + TrialDays \in Nat
        BY PlanAssumption, BoundsAssumption DEF TypeOK
      <3>2. \A l \in Lics : [lic[l] EXCEPT !.key = now + TrialDays] \in LicRow
        BY <3>1, LicRowEdits DEF TypeOK
      <3> QED
        BY <1>12, <3>2 DEF ApproveKey, TypeOK
    <2> QED
      BY <1>12, <2>2, <2>3, <2>4 DEF ApproveKey, TypeOK, ghosts
  <1>13. ASSUME NEW p \in Procs, ApproveCommit(p) PROVE TypeOK'
    <2>1. proc[p] \in Local
      BY DEF TypeOK
    <2>2. proc' \in [Procs -> Local]
      BY <1>13, DoneType DEF ApproveCommit
    <2>3. sub' \in [Subs -> SubRow]
      BY <1>13, <2>1 DEF ApproveCommit, TypeOK, SubRow, Statuses, Local
    <2>4. rows' \subseteq InvRow
      BY <1>13, <2>1, PlanAssumption, BoundsAssumption DEF ApproveCommit, TypeOK, InvRow, Local, Dates, NULL
    <2> QED
      BY <1>13, <2>2, <2>3, <2>4 DEF ApproveCommit, TypeOK, ghosts
  <1>14. ASSUME NEW p \in Procs, NEW l \in Lics, FreeRow(p, l) PROVE TypeOK'
    <2>1. proc[p] \in Local
      BY DEF TypeOK
    <2>2. [proc[p] EXCEPT !.pc = "fr_tx", !.l = l] \in Local
      BY <2>1, IdleType, PcNames, OpNameFacts, PlanAssumption, BoundsAssumption DEF Local
    <2>3. proc' \in [Procs -> Local]
      BY <1>14, <2>2, ProcType DEF FreeRow
    <2>4. lic' \in [Lics -> LicRow]
      BY <1>14, <2>1, PlanAssumption, BoundsAssumption DEF FreeRow, TypeOK, InsertLicence, LicRow, Local
    <2> QED
      BY <1>14, <2>2, <2>3, <2>4 DEF FreeRow, TypeOK, ghosts
  <1>15. ASSUME NEW p \in Procs, FreeCommit(p) PROVE TypeOK'
    <2>1. proc[p] \in Local
      BY DEF TypeOK
    <2>2. proc' \in [Procs -> Local]
      BY <1>15, DoneType DEF FreeCommit
    <2>3. sub' \in [Subs -> SubRow]
      BY <1>15, <2>1, PlanAssumption, BoundsAssumption DEF FreeCommit, TypeOK, SubRow, Statuses, Local, Dates, NextInvoiceAt
    <2>4. lic' \in [Lics -> LicRow]
      <3>1. now + Period + GraceDays \in Nat
        BY PlanAssumption, BoundsAssumption DEF TypeOK
      <3>2. \A l \in Lics : [lic[l] EXCEPT !.key = now + Period + GraceDays] \in LicRow
        BY <3>1, LicRowEdits DEF TypeOK
      <3> QED
        BY <1>15, <3>2 DEF FreeCommit, TypeOK
    <2>5. rows' \subseteq InvRow
      BY <1>15, <2>1, PlanAssumption, BoundsAssumption DEF FreeCommit, TypeOK, FreePeriod, InvRow, Local, Dates, NULL
    <2>6. paidMax' \in [Subs -> Nat]
      BY <1>15, <2>1, PlanAssumption, BoundsAssumption DEF FreeCommit, TypeOK, FreePeriod, Booked, Larger, Local, ghosts
    <2>7. keyMax' \in [Subs -> Nat]
      BY <1>15, <2>1, PlanAssumption, BoundsAssumption DEF FreeCommit, TypeOK, Signed, Larger, Local, ghosts
    <2>8. keysFor' \in [Vouchers -> Nat]
      BY <1>15, <2>1 DEF FreeCommit, TypeOK, ghosts
    <2>9. nagged' \in [Vouchers -> 0..2]
      BY <1>15, <2>1 DEF FreeCommit, TypeOK, ghosts
    <2> QED
      BY <1>15, <2>2, <2>3, <2>4, <2>5, <2>6, <2>7, <2>8, <2>9 DEF FreeCommit, TypeOK, ghosts
  <1>16. ASSUME NEW p \in Procs, NEW v \in Vouchers, Webhook(p, v) PROVE TypeOK'
    <2>1. proc[p] \in Local
      BY DEF TypeOK
    <2>2. [Idle EXCEPT !.op = "webhook", !.pc = "st_claim", !.v = v] \in Local
      BY <2>1, IdleType, PcNames, OpNameFacts, PlanAssumption, BoundsAssumption DEF Local
    <2>3. proc' \in [Procs -> Local]
      BY <1>16, <2>2, ProcType DEF Webhook
    <2> QED
      BY <1>16, <2>2, <2>3 DEF Webhook, TypeOK, ghosts
  <1>17. ASSUME NEW p \in Procs, PollOnce(p) PROVE TypeOK'
    <2>1. proc[p] \in Local
      BY DEF TypeOK
    <2>2. {[AnyItem EXCEPT !.v = r.v] :
                              r \in {q \in rows : Asked(q)}} \in SUBSET Item
      BY AnyItemType DEF Item, TypeOK, InvRow
    <2>3. Begin("poll", {[AnyItem EXCEPT !.v = r.v] :
                              r \in {q \in rows : Asked(q)}}) \in Local
      BY <2>2, BeginType, OpNameFacts
    <2>4. proc' \in [Procs -> Local]
      BY <1>17, <2>3, ProcType DEF PollOnce
    <2> QED
      BY <1>17, <2>2, <2>3, <2>4 DEF PollOnce, TypeOK, ghosts
  <1>18. ASSUME NEW p \in Procs, NEW i \in proc[p].todo, PollItem(p, i) PROVE TypeOK'
    <2>1. proc[p] \in Local
      BY DEF TypeOK
    <2>2. i \in Item
      BY <2>1 DEF Local
    <2>3. Begin(proc[p].op, proc[p].todo \ {i}) \in Local
      BY <2>1, BeginType DEF Local
    <2>4. [Idle EXCEPT !.pc = "st_claim", !.v = i.v] \in Local
      BY <2>2, IdleType, PcNames DEF Local, Item
    <2>5. \A r \in Local : [r EXCEPT !.op = proc[p].op, !.todo = proc[p].todo \ {i}] \in Local
      BY <2>1 DEF Local
    <2>6. proc' \in [Procs -> Local]
      BY <1>18, <2>3, <2>4, <2>5, ProcType DEF PollItem, WorkOn, Skip
    <2> QED
      BY <1>18, <2>3, <2>4, <2>5, <2>6 DEF PollItem, TypeOK, ghosts
  <1>19. ASSUME NEW p \in Procs, SettleClaim(p) PROVE TypeOK'
    <2>1. proc[p] \in Local
      BY DEF TypeOK
    <2>2. \A r \in rows : [proc[p] EXCEPT !.pc = "st_sign", !.s = r.s, !.end = r.end] \in Local
      BY <2>1, IdleType, PcNames, OpNameFacts, PlanAssumption DEF Local, InvRow, TypeOK
    <2>3. proc' \in [Procs -> Local]
      BY <1>19, <2>2, DoneType, ProcType DEF SettleClaim
    <2>4. rows' \subseteq InvRow
      <3>1. \A r \in rows : [r EXCEPT !.status = "paid"] \in InvRow
        BY DEF TypeOK, InvRow
      <3> QED
        BY <1>19, <3>1 DEF SettleClaim, TypeOK
    <2>5. paidMax' \in [Subs -> Nat]
      BY <1>19, <2>1 DEF SettleClaim, TypeOK, Booked, Larger, InvRow, ghosts
    <2>6. keyMax' \in [Subs -> Nat]
      BY <1>19, <2>1 DEF SettleClaim, TypeOK, ghosts
    <2>7. keysFor' \in [Vouchers -> Nat]
      BY <1>19, <2>1 DEF SettleClaim, TypeOK, ghosts
    <2>8. nagged' \in [Vouchers -> 0..2]
      BY <1>19, <2>1 DEF SettleClaim, TypeOK, ghosts
    <2> QED
      BY <1>19, <2>2, <2>3, <2>4, <2>5, <2>6, <2>7, <2>8 DEF SettleClaim, TypeOK, ghosts
  <1>20. ASSUME NEW p \in Procs, SettleSign(p) PROVE TypeOK'
    <2>1. proc[p] \in Local
      BY DEF TypeOK
    <2>2. \A l \in Lics : [proc[p] EXCEPT !.pc = "st_req", !.l = l, !.lim = proc[p].end + GraceDays] \in Local
      <3>1. proc[p].end + GraceDays \in Nat
        BY <2>1, PlanAssumption DEF Local
      <3> QED
        BY <2>1, <3>1, PcNames DEF Local
    <2>3. proc' \in [Procs -> Local]
      BY <1>20, <2>2, DoneType, ProcType DEF SettleSign, EntitledTo
    <2>4. paidMax' \in [Subs -> Nat]
      BY <1>20, <2>1 DEF SettleSign, TypeOK, ghosts
    <2>5. keyMax' \in [Subs -> Nat]
      <3>1. proc[p].end + GraceDays \in Nat
        BY <2>1, PlanAssumption DEF Local
      <3>2. Signed(proc[p].s, proc[p].end + GraceDays) \/ keyMax' = keyMax
        BY <1>20 DEF SettleSign, EntitledTo, ghosts
      <3> QED
        BY <3>1, <3>2 DEF TypeOK, Signed, Larger
    <2>6. keysFor' \in [Vouchers -> Nat]
      <3>1. keysFor' = [keysFor EXCEPT ![proc[p].v] = @ + 1] \/ keysFor' = keysFor
        BY <1>20 DEF SettleSign, ghosts
      <3> QED
        BY <3>1 DEF TypeOK
    <2>7. nagged' \in [Vouchers -> 0..2]
      BY <1>20, <2>1 DEF SettleSign, TypeOK, ghosts
    <2> QED
      BY <1>20, <2>2, <2>3, <2>4, <2>5, <2>6, <2>7 DEF SettleSign, TypeOK, ghosts
  <1>21. ASSUME NEW p \in Procs, NEW stored \in BOOLEAN, SettleRequest(p, stored) PROVE TypeOK'
    <2>1. proc[p] \in Local
      BY DEF TypeOK
    <2>2. [proc[p] EXCEPT !.pc = "st_lic"] \in Local
      BY <2>1, IdleType, PcNames, OpNameFacts, PlanAssumption, BoundsAssumption DEF Local
    <2>3. proc' \in [Procs -> Local]
      BY <1>21, <2>2, ProcType DEF SettleRequest
    <2>4. sub' \in [Subs -> SubRow]
      <3>1. NextInvoiceAt(proc[p].end) \in Dates
        BY <2>1, PlanAssumption DEF Local, Dates, NextInvoiceAt
      <3>2. \A row \in SubRow : Advanced(row, proc[p].end) \in SubRow
        BY <3>1 DEF Advanced, SubRow, Statuses
      <3> QED
        BY <1>21, <3>2 DEF SettleRequest, TypeOK
    <2> QED
      BY <1>21, <2>2, <2>3, <2>4 DEF SettleRequest, TypeOK, ghosts
  <1>22. ASSUME NEW p \in Procs, SettleLicence(p) PROVE TypeOK'
    <2>1. proc[p] \in Local
      BY DEF TypeOK
    <2>2. proc' \in [Procs -> Local]
      BY <1>22, DoneType DEF SettleLicence
    <2>3. lic' \in [Lics -> LicRow]
      <3>1. proc[p].lim \in Nat
        BY <2>1 DEF Local
      <3>2. \A l \in Lics : [[[lic[l] EXCEPT !.key = proc[p].lim] EXCEPT !.expires = proc[p].lim]
                                EXCEPT !.kind = "full"] \in LicRow
        BY <3>1, LicRowEdits DEF TypeOK
      <3> QED
        BY <1>22, <3>2 DEF SettleLicence, TypeOK
    <2> QED
      BY <1>22, <2>2, <2>3 DEF SettleLicence, TypeOK, ghosts
  <1>23. ASSUME NEW p \in Procs, RenewOnce(p) PROVE TypeOK'
    <2>1. proc[p] \in Local
      BY DEF TypeOK
    <2>2. UNION {{[AnyItem EXCEPT !.s = s, !.free = sub[s].free, !.date = r.end] :
                   r \in {q \in RowsOf(s) : IsLatest(q, RowsOf(s))}} : s \in {t \in Subs : Due(t)}} \in SUBSET Item
      <3>1. \A s \in Subs : sub[s].free \in BOOLEAN
        BY DEF TypeOK, SubRow
      <3>2. \A r \in rows : r.end \in Nat
        BY DEF TypeOK, InvRow
      <3>3. \A s \in Subs, f \in BOOLEAN, d \in Nat :
               [AnyItem EXCEPT !.s = s, !.free = f, !.date = d] \in Item
        BY AnyItemType DEF Item
      <3>4. \A s \in Subs, r \in rows :
               [AnyItem EXCEPT !.s = s, !.free = sub[s].free, !.date = r.end] \in Item
        BY <3>1, <3>2, <3>3
      <3>5. ASSUME NEW s \in Subs
            PROVE  {[AnyItem EXCEPT !.s = s, !.free = sub[s].free, !.date = r.end] :
                      r \in {q \in RowsOf(s) : IsLatest(q, RowsOf(s))}} \subseteq Item
        BY <3>4 DEF RowsOf
      <3> QED
        BY <3>5, Zenon
    <2>3. Begin("renew", UNION {{[AnyItem EXCEPT !.s = s, !.free = sub[s].free, !.date = r.end] :
                   r \in {q \in RowsOf(s) : IsLatest(q, RowsOf(s))}} : s \in {t \in Subs : Due(t)}}) \in Local
      BY <2>2, BeginType, OpNameFacts
    <2>4. proc' \in [Procs -> Local]
      BY <1>23, <2>3, ProcType DEF RenewOnce
    <2> QED
      BY <1>23, <2>2, <2>3, <2>4 DEF RenewOnce, TypeOK, ghosts
  <1>24. ASSUME NEW p \in Procs, NEW i \in proc[p].todo, RenewItem(p, i) PROVE TypeOK'
    <2>1. proc[p] \in Local
      BY DEF TypeOK
    <2>2. i \in Item
      BY <2>1 DEF Local
    <2>3. Begin(proc[p].op, proc[p].todo \ {i}) \in Local
      BY <2>1, BeginType DEF Local
    <2>4. [Idle EXCEPT !.pc = RenewsBy(i), !.s = i.s, !.end = i.date] \in Local
      BY <2>2, IdleType, PcNames DEF Local, Item, RenewsBy
    <2>5. \A r \in Local : [r EXCEPT !.op = proc[p].op, !.todo = proc[p].todo \ {i}] \in Local
      BY <2>1 DEF Local
    <2>6. proc' \in [Procs -> Local]
      BY <1>24, <2>3, <2>4, <2>5, ProcType DEF RenewItem, WorkOn, Skip
    <2> QED
      BY <1>24, <2>3, <2>4, <2>5, <2>6 DEF RenewItem, TypeOK, ghosts
  <1>25. ASSUME NEW p \in Procs, NEW v \in Vouchers, RenewInvoice(p, v) PROVE TypeOK'
    <2>1. proc[p] \in Local
      BY DEF TypeOK
    <2>2. [proc[p] EXCEPT !.pc = "rn_row", !.v = v] \in Local
      BY <2>1, IdleType, PcNames, OpNameFacts, PlanAssumption, BoundsAssumption DEF Local
    <2>3. proc' \in [Procs -> Local]
      BY <1>25, <2>2, ProcType DEF RenewInvoice
    <2>4. voucher' \in [Vouchers -> Voucher]
      BY <1>25, <2>1 DEF RenewInvoice, TypeOK, CreateInvoice, Voucher, SubRow, Local
    <2> QED
      BY <1>25, <2>2, <2>3, <2>4 DEF RenewInvoice, TypeOK, ghosts
  <1>26. ASSUME NEW p \in Procs, RenewRow(p) PROVE TypeOK'
    <2>1. proc[p] \in Local
      BY DEF TypeOK
    <2>2. [proc[p] EXCEPT !.pc = "rn_clear"] \in Local
      BY <2>1, IdleType, PcNames, OpNameFacts, PlanAssumption, BoundsAssumption DEF Local
    <2>3. proc' \in [Procs -> Local]
      BY <1>26, <2>2, ProcType DEF RenewRow
    <2>4. rows' \subseteq InvRow
      BY <1>26, <2>1, PlanAssumption, BoundsAssumption DEF RenewRow, TypeOK, InvRow, Local, Dates, NULL
    <2> QED
      BY <1>26, <2>2, <2>3, <2>4 DEF RenewRow, TypeOK, ghosts
  <1>27. ASSUME NEW p \in Procs, RenewClear(p) PROVE TypeOK'
    <2>1. proc[p] \in Local
      BY DEF TypeOK
    <2>2. proc' \in [Procs -> Local]
      BY <1>27, DoneType DEF RenewClear
    <2>3. sub' \in [Subs -> SubRow]
      BY <1>27, <2>1 DEF RenewClear, TypeOK, SubRow, Dates, NULL, Local
    <2> QED
      BY <1>27, <2>2, <2>3 DEF RenewClear, TypeOK, ghosts
  <1>28. ASSUME NEW p \in Procs, RenewFreeRow(p) PROVE TypeOK'
    <2>1. proc[p] \in Local
      BY DEF TypeOK
    <2>2. [proc[p] EXCEPT !.pc = "rf_next"] \in Local
      BY <2>1, PcNames, BoundsAssumption DEF Local, TypeOK
    <2>3. proc' \in [Procs -> Local]
      BY <1>28, <2>2, DoneType, ProcType DEF RenewFreeRow
    <2>4. rows' \subseteq InvRow
      BY <1>28, <2>1, PlanAssumption, BoundsAssumption DEF RenewFreeRow, TypeOK, FreePeriod, InvRow, Local, Dates, NULL
    <2>5. paidMax' \in [Subs -> Nat]
      BY <1>28, <2>1, PlanAssumption, BoundsAssumption DEF RenewFreeRow, TypeOK, FreePeriod, Booked, Larger, Local, ghosts
    <2>6. keyMax' \in [Subs -> Nat]
      BY <1>28, <2>1 DEF RenewFreeRow, TypeOK, ghosts
    <2>7. keysFor' \in [Vouchers -> Nat]
      BY <1>28, <2>1 DEF RenewFreeRow, TypeOK, ghosts
    <2>8. nagged' \in [Vouchers -> 0..2]
      BY <1>28, <2>1 DEF RenewFreeRow, TypeOK, ghosts
    <2> QED
      BY <1>28, <2>2, <2>3, <2>4, <2>5, <2>6, <2>7, <2>8 DEF RenewFreeRow, TypeOK, ghosts
  <1>29. ASSUME NEW p \in Procs, RenewFreeNext(p) PROVE TypeOK'
    <2>1. proc[p] \in Local
      BY DEF TypeOK
    <2>2. proc' \in [Procs -> Local]
      BY <1>29, DoneType DEF RenewFreeNext
    <2>3. sub' \in [Subs -> SubRow]
      BY <1>29, <2>1, PlanAssumption, BoundsAssumption DEF RenewFreeNext, TypeOK, SubRow, Dates, NextInvoiceAt, Local
    <2> QED
      BY <1>29, <2>2, <2>3 DEF RenewFreeNext, TypeOK, ghosts
  <1>30. ASSUME NEW p \in Procs, NEW s \in Subs, ConvertToPaid(p, s) PROVE TypeOK'
    <2>1. proc[p] \in Local
      BY DEF TypeOK
    <2>2. \A r \in rows : [Idle EXCEPT !.op = "convert", !.pc = "cv_flip", !.s = s, !.end = r.end] \in Local
      BY <2>1, IdleType, PcNames, OpNameFacts, PlanAssumption DEF Local, InvRow, TypeOK
    <2>3. proc' \in [Procs -> Local]
      BY <1>30, <2>2, DoneType, ProcType DEF ConvertToPaid, PaidRows
    <2> QED
      BY <1>30, <2>2, <2>3 DEF ConvertToPaid, TypeOK, ghosts
  <1>31. ASSUME NEW p \in Procs, NEW invoiceNow \in BOOLEAN, ConvertFlip(p, invoiceNow) PROVE TypeOK'
    <2>1. proc[p] \in Local
      BY DEF TypeOK
    <2>2. [proc[p] EXCEPT !.pc = "rn_invoice", !.end = now] \in Local
      <3>1. now \in Nat
        BY BoundsAssumption DEF TypeOK
      <3> QED
        BY <2>1, <3>1, PcNames DEF Local
    <2>3. proc' \in [Procs -> Local]
      BY <1>31, <2>2, DoneType, ProcType DEF ConvertFlip
    <2>4. sub' \in [Subs -> SubRow]
      <3>1. NextInvoiceAt(proc[p].end) \in Dates
        BY <2>1, PlanAssumption DEF Local, Dates, NextInvoiceAt
      <3>2. [[[sub[proc[p].s] EXCEPT !.free = FALSE] EXCEPT !.contact = TRUE]
               EXCEPT !.next = NextInvoiceAt(proc[p].end)] \in SubRow
        BY <2>1, <3>1, SubRowEdits DEF TypeOK, Local
      <3> QED
        BY <1>31, <3>2 DEF ConvertFlip, TypeOK
    <2> QED
      BY <1>31, <2>2, <2>3, <2>4 DEF ConvertFlip, TypeOK, ghosts
  <1>32. ASSUME NEW p \in Procs, NEW l \in Lics, GetLicense(p, l) PROVE TypeOK'
    <2>1. proc[p] \in Local
      BY DEF TypeOK
    <2>2. [Idle EXCEPT !.op = "fetch", !.pc = "gl_limit", !.l = l, !.s = lic[l].s,
                            !.end = lic[l].expires] \in Local
      BY <2>1, IdleType, PcNames, OpNameFacts, PlanAssumption, BoundsAssumption DEF Local, LicRow, TypeOK
    <2>3. proc' \in [Procs -> Local]
      BY <1>32, <2>2, ProcType DEF GetLicense
    <2> QED
      BY <1>32, <2>2, <2>3 DEF GetLicense, TypeOK, ghosts
  <1>33. ASSUME NEW p \in Procs, GetLicenseLimit(p) PROVE TypeOK'
    <2>1. proc[p] \in Local
      BY DEF TypeOK
    <2>2. \A lim \in Limits(proc[p].s) : [proc[p] EXCEPT !.pc = "gl_sign", !.lim = lim] \in Local
      BY <2>1, LimitsType, PcNames DEF Local
    <2>3. proc' \in [Procs -> Local]
      BY <1>33, <2>2, DoneType, ProcType DEF GetLicenseLimit
    <2> QED
      BY <1>33, <2>2, <2>3 DEF GetLicenseLimit, TypeOK, ghosts
  <1>34. ASSUME NEW p \in Procs, GetLicenseSign(p) PROVE TypeOK'
    <2>1. proc[p] \in Local
      BY DEF TypeOK
    <2>2. proc' \in [Procs -> Local]
      BY <1>34, DoneType DEF GetLicenseSign
    <2>3. lic' \in [Lics -> LicRow]
      <3>1. proc[p].lim \in Nat
        BY <2>1 DEF Local
      <3> QED
        BY <1>34, <3>1, StoreKeyType DEF GetLicenseSign
    <2>4. keyMax' \in [Subs -> Nat]
      BY <1>34, <2>1 DEF GetLicenseSign, TypeOK, Signed, Larger, Local
    <2> QED
      BY <1>34, <2>2, <2>3, <2>4 DEF GetLicenseSign, TypeOK, ghosts
  <1>35. ASSUME NEW p \in Procs, MailExpiringOnce(p) PROVE TypeOK'
    <2>1. proc[p] \in Local
      BY DEF TypeOK
    <2>2. {[AnyItem EXCEPT !.l = l, !.s = lic[l].s, !.date = lic[l].expires] :
                              l \in {k \in Lics : MailDue(k)}} \in SUBSET Item
      <3>1. \A l \in Lics, s \in Subs, d \in Nat :
               [AnyItem EXCEPT !.l = l, !.s = s, !.date = d] \in Item
        BY AnyItemType DEF Item
      <3>2. \A l \in Lics : lic[l].s \in Subs /\ lic[l].expires \in Nat
        BY DEF TypeOK, LicRow
      <3>3. \A l \in Lics : [AnyItem EXCEPT !.l = l, !.s = lic[l].s, !.date = lic[l].expires] \in Item
        BY <3>1, <3>2
      <3> QED
        BY <3>3
    <2>3. Begin("mail", {[AnyItem EXCEPT !.l = l, !.s = lic[l].s, !.date = lic[l].expires] :
                              l \in {k \in Lics : MailDue(k)}}) \in Local
      BY <2>2, BeginType, OpNameFacts
    <2>4. proc' \in [Procs -> Local]
      BY <1>35, <2>3, ProcType DEF MailExpiringOnce
    <2> QED
      BY <1>35, <2>2, <2>3, <2>4 DEF MailExpiringOnce, TypeOK, ghosts
  <1>36. ASSUME NEW p \in Procs, NEW i \in proc[p].todo, MailItem(p, i) PROVE TypeOK'
    <2>1. proc[p] \in Local
      BY DEF TypeOK
    <2>2. i \in Item
      BY <2>1 DEF Local
    <2>3. Begin(proc[p].op, proc[p].todo \ {i}) \in Local
      BY <2>1, BeginType DEF Local
    <2>4. \A lim \in Limits(i.s) : [Idle EXCEPT !.pc = "ml_sign", !.l = i.l, !.s = i.s, !.lim = lim] \in Local
      BY <2>2, LimitsType, IdleType, PcNames DEF Local, Item
    <2>5. \A r \in Local : [r EXCEPT !.op = proc[p].op, !.todo = proc[p].todo \ {i}] \in Local
      BY <2>1 DEF Local
    <2>6. proc' \in [Procs -> Local]
      BY <1>36, <2>3, <2>4, <2>5, ProcType DEF MailItem, WorkOn, Skip
    <2> QED
      BY <1>36, <2>3, <2>4, <2>5, <2>6 DEF MailItem, TypeOK, ghosts
  <1>37. ASSUME NEW p \in Procs, NEW stored \in BOOLEAN, MailSign(p, stored) PROVE TypeOK'
    <2>1. proc[p] \in Local
      BY DEF TypeOK
    <2>2. proc' \in [Procs -> Local]
      BY <1>37, DoneType DEF MailSign
    <2>3. lic' \in [Lics -> LicRow]
      <3>1. proc[p].lim \in Nat
        BY <2>1 DEF Local
      <3>2. lic' = lic \/ StoreKey(proc[p].l, proc[p].lim)
        BY <1>37 DEF MailSign
      <3>3. CASE lic' = lic
        BY <3>3 DEF TypeOK
      <3> QED
        BY <3>1, <3>2, <3>3, StoreKeyType
    <2>4. keyMax' \in [Subs -> Nat]
      BY <1>37, <2>1 DEF MailSign, TypeOK, Signed, Larger, Local
    <2> QED
      BY <1>37, <2>2, <2>3, <2>4 DEF MailSign, TypeOK, ghosts
  <1>38. ASSUME NEW p \in Procs, NEW s \in Subs, NEW org \in Orgs, IssueSeat(p, s, org) PROVE TypeOK'
    <2>1. proc[p] \in Local
      BY DEF TypeOK
    <2>2. [Idle EXCEPT !.op = "issue", !.pc = "is_limit", !.s = s, !.org = org] \in Local
      BY <2>1, IdleType, PcNames, OpNameFacts, PlanAssumption, BoundsAssumption DEF Local
    <2>3. proc' \in [Procs -> Local]
      BY <1>38, <2>2, ProcType DEF IssueSeat
    <2> QED
      BY <1>38, <2>2, <2>3 DEF IssueSeat, TypeOK, ghosts
  <1>39. ASSUME NEW p \in Procs, IssueLimit(p) PROVE TypeOK'
    <2>1. proc[p] \in Local
      BY DEF TypeOK
    <2>2. \A lim \in Limits(proc[p].s) : [proc[p] EXCEPT !.pc = "is_row", !.lim = lim] \in Local
      BY <2>1, LimitsType, PcNames DEF Local
    <2>3. proc' \in [Procs -> Local]
      BY <1>39, <2>2, DoneType, ProcType DEF IssueLimit
    <2> QED
      BY <1>39, <2>2, <2>3 DEF IssueLimit, TypeOK, ghosts
  <1>40. ASSUME NEW p \in Procs, NEW l \in Lics, IssueRow(p, l) PROVE TypeOK'
    <2>1. proc[p] \in Local
      BY DEF TypeOK
    <2>2. [proc[p] EXCEPT !.pc = "is_key", !.l = l] \in Local
      BY <2>1, IdleType, PcNames, OpNameFacts, PlanAssumption, BoundsAssumption DEF Local
    <2>3. proc' \in [Procs -> Local]
      BY <1>40, <2>2, ProcType DEF IssueRow
    <2>4. lic' \in [Lics -> LicRow]
      BY <1>40, <2>1, PlanAssumption, BoundsAssumption DEF IssueRow, TypeOK, InsertLicence, LicRow, Local
    <2> QED
      BY <1>40, <2>2, <2>3, <2>4 DEF IssueRow, TypeOK, ghosts
  <1>41. ASSUME NEW p \in Procs, NEW outcome, IssueKey(p, outcome) PROVE TypeOK'
    <2>1. proc[p] \in Local
      BY DEF TypeOK
    <2>2. proc' \in [Procs -> Local]
      BY <1>41, DoneType DEF IssueKey
    <2>3. lic' \in [Lics -> LicRow]
      <3>1. proc[p].lim \in Nat
        BY <2>1 DEF Local
      <3>2. \A l \in Lics : /\ [lic[l] EXCEPT !.key = proc[p].lim] \in LicRow
                             /\ [lic[l] EXCEPT !.kind = "deleted"] \in LicRow
        BY <3>1, LicRowEdits DEF TypeOK
      <3> QED
        BY <1>41, <3>2 DEF IssueKey, TypeOK
    <2>4. keyMax' \in [Subs -> Nat]
      BY <1>41, <2>1 DEF IssueKey, TypeOK, Signed, Larger, Local
    <2> QED
      BY <1>41, <2>2, <2>3, <2>4 DEF IssueKey, TypeOK, ghosts
  <1>42. ASSUME NEW p \in Procs, NEW op \in {"reconcile", "panelcheck"}, Reconcile(p, op) PROVE TypeOK'
    <2>1. proc[p] \in Local
      BY DEF TypeOK
    <2>2. {[AnyItem EXCEPT !.v = v, !.free = (voucher[v].st = "voided")] :
                    v \in {w \in Vouchers : voucher[w].st # "none"}} \in SUBSET Item
      BY AnyItemType DEF Item
    <2>3. [Idle EXCEPT !.op = op, !.pc = "rc_rows",
          !.todo = {[AnyItem EXCEPT !.v = v, !.free = (voucher[v].st = "voided")] :
                    v \in {w \in Vouchers : voucher[w].st # "none"}}] \in Local
      BY <2>1, <2>2, IdleType, PcNames, OpNameFacts DEF Local
    <2>4. proc' \in [Procs -> Local]
      BY <1>42, <2>3, ProcType DEF Reconcile
    <2> QED
      BY <1>42, <2>2, <2>3, <2>4 DEF Reconcile, TypeOK, ghosts
  <1>43. ASSUME NEW p \in Procs, ReconcileRows(p) PROVE TypeOK'
    <2>1. proc[p] \in Local
      BY DEF TypeOK
    <2>2. \A R \in SUBSET InvRow : {[AnyItem EXCEPT !.v = r.v] : r \in R} \in SUBSET Item
      BY AnyItemType DEF InvRow, Item
    <2>3. rows \subseteq InvRow
      BY DEF TypeOK
    <2>4. \A R \in SUBSET InvRow : Begin(proc[p].op, {[AnyItem EXCEPT !.v = r.v] : r \in R}) \in Local
      BY <2>1, <2>2, BeginType DEF Local
    <2>5. proc' \in [Procs -> Local]
      BY <1>43, <2>3, <2>4, ProcType DEF ReconcileRows
    <2>6. \A kind \in {"storniert", "storniert-mit-key", "nur-in-vakt"}, r \in InvRow :
               [kind |-> kind, v |-> r.v] \in Drift
      BY DEF InvRow, Drift
    <2>7. \A j \in proc[p].todo : j.v \in Vouchers \cup {NoVoucher}
      BY <2>1 DEF Local, Item
    <2>8. \A w \in Vouchers \cup {NoVoucher} : [kind |-> "nur-in-lexware", v |-> w] \in Drift
      BY DEF Drift
    <2>9. report \subseteq Drift
      BY DEF TypeOK
    <2>10. report' \subseteq Drift
      BY <1>43, <2>3, <2>6, <2>7, <2>8, <2>9 DEF ReconcileRows
    <2> QED
      BY <1>43, <2>2, <2>3, <2>4, <2>5, <2>6, <2>7, <2>8, <2>9, <2>10 DEF ReconcileRows, TypeOK, ghosts
  <1>44. ASSUME NEW p \in Procs, NEW i \in proc[p].todo, ReconcileVoid(p, i) PROVE TypeOK'
    <2>1. proc[p] \in Local
      BY DEF TypeOK
    <2>2. i \in Item
      BY <2>1 DEF Local
    <2>3. Begin(proc[p].op, proc[p].todo \ {i}) \in Local
      BY <2>1, BeginType DEF Local
    <2>4. proc' \in [Procs -> Local]
      BY <1>44, <2>3, ProcType DEF ReconcileVoid, Skip
    <2>5. rows' \subseteq InvRow
      BY <1>44, <2>1 DEF ReconcileVoid, Voided, TypeOK, InvRow
    <2> QED
      BY <1>44, <2>3, <2>4, <2>5 DEF ReconcileVoid, TypeOK, ghosts
  <1>45. ASSUME NEW p \in Procs, NEW v \in Vouchers, SendReminder(p, v) PROVE TypeOK'
    <2>1. proc[p] \in Local
      BY DEF TypeOK
    <2>2. [Idle EXCEPT !.op = "remind", !.pc = "rm_send", !.v = v] \in Local
      BY <2>1, IdleType, PcNames, OpNameFacts, PlanAssumption, BoundsAssumption DEF Local
    <2>3. proc' \in [Procs -> Local]
      BY <1>45, <2>2, ProcType DEF SendReminder
    <2> QED
      BY <1>45, <2>2, <2>3 DEF SendReminder, TypeOK, ghosts
  <1>46. ASSUME NEW p \in Procs, NEW stored \in BOOLEAN, RemindSend(p, stored) PROVE TypeOK'
    <2>1. proc[p] \in Local
      BY DEF TypeOK
    <2>2. proc' \in [Procs -> Local]
      BY <1>46, DoneType DEF RemindSend
    <2>3. rows' \subseteq InvRow
      BY <1>46, <2>1, PlanAssumption, BoundsAssumption DEF RemindSend, TypeOK, InvRow, Dates
    <2>4. nagged' \in [Vouchers -> 0..2]
      <3>1. \A n \in 0..2 : (IF n < 2 THEN n + 1 ELSE n) \in 0..2
        OBVIOUS
      <3> QED
        BY <1>46, <3>1 DEF RemindSend, TypeOK
    <2> QED
      BY <1>46, <2>2, <2>3, <2>4 DEF RemindSend, TypeOK, ghosts
  <1>47. ASSUME NEW p \in Procs, CallFails(p) PROVE TypeOK'
    <2>1. proc[p] \in Local
      BY DEF TypeOK
    <2>2. proc' \in [Procs -> Local]
      BY <1>47, DoneType, IdleType, ProcType DEF CallFails
    <2> QED
      BY <1>47, <2>2 DEF CallFails, TypeOK, ghosts
  <1>48. ASSUME NEW p \in Procs, NEW i \in proc[p].todo, ItemFails(p, i) PROVE TypeOK'
    <2>1. proc[p] \in Local
      BY DEF TypeOK
    <2>2. i \in Item
      BY <2>1 DEF Local
    <2>3. Begin(proc[p].op, proc[p].todo \ {i}) \in Local
      BY <2>1, BeginType DEF Local
    <2>4. proc' \in [Procs -> Local]
      BY <1>48, <2>3, ProcType DEF ItemFails, Skip
    <2> QED
      BY <1>48, <2>3, <2>4 DEF ItemFails, TypeOK, ghosts
  <1>49. CASE UNCHANGED vars
    BY <1>49 DEF TypeOK, vars
  <1> QED
    BY <1>1, <1>2, <1>3, <1>4, <1>5, <1>6, <1>7, <1>8, <1>9, <1>10, <1>11, <1>12, <1>13, <1>14, <1>15, <1>16, <1>17, <1>18, <1>19, <1>20, <1>21, <1>22, <1>23, <1>24, <1>25, <1>26, <1>27, <1>28, <1>29, <1>30, <1>31, <1>32, <1>33, <1>34, <1>35, <1>36, <1>37, <1>38, <1>39, <1>40, <1>41, <1>42, <1>43, <1>44, <1>45, <1>46, <1>47, <1>48, <1>49 DEF Next, HandlerStart, HandlerStep

\* Every state is well typed, whatever fails and however handlers interleave.
THEOREM TypeCorrect == Spec => []TypeOK
  <1> QED
    BY InitType, TypeStep, PTL DEF Spec

-----------------------------------------------------------------------------
(* Entitlement.                                                            *)

\* A step of one handler keeps every handler's knowledge covered.
LEMMA HandlersStep ==
  ASSUME TypeOK, HandlersCovered, paidMax' \in [Subs -> Nat],
         \A s \in Subs : paidMax[s] <= paidMax'[s],
         NEW p \in Procs, NEW r, Step(p, r), Within(r, paidMax')
  PROVE  HandlersCovered'
  <1> SUFFICES ASSUME NEW q \in Procs PROVE Within(proc'[q], paidMax')
    BY DEF HandlersCovered
  <1>1. proc[q] \in Local /\ Within(proc[q], paidMax)
    BY DEF TypeOK, HandlersCovered
  <1>2. CASE q = p
    BY <1>2 DEF Step, TypeOK
  <1>3. CASE q # p
    <2>1. proc'[q] = proc[q]
      BY <1>3 DEF Step, TypeOK
    <2>2. /\ proc[q].s \in Subs /\ proc[q].end \in Nat /\ proc[q].lim \in Nat
          /\ paidMax[proc[q].s] \in Nat /\ paidMax'[proc[q].s] \in Nat
          /\ paidMax[proc[q].s] <= paidMax'[proc[q].s]
      BY <1>1 DEF Local, TypeOK
    <2> QED
      BY <1>1, <2>1, <2>2, PlanAssumption DEF Within
  <1> QED
    BY <1>2, <1>3

\* A record at a step that uses nothing it read before.
LEMMA Unwatched ==
  ASSUME NEW r, NEW paid, r.pc \notin Watched
  PROVE  Within(r, paid)
  BY DEF Within, Watched

\* A handler that is idle or between two items uses nothing it read before.
LEMMA QuietSteps == "loop" \notin Watched /\ "idle" \notin Watched
  BY DEF Watched

\* A sweep that just began is idle or between two items.
LEMMA BeginQuiet ==
  ASSUME NEW op, NEW todo
  PROVE  Begin(op, todo).pc \in {"idle", "loop"}
  BY DEF Begin, Idle

\* A handler that returns is idle or between two items.
LEMMA DoneQuiet ==
  ASSUME NEW p \in Procs, Done(p)
  PROVE  \E r : Step(p, r) /\ r.pc \in {"idle", "loop"}
  <1>1. [Idle EXCEPT !.op = proc[p].op, !.pc = "loop", !.todo = proc[p].todo].pc = "loop"
    BY DEF Idle
  <1>2. Idle.pc = "idle"
    BY DEF Idle
  <1> QED
    BY <1>1, <1>2 DEF Done

\* A step of a handler that writes neither invoices nor the subscription nor a key.
LEMMA HandlerOnly ==
  ASSUME TypeOK, EntitlementInv, NEW p \in Procs, NEW r, Step(p, r), Within(r, paidMax),
         UNCHANGED <<sub, rows, paidMax, keyMax>>
  PROVE  EntitlementInv'
  <1>1. HandlersCovered'
    <2>1. paidMax' \in [Subs -> Nat] /\ \A s \in Subs : paidMax[s] <= paidMax'[s]
      BY DEF TypeOK
    <2> QED
      BY <2>1, HandlersStep DEF EntitlementInv
  <1> QED
    BY <1>1 DEF EntitlementInv, PaidRowsCovered, KeyWithinPaid, RenewalFollowsPayment

\* The same for a handler that just returns.
LEMMA DoneOnly ==
  ASSUME TypeOK, EntitlementInv, NEW p \in Procs, Done(p), UNCHANGED <<sub, rows, paidMax, keyMax>>
  PROVE  EntitlementInv'
  <1>1. PICK r : Step(p, r) /\ r.pc \in {"idle", "loop"}
    BY DoneQuiet
  <1>2. Within(r, paidMax)
    BY <1>1, QuietSteps, Unwatched
  <1> QED
    BY <1>1, <1>2, HandlerOnly

\* Entitlement() never answers more than was paid for.
LEMMA LimitsCovered ==
  ASSUME TypeOK, EntitlementInv, NEW s \in Subs, NEW lim \in Limits(s)
  PROVE  lim <= paidMax[s] + GraceDays
  <1>1. PICK r \in rows : r.s = s /\ r.status = "paid" /\ lim = r.end + GraceDays
    BY DEF Limits, PaidRows
  <1>2. r.end <= paidMax[s] /\ r.end \in Nat /\ paidMax[s] \in Nat
    BY <1>1 DEF EntitlementInv, PaidRowsCovered, TypeOK, InvRow
  <1> QED
    BY <1>1, <1>2, PlanAssumption

\* Signing a key no longer than what was paid for keeps KeyWithinPaid.
LEMMA SignedCovered ==
  ASSUME TypeOK, KeyWithinPaid, NEW s \in Subs, NEW lim \in Nat, lim <= paidMax[s] + GraceDays,
         Signed(s, lim), UNCHANGED paidMax
  PROVE  KeyWithinPaid'
  BY DEF KeyWithinPaid, Signed, Larger, TypeOK

\* With no payment there is no key and no renewal date.
LEMMA InitEntitlement == Init => EntitlementInv
  <1> SUFFICES ASSUME Init PROVE EntitlementInv
    OBVIOUS
  <1>1. Within(Idle, paidMax)
    BY Unwatched, QuietSteps DEF Idle
  <1>2. HandlersCovered
    BY <1>1 DEF Init, HandlersCovered
  <1>3. PaidRowsCovered /\ KeyWithinPaid /\ RenewalFollowsPayment
    BY PlanAssumption DEF Init, PaidRowsCovered, KeyWithinPaid, RenewalFollowsPayment
  <1> QED
    BY <1>2, <1>3 DEF EntitlementInv

\* Every step of every operation keeps keys and renewal dates within what was paid.
LEMMA EntitlementStep == TypeOK /\ EntitlementInv /\ [Next]_vars => EntitlementInv'
  <1> SUFFICES ASSUME TypeOK, EntitlementInv, [Next]_vars PROVE EntitlementInv'
    OBVIOUS
  <1>1. ASSUME NEW s \in Subs, RequestQuote(s) PROVE EntitlementInv'
    <2>1. \A t \in Subs : sub'[t].next = sub[t].next
      BY <1>1 DEF RequestQuote, TypeOK, SubRow
    <2> QED
      BY <1>1, <2>1 DEF RequestQuote, EntitlementInv, PaidRowsCovered, HandlersCovered, KeyWithinPaid,
         RenewalFollowsPayment, ghosts
  <1>2. ASSUME NEW s \in Subs, NEW free \in BOOLEAN, CreateSubscription(s, free) PROVE EntitlementInv'
    <2>1. \A t \in Subs : sub'[t].next = sub[t].next
      BY <1>2 DEF CreateSubscription, TypeOK, SubRow
    <2> QED
      BY <1>2, <2>1 DEF CreateSubscription, EntitlementInv, PaidRowsCovered, HandlersCovered, KeyWithinPaid,
         RenewalFollowsPayment, ghosts
  <1>3. ASSUME NEW s \in Subs, Cancel(s) PROVE EntitlementInv'
    <2>1. \A t \in Subs : sub'[t].next = sub[t].next \/ sub'[t].next = NULL
      BY <1>3 DEF Cancel, TypeOK, SubRow
    <2> QED
      BY <1>3, <2>1 DEF Cancel, EntitlementInv, PaidRowsCovered, HandlersCovered, KeyWithinPaid,
         RenewalFollowsPayment, ghosts
  <1>4. ASSUME NEW l \in Lics, Revoke(l) PROVE EntitlementInv'
    BY <1>4 DEF Revoke, EntitlementInv, PaidRowsCovered, HandlersCovered, KeyWithinPaid, RenewalFollowsPayment, ghosts
  <1>5. ASSUME NEW v \in Vouchers, CustomerPays(v) PROVE EntitlementInv'
    BY <1>5 DEF CustomerPays, EntitlementInv, PaidRowsCovered, HandlersCovered, KeyWithinPaid, RenewalFollowsPayment, ghosts
  <1>6. ASSUME NEW v \in Vouchers, Storno(v) PROVE EntitlementInv'
    BY <1>6 DEF Storno, EntitlementInv, PaidRowsCovered, HandlersCovered, KeyWithinPaid, RenewalFollowsPayment, ghosts
  <1>7. ASSUME Tick PROVE EntitlementInv'
    BY <1>7 DEF Tick, EntitlementInv, PaidRowsCovered, HandlersCovered, KeyWithinPaid, RenewalFollowsPayment, ghosts
  <1>8. ASSUME Restart PROVE EntitlementInv'
    <2>1. Within(Idle, paidMax)
      BY Unwatched, QuietSteps DEF Idle
    <2>2. \A p \in Procs : proc'[p] = Idle
      BY <1>8 DEF Restart
    <2> QED
      BY <1>8, <2>1, <2>2 DEF Restart, EntitlementInv, PaidRowsCovered, HandlersCovered, KeyWithinPaid,
         RenewalFollowsPayment, ghosts
  <1>9. ASSUME NEW p \in Procs, NEW s \in Subs, ApproveRequest(p, s) PROVE EntitlementInv'
    <2>1. [Idle EXCEPT !.op = "approve", !.s = s, !.pc = IF sub[s].free THEN "fr_row" ELSE
          "ap_invoice"].pc \notin Watched
      BY DEF Idle, Watched
    <2>2. Within([Idle EXCEPT !.op = "approve", !.s = s, !.pc = IF sub[s].free THEN "fr_row" ELSE
          "ap_invoice"], paidMax)
      BY <2>1, Unwatched
    <2> QED
      BY <1>9, <2>2, HandlerOnly DEF ApproveRequest, ghosts
  <1>10. ASSUME NEW p \in Procs, NEW v \in Vouchers, ApproveInvoice(p, v) PROVE EntitlementInv'
    <2>1. [proc[p] EXCEPT !.pc = "ap_row", !.v = v].pc \notin Watched
      <3>1. proc[p] \in Local
        BY DEF TypeOK
      <3> QED
        BY <3>1 DEF Local, Watched
    <2>2. Within([proc[p] EXCEPT !.pc = "ap_row", !.v = v], paidMax)
      BY <2>1, Unwatched
    <2> QED
      BY <1>10, <2>2, HandlerOnly DEF ApproveInvoice, ghosts
  <1>11. ASSUME NEW p \in Procs, NEW l \in Lics, ApproveRow(p, l) PROVE EntitlementInv'
    <2>1. [proc[p] EXCEPT !.pc = "ap_key", !.l = l].pc \notin Watched
      <3>1. proc[p] \in Local
        BY DEF TypeOK
      <3> QED
        BY <3>1 DEF Local, Watched
    <2>2. Within([proc[p] EXCEPT !.pc = "ap_key", !.l = l], paidMax)
      BY <2>1, Unwatched
    <2> QED
      BY <1>11, <2>2, HandlerOnly DEF ApproveRow, ghosts
  <1>12. ASSUME NEW p \in Procs, NEW stored \in BOOLEAN, ApproveKey(p, stored) PROVE EntitlementInv'
    <2>1. [proc[p] EXCEPT !.pc = "ap_tx"].pc \notin Watched
      <3>1. proc[p] \in Local
        BY DEF TypeOK
      <3> QED
        BY <3>1 DEF Local, Watched
    <2>2. Within([proc[p] EXCEPT !.pc = "ap_tx"], paidMax)
      BY <2>1, Unwatched
    <2> QED
      BY <1>12, <2>2, HandlerOnly DEF ApproveKey, ghosts
  <1>13. ASSUME NEW p \in Procs, NEW l \in Lics, FreeRow(p, l) PROVE EntitlementInv'
    <2>1. [proc[p] EXCEPT !.pc = "fr_tx", !.l = l].pc \notin Watched
      <3>1. proc[p] \in Local
        BY DEF TypeOK
      <3> QED
        BY <3>1 DEF Local, Watched
    <2>2. Within([proc[p] EXCEPT !.pc = "fr_tx", !.l = l], paidMax)
      BY <2>1, Unwatched
    <2> QED
      BY <1>13, <2>2, HandlerOnly DEF FreeRow, ghosts
  <1>14. ASSUME NEW p \in Procs, NEW v \in Vouchers, Webhook(p, v) PROVE EntitlementInv'
    <2>1. [Idle EXCEPT !.op = "webhook", !.pc = "st_claim", !.v = v].pc \notin Watched
      BY DEF Idle, Watched
    <2>2. Within([Idle EXCEPT !.op = "webhook", !.pc = "st_claim", !.v = v], paidMax)
      BY <2>1, Unwatched
    <2> QED
      BY <1>14, <2>2, HandlerOnly DEF Webhook, ghosts
  <1>15. ASSUME NEW p \in Procs, PollOnce(p) PROVE EntitlementInv'
    <2>1. PICK op, todo : Step(p, Begin(op, todo))
      BY <1>15 DEF PollOnce
    <2>2. Within(Begin(op, todo), paidMax)
      BY BeginQuiet, QuietSteps, Unwatched
    <2> QED
      BY <1>15, <2>1, <2>2, HandlerOnly DEF PollOnce, ghosts
  <1>16. ASSUME NEW p \in Procs, NEW i \in proc[p].todo, PollItem(p, i) PROVE EntitlementInv'
    <2>1. PICK r : Step(p, r) /\ r.pc \notin Watched
      <3>1. Begin(proc[p].op, proc[p].todo \ {i}).pc \notin Watched
        BY BeginQuiet, QuietSteps
      <3>2. [[Idle EXCEPT !.pc = "st_claim", !.v = i.v]
               EXCEPT !.op = proc[p].op, !.todo = proc[p].todo \ {i}].pc \notin Watched
        BY DEF Idle, Watched
      <3> QED
        BY <1>16, <3>1, <3>2 DEF PollItem, WorkOn, Skip
    <2> QED
      BY <1>16, <2>1, Unwatched, HandlerOnly DEF PollItem, ghosts
  <1>17. ASSUME NEW p \in Procs, SettleLicence(p) PROVE EntitlementInv'
    BY <1>17, DoneOnly DEF SettleLicence, ghosts
  <1>18. ASSUME NEW p \in Procs, RenewOnce(p) PROVE EntitlementInv'
    <2>1. PICK op, todo : Step(p, Begin(op, todo))
      BY <1>18 DEF RenewOnce
    <2>2. Within(Begin(op, todo), paidMax)
      BY BeginQuiet, QuietSteps, Unwatched
    <2> QED
      BY <1>18, <2>1, <2>2, HandlerOnly DEF RenewOnce, ghosts
  <1>19. ASSUME NEW p \in Procs, NEW i \in proc[p].todo, RenewItem(p, i) PROVE EntitlementInv'
    <2> DEFINE r == [[Idle EXCEPT !.pc = RenewsBy(i), !.s = i.s, !.end = i.date]
                       EXCEPT !.op = proc[p].op, !.todo = proc[p].todo \ {i}]
    <2>1. r.pc \in {"rf_row", "rn_invoice"}
      BY DEF Idle, RenewsBy
    <2>2. r.pc \notin Watched
      BY <2>1 DEF Watched
    <2> QED
      BY <1>19, <2>2, Unwatched, HandlerOnly DEF RenewItem, WorkOn, ghosts
  <1>20. ASSUME NEW p \in Procs, NEW v \in Vouchers, RenewInvoice(p, v) PROVE EntitlementInv'
    <2>1. [proc[p] EXCEPT !.pc = "rn_row", !.v = v].pc \notin Watched
      <3>1. proc[p] \in Local
        BY DEF TypeOK
      <3> QED
        BY <3>1 DEF Local, Watched
    <2>2. Within([proc[p] EXCEPT !.pc = "rn_row", !.v = v], paidMax)
      BY <2>1, Unwatched
    <2> QED
      BY <1>20, <2>2, HandlerOnly DEF RenewInvoice, ghosts
  <1>21. ASSUME NEW p \in Procs, NEW s \in Subs, ConvertToPaid(p, s) PROVE EntitlementInv'
    <2>1. PICK q \in PaidRows(s) :
             Step(p, [Idle EXCEPT !.op = "convert", !.pc = "cv_flip", !.s = s, !.end = q.end])
      BY <1>21 DEF ConvertToPaid
    <2>2. q.end <= paidMax[s]
      BY DEF PaidRows, EntitlementInv, PaidRowsCovered
    <2>3. Within([Idle EXCEPT !.op = "convert", !.pc = "cv_flip", !.s = s, !.end = q.end], paidMax)
      BY <2>2 DEF Within, Idle
    <2> QED
      BY <1>21, <2>1, <2>3, HandlerOnly DEF ConvertToPaid, ghosts
  <1>22. ASSUME NEW p \in Procs, NEW l \in Lics, GetLicense(p, l) PROVE EntitlementInv'
    <2>1. [Idle EXCEPT !.op = "fetch", !.pc = "gl_limit", !.l = l, !.s = lic[l].s, !.end =
          lic[l].expires].pc \notin Watched
      BY DEF Idle, Watched
    <2>2. Within([Idle EXCEPT !.op = "fetch", !.pc = "gl_limit", !.l = l, !.s = lic[l].s, !.end =
          lic[l].expires], paidMax)
      BY <2>1, Unwatched
    <2> QED
      BY <1>22, <2>2, HandlerOnly DEF GetLicense, ghosts
  <1>23. ASSUME NEW p \in Procs, GetLicenseLimit(p) PROVE EntitlementInv'
    <2>1. proc[p] \in Local
      BY DEF TypeOK
    <2>2. ASSUME NEW lim \in Limits(proc[p].s), Step(p, [proc[p] EXCEPT !.pc = "gl_sign", !.lim = lim])
          PROVE  EntitlementInv'
      <3>1. lim <= paidMax[proc[p].s] + GraceDays
        BY <2>1, LimitsCovered DEF Local
      <3>2. Within([proc[p] EXCEPT !.pc = "gl_sign", !.lim = lim], paidMax)
        BY <2>1, <3>1 DEF Within, Local
      <3> QED
        BY <1>23, <2>2, <3>2, HandlerOnly DEF GetLicenseLimit, ghosts
    <2>3. CASE Done(p)
      BY <1>23, <2>3, DoneOnly DEF GetLicenseLimit, ghosts
    <2> QED
      BY <1>23, <2>2, <2>3 DEF GetLicenseLimit
  <1>24. ASSUME NEW p \in Procs, MailExpiringOnce(p) PROVE EntitlementInv'
    <2>1. PICK op, todo : Step(p, Begin(op, todo))
      BY <1>24 DEF MailExpiringOnce
    <2>2. Within(Begin(op, todo), paidMax)
      BY BeginQuiet, QuietSteps, Unwatched
    <2> QED
      BY <1>24, <2>1, <2>2, HandlerOnly DEF MailExpiringOnce, ghosts
  <1>25. ASSUME NEW p \in Procs, NEW i \in proc[p].todo, MailItem(p, i) PROVE EntitlementInv'
    <2>1. proc[p] \in Local /\ i.s \in Subs
      BY DEF TypeOK, Local, Item
    <2> DEFINE r(lim) == [[Idle EXCEPT !.pc = "ml_sign", !.l = i.l, !.s = i.s, !.lim = lim]
                             EXCEPT !.op = proc[p].op, !.todo = proc[p].todo \ {i}]
    <2>2. ASSUME NEW lim \in Limits(i.s), Step(p, r(lim)) PROVE EntitlementInv'
      <3>1. lim <= paidMax[i.s] + GraceDays
        BY <2>1, LimitsCovered
      <3>2. Within(r(lim), paidMax)
        BY <3>1 DEF Within, Idle
      <3> QED
        BY <1>25, <2>2, <3>2, HandlerOnly DEF MailItem, ghosts
    <2>3. ASSUME Skip(p, i) PROVE EntitlementInv'
      <3>1. Within(Begin(proc[p].op, proc[p].todo \ {i}), paidMax)
        BY BeginQuiet, QuietSteps, Unwatched
      <3> QED
        BY <1>25, <2>3, <3>1, HandlerOnly DEF MailItem, Skip, ghosts
    <2> QED
      BY <1>25, <2>2, <2>3 DEF MailItem, WorkOn
  <1>26. ASSUME NEW p \in Procs, NEW s \in Subs, NEW org \in Orgs, IssueSeat(p, s, org) PROVE EntitlementInv'
    <2>1. [Idle EXCEPT !.op = "issue", !.pc = "is_limit", !.s = s, !.org = org].pc \notin Watched
      BY DEF Idle, Watched
    <2>2. Within([Idle EXCEPT !.op = "issue", !.pc = "is_limit", !.s = s, !.org = org], paidMax)
      BY <2>1, Unwatched
    <2> QED
      BY <1>26, <2>2, HandlerOnly DEF IssueSeat, ghosts
  <1>27. ASSUME NEW p \in Procs, IssueLimit(p) PROVE EntitlementInv'
    <2>1. proc[p] \in Local
      BY DEF TypeOK
    <2>2. ASSUME NEW lim \in Limits(proc[p].s), Step(p, [proc[p] EXCEPT !.pc = "is_row", !.lim = lim])
          PROVE  EntitlementInv'
      <3>1. lim <= paidMax[proc[p].s] + GraceDays
        BY <2>1, LimitsCovered DEF Local
      <3>2. Within([proc[p] EXCEPT !.pc = "is_row", !.lim = lim], paidMax)
        BY <2>1, <3>1 DEF Within, Local
      <3> QED
        BY <1>27, <2>2, <3>2, HandlerOnly DEF IssueLimit, ghosts
    <2>3. CASE Done(p)
      BY <1>27, <2>3, DoneOnly DEF IssueLimit, ghosts
    <2> QED
      BY <1>27, <2>2, <2>3 DEF IssueLimit
  <1>28. ASSUME NEW p \in Procs, NEW l \in Lics, IssueRow(p, l) PROVE EntitlementInv'
    <2>1. proc[p] \in Local /\ Within(proc[p], paidMax) /\ proc[p].pc = "is_row"
      BY <1>28 DEF TypeOK, EntitlementInv, HandlersCovered, IssueRow, At
    <2>2. Within([proc[p] EXCEPT !.pc = "is_key", !.l = l], paidMax)
      BY <2>1 DEF Within, Local
    <2> QED
      BY <1>28, <2>2, HandlerOnly DEF IssueRow, ghosts
  <1>29. ASSUME NEW p \in Procs, NEW op \in {"reconcile", "panelcheck"}, Reconcile(p, op) PROVE EntitlementInv'
    <2>1. [Idle EXCEPT !.op = op, !.pc = "rc_rows", !.todo = {[AnyItem EXCEPT !.v = v, !.free =
          (voucher[v].st = "voided")] : v \in {w \in Vouchers : voucher[w].st # "none"}}].pc \notin Watched
      BY DEF Idle, Watched
    <2>2. Within([Idle EXCEPT !.op = op, !.pc = "rc_rows", !.todo = {[AnyItem EXCEPT !.v = v,
          !.free = (voucher[v].st = "voided")] : v \in {w \in Vouchers : voucher[w].st #
          "none"}}], paidMax)
      BY <2>1, Unwatched
    <2> QED
      BY <1>29, <2>2, HandlerOnly DEF Reconcile, ghosts
  <1>30. ASSUME NEW p \in Procs, ReconcileRows(p) PROVE EntitlementInv'
    <2>1. PICK op, todo : Step(p, Begin(op, todo))
      BY <1>30 DEF ReconcileRows
    <2>2. Within(Begin(op, todo), paidMax)
      BY BeginQuiet, QuietSteps, Unwatched
    <2> QED
      BY <1>30, <2>1, <2>2, HandlerOnly DEF ReconcileRows, ghosts
  <1>31. ASSUME NEW p \in Procs, NEW v \in Vouchers, SendReminder(p, v) PROVE EntitlementInv'
    <2>1. [Idle EXCEPT !.op = "remind", !.pc = "rm_send", !.v = v].pc \notin Watched
      BY DEF Idle, Watched
    <2>2. Within([Idle EXCEPT !.op = "remind", !.pc = "rm_send", !.v = v], paidMax)
      BY <2>1, Unwatched
    <2> QED
      BY <1>31, <2>2, HandlerOnly DEF SendReminder, ghosts
  <1>32. ASSUME NEW p \in Procs, CallFails(p) PROVE EntitlementInv'
    <2>1. CASE Step(p, Idle)
      <3>1. Within(Idle, paidMax)
        BY Unwatched, QuietSteps DEF Idle
      <3> QED
        BY <1>32, <2>1, <3>1, HandlerOnly DEF CallFails, ghosts
    <2>2. CASE Done(p)
      BY <1>32, <2>2, DoneOnly DEF CallFails, ghosts
    <2> QED
      BY <1>32, <2>1, <2>2 DEF CallFails
  <1>33. ASSUME NEW p \in Procs, NEW i \in proc[p].todo, ItemFails(p, i) PROVE EntitlementInv'
    <2>1. PICK op, todo : Step(p, Begin(op, todo))
      BY <1>33 DEF ItemFails, Skip
    <2>2. Within(Begin(op, todo), paidMax)
      BY BeginQuiet, QuietSteps, Unwatched
    <2> QED
      BY <1>33, <2>1, <2>2, HandlerOnly DEF ItemFails, ghosts
  <1>34. ASSUME NEW p \in Procs, ApproveCommit(p) PROVE EntitlementInv'
    <2>1. PICK r : Step(p, r) /\ r.pc \in {"idle", "loop"}
      BY <1>34, DoneQuiet DEF ApproveCommit
    <2>2. Within(r, paidMax')
      BY <2>1, QuietSteps, Unwatched
    <2>3. paidMax' \in [Subs -> Nat] /\ \A s \in Subs : paidMax[s] <= paidMax'[s]
      BY <1>34 DEF ApproveCommit, TypeOK, ghosts
    <2>4. HandlersCovered'
      BY <2>1, <2>2, <2>3, HandlersStep DEF EntitlementInv
    <2>5. PaidRowsCovered'
      BY <1>34 DEF ApproveCommit, EntitlementInv, PaidRowsCovered, ghosts
    <2>6. \A t \in Subs : sub'[t].next = sub[t].next
      BY <1>34 DEF ApproveCommit, TypeOK, SubRow
    <2>7. KeyWithinPaid' /\ RenewalFollowsPayment'
      BY <1>34, <2>6 DEF ApproveCommit, EntitlementInv, KeyWithinPaid, RenewalFollowsPayment, ghosts
    <2> QED
      BY <2>4, <2>5, <2>7 DEF EntitlementInv
  <1>35. ASSUME NEW p \in Procs, FreeCommit(p) PROVE EntitlementInv'
    <2> DEFINE s == proc[p].s
    <2> DEFINE end == now + Period
    <2>1. s \in Subs /\ now \in Nat /\ end \in Nat
      BY PlanAssumption, BoundsAssumption DEF TypeOK, Local
    <2>2. CASE FreeRefTaken(s, now)
      BY <1>35, <2>2, DoneOnly DEF FreeCommit, ghosts
    <2>3. CASE ~FreeRefTaken(s, now)
      <3>1. /\ paidMax' = [paidMax EXCEPT ![s] = Larger(@, end)]
            /\ keyMax' = [keyMax EXCEPT ![s] = Larger(@, end + GraceDays)]
            /\ sub' = [sub EXCEPT ![s].status = "paid", ![s].next = NextInvoiceAt(end)]
            /\ rows' = rows \cup {[v |-> NoVoucher, s |-> s, start |-> now, end |-> end,
                                   status |-> "paid", made |-> now, reminded |-> NULL]}
        BY <1>35, <2>3 DEF FreeCommit, FreePeriod, Booked, Signed
      <3> HIDE DEF s, end
      <3>2. paidMax' \in [Subs -> Nat] /\ \A t \in Subs : paidMax[t] <= paidMax'[t]
        BY <3>1, <2>1 DEF Larger, TypeOK
      <3>3. end <= paidMax'[s] /\ keyMax' \in [Subs -> Nat]
        BY <3>1, <2>1, PlanAssumption DEF Larger, TypeOK
      <3>4. PaidRowsCovered'
        <4>1. \A r \in rows : r.s \in Subs /\ r.end \in Nat
          BY DEF TypeOK, InvRow
        <4>2. \A r \in rows : r.status = "paid" => r.end <= paidMax'[r.s]
          BY <4>1, <3>2 DEF EntitlementInv, PaidRowsCovered, TypeOK
        <4> QED
          BY <3>1, <3>3, <4>2 DEF PaidRowsCovered
      <3>5. KeyWithinPaid'
        BY <3>1, <3>2, <3>3, <2>1, PlanAssumption DEF KeyWithinPaid, EntitlementInv, TypeOK, Larger
      <3>6. RenewalFollowsPayment'
        <4>1. \A t \in Subs : t # s => sub'[t] = sub[t]
          BY <3>1, <2>1 DEF TypeOK
        <4>2. sub'[s].next = end - LeadDays
          BY <3>1, <2>1 DEF TypeOK, SubRow, NextInvoiceAt
        <4>3. \A t \in Subs : sub[t].next \in Int
          BY DEF TypeOK, SubRow, Dates
        <4> QED
          BY <3>2, <3>3, <2>1, <4>1, <4>2, <4>3, PlanAssumption DEF RenewalFollowsPayment, EntitlementInv, TypeOK
      <3>7. PICK r : Step(p, r) /\ r.pc \in {"idle", "loop"}
        BY <1>35, DoneQuiet DEF FreeCommit
      <3>8. Within(r, paidMax')
        BY <3>7, QuietSteps, Unwatched
      <3>9. HandlersCovered'
        BY <3>2, <3>7, <3>8, HandlersStep DEF EntitlementInv
      <3> QED
        BY <3>4, <3>5, <3>6, <3>9 DEF EntitlementInv
    <2> QED
      BY <2>2, <2>3
  <1>36. ASSUME NEW p \in Procs, SettleClaim(p) PROVE EntitlementInv'
    <2>1. CASE Done(p) /\ UNCHANGED <<rows, ghosts>>
      BY <1>36, <2>1, DoneOnly DEF SettleClaim, ghosts
    <2>2. ASSUME NEW q \in rows, rows' = (rows \ {q}) \cup {[q EXCEPT !.status = "paid"]},
                 Booked(q.s, q.end), UNCHANGED keyMax,
                 Step(p, [proc[p] EXCEPT !.pc = "st_sign", !.s = q.s, !.end = q.end])
          PROVE  EntitlementInv'
      <3>1. /\ \A r \in rows : r.s \in Subs /\ r.end \in Nat
            /\ [q EXCEPT !.status = "paid"].s = q.s /\ [q EXCEPT !.status = "paid"].end = q.end
        BY DEF TypeOK, InvRow
      <3>2. paidMax' \in [Subs -> Nat] /\ \A t \in Subs : paidMax[t] <= paidMax'[t]
        BY <2>2, <3>1 DEF Booked, Larger, TypeOK
      <3>3. q.end <= paidMax'[q.s]
        BY <2>2, <3>1 DEF Booked, Larger, TypeOK
      <3>4. PaidRowsCovered'
        <4>1. \A r \in rows : r.status = "paid" => r.end <= paidMax'[r.s]
          BY <3>1, <3>2 DEF EntitlementInv, PaidRowsCovered, TypeOK
        <4> QED
          BY <2>2, <3>1, <3>3, <4>1 DEF PaidRowsCovered
      <3>5. KeyWithinPaid' /\ RenewalFollowsPayment'
        <4>1. UNCHANGED <<sub, keyMax>>
          BY <1>36, <2>2 DEF SettleClaim
        <4>2. \A t \in Subs : sub[t].next \in Int
          BY DEF TypeOK, SubRow, Dates
        <4> QED
          BY <3>2, <4>1, <4>2, PlanAssumption DEF KeyWithinPaid, RenewalFollowsPayment, EntitlementInv, TypeOK
      <3>6. Within([proc[p] EXCEPT !.pc = "st_sign", !.s = q.s, !.end = q.end], paidMax')
        <4>1. proc[p] \in Local
          BY DEF TypeOK
        <4> QED
          BY <3>3, <4>1 DEF Within, Local
      <3>7. HandlersCovered'
        BY <2>2, <3>2, <3>6, HandlersStep DEF EntitlementInv
      <3> QED
        BY <3>4, <3>5, <3>7 DEF EntitlementInv
    <2> QED
      BY <1>36, <2>1, <2>2 DEF SettleClaim
  <1>37. ASSUME NEW p \in Procs, SettleSign(p) PROVE EntitlementInv'
    <2>1. proc[p] \in Local /\ Within(proc[p], paidMax) /\ proc[p].pc = "st_sign"
      BY <1>37 DEF TypeOK, EntitlementInv, HandlersCovered, SettleSign, At
    <2>2. CASE Done(p) /\ UNCHANGED ghosts
      BY <1>37, <2>2, DoneOnly DEF SettleSign, ghosts
    <2>3. ASSUME NEW l \in Lics, Signed(proc[p].s, proc[p].end + GraceDays), UNCHANGED paidMax,
                 Step(p, [proc[p] EXCEPT !.pc = "st_req", !.l = l, !.lim = proc[p].end + GraceDays])
          PROVE  EntitlementInv'
      <3>1. /\ proc[p].s \in Subs /\ proc[p].end \in Nat /\ proc[p].end + GraceDays \in Nat
            /\ proc[p].end <= paidMax[proc[p].s]
        BY <2>1, PlanAssumption DEF Within, Local
      <3>2. KeyWithinPaid'
        BY <2>3, <3>1, SignedCovered, PlanAssumption DEF TypeOK, EntitlementInv
      <3>3. Within([proc[p] EXCEPT !.pc = "st_req", !.l = l, !.lim = proc[p].end + GraceDays], paidMax)
        BY <2>1, <3>1 DEF Within, Local
      <3>4. HandlersCovered'
        BY <2>3, <3>3, HandlersStep DEF EntitlementInv, TypeOK
      <3> QED
        BY <1>37, <2>3, <3>2, <3>4 DEF SettleSign, EntitlementInv, PaidRowsCovered, RenewalFollowsPayment
    <2> QED
      BY <1>37, <2>2, <2>3 DEF SettleSign, EntitledTo
  <1>38. ASSUME NEW p \in Procs, NEW stored \in BOOLEAN, SettleRequest(p, stored) PROVE EntitlementInv'
    <2>1. proc[p] \in Local /\ Within(proc[p], paidMax) /\ proc[p].pc = "st_req"
      BY <1>38 DEF TypeOK, EntitlementInv, HandlersCovered, SettleRequest, At
    <2>2. proc[p].s \in Subs /\ proc[p].end \in Nat /\ proc[p].end <= paidMax[proc[p].s]
      BY <2>1 DEF Within, Local
    <2>3. \A t \in Subs : \/ sub'[t].next = sub[t].next
                          \/ t = proc[p].s /\ sub'[t].next = proc[p].end - LeadDays
      BY <1>38, <2>2 DEF SettleRequest, Advanced, TypeOK, SubRow, NextInvoiceAt
    <2>4. RenewalFollowsPayment'
      BY <1>38, <2>2, <2>3, PlanAssumption DEF SettleRequest, ghosts, RenewalFollowsPayment, EntitlementInv, TypeOK
    <2>5. Within([proc[p] EXCEPT !.pc = "st_lic"], paidMax)
      BY <2>1, Unwatched DEF Local, Watched
    <2>6. HandlersCovered'
      BY <1>38, <2>5, HandlersStep DEF SettleRequest, ghosts, EntitlementInv, TypeOK
    <2> QED
      BY <1>38, <2>4, <2>6 DEF SettleRequest, ghosts, EntitlementInv, PaidRowsCovered, KeyWithinPaid
  <1>39. ASSUME NEW p \in Procs, RenewRow(p) PROVE EntitlementInv'
    <2>1. proc[p] \in Local
      BY DEF TypeOK
    <2>2. Within([proc[p] EXCEPT !.pc = "rn_clear"], paidMax)
      BY <2>1, Unwatched DEF Local, Watched
    <2>3. HandlersCovered'
      BY <1>39, <2>2, HandlersStep DEF RenewRow, ghosts, EntitlementInv, TypeOK
    <2>4. PaidRowsCovered'
      BY <1>39 DEF RenewRow, ghosts, EntitlementInv, PaidRowsCovered
    <2> QED
      BY <1>39, <2>3, <2>4 DEF RenewRow, ghosts, EntitlementInv, KeyWithinPaid, RenewalFollowsPayment
  <1>40. ASSUME NEW p \in Procs, RenewClear(p) PROVE EntitlementInv'
    <2>1. PICK r : Step(p, r) /\ r.pc \in {"idle", "loop"}
      BY <1>40, DoneQuiet DEF RenewClear
    <2>2. Within(r, paidMax')
      BY <2>1, QuietSteps, Unwatched
    <2>3. paidMax' \in [Subs -> Nat] /\ \A s \in Subs : paidMax[s] <= paidMax'[s]
      BY <1>40 DEF RenewClear, TypeOK, ghosts
    <2>4. HandlersCovered'
      BY <2>1, <2>2, <2>3, HandlersStep DEF EntitlementInv
    <2>5. \A t \in Subs : sub'[t].next = sub[t].next \/ sub'[t].next = NULL
      BY <1>40 DEF RenewClear, TypeOK, SubRow
    <2> QED
      BY <1>40, <2>5, <2>4 DEF RenewClear, ghosts, EntitlementInv, PaidRowsCovered, KeyWithinPaid, RenewalFollowsPayment
  <1>41. ASSUME NEW p \in Procs, RenewFreeRow(p) PROVE EntitlementInv'
    <2> DEFINE s == proc[p].s
    <2> DEFINE end == proc[p].end + Period
    <2>1. proc[p] \in Local /\ s \in Subs /\ end \in Nat
      BY PlanAssumption DEF TypeOK, Local
    <2>2. CASE FreeRefTaken(s, proc[p].end)
      BY <1>41, <2>2, DoneOnly DEF RenewFreeRow, ghosts
    <2>3. CASE ~FreeRefTaken(s, proc[p].end)
      <3>1. /\ paidMax' = [paidMax EXCEPT ![s] = Larger(@, end)]
            /\ UNCHANGED <<keyMax, sub>>
            /\ Step(p, [proc[p] EXCEPT !.pc = "rf_next"])
            /\ rows' = rows \cup {[v |-> NoVoucher, s |-> s, start |-> proc[p].end, end |-> end,
                                   status |-> "paid", made |-> now, reminded |-> NULL]}
        BY <1>41, <2>3 DEF RenewFreeRow, FreePeriod, Booked
      <3>2. Within([proc[p] EXCEPT !.pc = "rf_next"], paidMax') \/ ~(end <= paidMax'[s])
        BY <2>1 DEF Within, Local
      <3> HIDE DEF s, end
      <3>3. paidMax' \in [Subs -> Nat] /\ \A t \in Subs : paidMax[t] <= paidMax'[t]
        BY <3>1, <2>1 DEF Larger, TypeOK
      <3>4. end <= paidMax'[s]
        BY <3>1, <2>1 DEF Larger, TypeOK
      <3>5. PaidRowsCovered'
        <4>1. \A r \in rows : r.s \in Subs /\ r.end \in Nat
          BY DEF TypeOK, InvRow
        <4>2. \A r \in rows : r.status = "paid" => r.end <= paidMax'[r.s]
          BY <4>1, <3>3 DEF EntitlementInv, PaidRowsCovered, TypeOK
        <4> QED
          BY <3>1, <3>4, <4>2 DEF PaidRowsCovered
      <3>6. KeyWithinPaid' /\ RenewalFollowsPayment'
        <4>1. \A t \in Subs : sub[t].next \in Int
          BY DEF TypeOK, SubRow, Dates
        <4> QED
          BY <3>1, <3>3, <4>1, PlanAssumption DEF KeyWithinPaid, RenewalFollowsPayment, EntitlementInv, TypeOK
      <3>7. HandlersCovered'
        BY <3>1, <3>2, <3>3, <3>4, HandlersStep DEF EntitlementInv
      <3> QED
        BY <3>5, <3>6, <3>7 DEF EntitlementInv
    <2> QED
      BY <2>2, <2>3
  <1>42. ASSUME NEW p \in Procs, RenewFreeNext(p) PROVE EntitlementInv'
    <2>1. PICK r : Step(p, r) /\ r.pc \in {"idle", "loop"}
      BY <1>42, DoneQuiet DEF RenewFreeNext
    <2>2. Within(r, paidMax')
      BY <2>1, QuietSteps, Unwatched
    <2>3. paidMax' \in [Subs -> Nat] /\ \A s \in Subs : paidMax[s] <= paidMax'[s]
      BY <1>42 DEF RenewFreeNext, TypeOK, ghosts
    <2>4. HandlersCovered'
      BY <2>1, <2>2, <2>3, HandlersStep DEF EntitlementInv
    <2>5. proc[p] \in Local /\ Within(proc[p], paidMax) /\ proc[p].pc = "rf_next"
      BY <1>42 DEF TypeOK, EntitlementInv, HandlersCovered, RenewFreeNext, At
    <2>6. proc[p].s \in Subs /\ proc[p].end \in Nat /\ proc[p].end + Period <= paidMax[proc[p].s]
      BY <2>5 DEF Within, Local
    <2>7. \A t \in Subs : \/ sub'[t].next = sub[t].next
                          \/ t = proc[p].s /\ sub'[t].next = proc[p].end + Period - LeadDays
      BY <1>42, <2>6, PlanAssumption DEF RenewFreeNext, TypeOK, SubRow, NextInvoiceAt
    <2>8. RenewalFollowsPayment'
      BY <1>42, <2>6, <2>7, PlanAssumption DEF RenewFreeNext, ghosts, RenewalFollowsPayment, EntitlementInv, TypeOK
    <2> QED
      BY <1>42, <2>8, <2>4 DEF RenewFreeNext, ghosts, EntitlementInv, PaidRowsCovered, KeyWithinPaid
  <1>43. ASSUME NEW p \in Procs, NEW invoiceNow \in BOOLEAN, ConvertFlip(p, invoiceNow) PROVE EntitlementInv'
    <2>1. proc[p] \in Local /\ Within(proc[p], paidMax) /\ proc[p].pc = "cv_flip"
      BY <1>43 DEF TypeOK, EntitlementInv, HandlersCovered, ConvertFlip, At
    <2>2. proc[p].s \in Subs /\ proc[p].end \in Nat /\ proc[p].end <= paidMax[proc[p].s]
      BY <2>1 DEF Within, Local
    <2>3. \A t \in Subs : \/ sub'[t].next = sub[t].next
                          \/ t = proc[p].s /\ sub'[t].next = proc[p].end - LeadDays
      BY <1>43, <2>2 DEF ConvertFlip, TypeOK, SubRow, NextInvoiceAt
    <2>4. RenewalFollowsPayment'
      BY <1>43, <2>2, <2>3, PlanAssumption DEF ConvertFlip, ghosts, RenewalFollowsPayment, EntitlementInv, TypeOK
    <2>5. PICK r : Step(p, r) /\ r.pc \in {"rn_invoice", "idle", "loop"}
      <3>1. [proc[p] EXCEPT !.pc = "rn_invoice", !.end = now].pc = "rn_invoice"
        BY <2>1 DEF Local
      <3>2. Done(p) \/ Step(p, [proc[p] EXCEPT !.pc = "rn_invoice", !.end = now])
        BY <1>43 DEF ConvertFlip
      <3> QED
        BY <3>1, <3>2, DoneQuiet
    <2>6. Within(r, paidMax)
      BY <2>5, Unwatched DEF Watched
    <2>7. HandlersCovered'
      BY <1>43, <2>5, <2>6, HandlersStep DEF ConvertFlip, ghosts, EntitlementInv, TypeOK
    <2> QED
      BY <1>43, <2>4, <2>7 DEF ConvertFlip, ghosts, EntitlementInv, PaidRowsCovered, KeyWithinPaid
  <1>44. ASSUME NEW p \in Procs, GetLicenseSign(p) PROVE EntitlementInv'
    <2>1. proc[p] \in Local /\ Within(proc[p], paidMax) /\ proc[p].pc = "gl_sign"
      BY <1>44 DEF TypeOK, EntitlementInv, HandlersCovered, GetLicenseSign, At
    <2>2. proc[p].s \in Subs /\ proc[p].lim \in Nat /\ proc[p].lim <= paidMax[proc[p].s] + GraceDays
      BY <2>1 DEF Within, Local
    <2>3. KeyWithinPaid'
      <3>1. Signed(proc[p].s, proc[p].lim) \/ keyMax' = keyMax
        BY <1>44 DEF GetLicenseSign
      <3>2. UNCHANGED paidMax
        BY <1>44 DEF GetLicenseSign
      <3>3. CASE keyMax' = keyMax
        BY <3>2, <3>3 DEF EntitlementInv, KeyWithinPaid
      <3> QED
        BY <2>2, <3>1, <3>2, <3>3, SignedCovered DEF EntitlementInv
    <2>4. PICK r : Step(p, r) /\ r.pc \in {"idle", "loop"}
      BY <1>44, DoneQuiet DEF GetLicenseSign
    <2>5. Within(r, paidMax')
      BY <2>4, QuietSteps, Unwatched
    <2>6. HandlersCovered'
      BY <1>44, <2>4, <2>5, HandlersStep DEF GetLicenseSign, EntitlementInv, TypeOK
    <2> QED
      BY <1>44, <2>3, <2>6 DEF GetLicenseSign, EntitlementInv, PaidRowsCovered, RenewalFollowsPayment
  <1>45. ASSUME NEW p \in Procs, NEW stored \in BOOLEAN, MailSign(p, stored) PROVE EntitlementInv'
    <2>1. proc[p] \in Local /\ Within(proc[p], paidMax) /\ proc[p].pc = "ml_sign"
      BY <1>45 DEF TypeOK, EntitlementInv, HandlersCovered, MailSign, At
    <2>2. proc[p].s \in Subs /\ proc[p].lim \in Nat /\ proc[p].lim <= paidMax[proc[p].s] + GraceDays
      BY <2>1 DEF Within, Local
    <2>3. KeyWithinPaid'
      <3>1. Signed(proc[p].s, proc[p].lim) \/ keyMax' = keyMax
        BY <1>45 DEF MailSign
      <3>2. UNCHANGED paidMax
        BY <1>45 DEF MailSign
      <3>3. CASE keyMax' = keyMax
        BY <3>2, <3>3 DEF EntitlementInv, KeyWithinPaid
      <3> QED
        BY <2>2, <3>1, <3>2, <3>3, SignedCovered DEF EntitlementInv
    <2>4. PICK r : Step(p, r) /\ r.pc \in {"idle", "loop"}
      BY <1>45, DoneQuiet DEF MailSign
    <2>5. Within(r, paidMax')
      BY <2>4, QuietSteps, Unwatched
    <2>6. HandlersCovered'
      BY <1>45, <2>4, <2>5, HandlersStep DEF MailSign, EntitlementInv, TypeOK
    <2> QED
      BY <1>45, <2>3, <2>6 DEF MailSign, EntitlementInv, PaidRowsCovered, RenewalFollowsPayment
  <1>46. ASSUME NEW p \in Procs, NEW outcome, IssueKey(p, outcome) PROVE EntitlementInv'
    <2>1. proc[p] \in Local /\ Within(proc[p], paidMax) /\ proc[p].pc = "is_key"
      BY <1>46 DEF TypeOK, EntitlementInv, HandlersCovered, IssueKey, At
    <2>2. proc[p].s \in Subs /\ proc[p].lim \in Nat /\ proc[p].lim <= paidMax[proc[p].s] + GraceDays
      BY <2>1 DEF Within, Local
    <2>3. KeyWithinPaid'
      <3>1. Signed(proc[p].s, proc[p].lim) \/ keyMax' = keyMax
        BY <1>46 DEF IssueKey
      <3>2. UNCHANGED paidMax
        BY <1>46 DEF IssueKey
      <3>3. CASE keyMax' = keyMax
        BY <3>2, <3>3 DEF EntitlementInv, KeyWithinPaid
      <3> QED
        BY <2>2, <3>1, <3>2, <3>3, SignedCovered DEF EntitlementInv
    <2>4. PICK r : Step(p, r) /\ r.pc \in {"idle", "loop"}
      BY <1>46, DoneQuiet DEF IssueKey
    <2>5. Within(r, paidMax')
      BY <2>4, QuietSteps, Unwatched
    <2>6. HandlersCovered'
      BY <1>46, <2>4, <2>5, HandlersStep DEF IssueKey, EntitlementInv, TypeOK
    <2> QED
      BY <1>46, <2>3, <2>6 DEF IssueKey, EntitlementInv, PaidRowsCovered, RenewalFollowsPayment
  <1>47. ASSUME NEW p \in Procs, NEW i \in proc[p].todo, ReconcileVoid(p, i) PROVE EntitlementInv'
    <2>1. Within(Begin(proc[p].op, proc[p].todo \ {i}), paidMax)
      BY BeginQuiet, QuietSteps, Unwatched
    <2>2. HandlersCovered'
      BY <1>47, <2>1, HandlersStep DEF ReconcileVoid, Skip, ghosts, EntitlementInv, TypeOK
    <2>3. PaidRowsCovered'
      <3>1. \A r \in rows : [r EXCEPT !.status = "voided"].status = "voided"
        BY DEF TypeOK, InvRow
      <3> QED
        BY <1>47, <3>1 DEF ReconcileVoid, Voided, ghosts, EntitlementInv, PaidRowsCovered
    <2> QED
      BY <1>47, <2>2, <2>3 DEF ReconcileVoid, ghosts, EntitlementInv, KeyWithinPaid, RenewalFollowsPayment
  <1>48. ASSUME NEW p \in Procs, NEW stored \in BOOLEAN, RemindSend(p, stored) PROVE EntitlementInv'
    <2>1. PICK h : Step(p, h) /\ h.pc \in {"idle", "loop"}
      BY <1>48, DoneQuiet DEF RemindSend
    <2>2. Within(h, paidMax')
      BY <2>1, QuietSteps, Unwatched
    <2>3. paidMax' \in [Subs -> Nat] /\ \A s \in Subs : paidMax[s] <= paidMax'[s]
      BY <1>48 DEF RemindSend, TypeOK, ghosts
    <2>4. HandlersCovered'
      BY <2>1, <2>2, <2>3, HandlersStep DEF EntitlementInv
    <2>5. PaidRowsCovered'
      <3>1. \A r \in rows : LET n == [r EXCEPT !.reminded = now] IN n.status = r.status /\ n.s = r.s /\ n.end = r.end
        BY DEF TypeOK, InvRow
      <3> QED
        <4>1. \A q \in rows' : q \in rows \/ \E r \in rows : q = [r EXCEPT !.reminded = now]
          BY <1>48 DEF RemindSend
        <4>2. UNCHANGED paidMax
          BY <1>48 DEF RemindSend
        <4>3. \A r \in rows : r.status = "paid" => r.end <= paidMax'[r.s]
          BY <4>2 DEF EntitlementInv, PaidRowsCovered
        <4>4. ASSUME NEW q \in rows', q.status = "paid" PROVE q.end <= paidMax'[q.s]
          <5>1. PICK r \in rows : q = r \/ q = [r EXCEPT !.reminded = now]
            BY <4>1
          <5>2. q.status = r.status /\ q.s = r.s /\ q.end = r.end
            BY <3>1, <5>1
          <5> QED
            BY <4>3, <4>4, <5>2
        <4> QED
          BY <4>4 DEF PaidRowsCovered
    <2> QED
      BY <1>48, <2>5, <2>4 DEF RemindSend, EntitlementInv, KeyWithinPaid, RenewalFollowsPayment
  <1>49. CASE UNCHANGED vars
    BY <1>49 DEF vars, EntitlementInv, PaidRowsCovered, HandlersCovered, KeyWithinPaid, RenewalFollowsPayment
  <1> QED
    BY <1>1, <1>2, <1>3, <1>4, <1>5, <1>6, <1>7, <1>8, <1>9, <1>10, <1>11, <1>12, <1>13,
       <1>14, <1>15, <1>16, <1>17, <1>18, <1>19, <1>20, <1>21, <1>22, <1>23, <1>24, <1>25,
       <1>26, <1>27, <1>28, <1>29, <1>30, <1>31, <1>32, <1>33, <1>34, <1>35, <1>36, <1>37,
       <1>38, <1>39, <1>40, <1>41, <1>42, <1>43, <1>44, <1>45, <1>46, <1>47, <1>48,
       <1>49 DEF Next, HandlerStart, HandlerStep

\* Entitlement(): for any number of subscriptions, handlers, invoices and licence rows,
\* whatever fails, no key but the trial key outlives the periods booked as paid plus
\* grace.
THEOREM KeysNeverOutliveWhatWasPaid == Spec => []KeyWithinPaid
  <1>1. TypeOK /\ EntitlementInv /\ [Next]_vars => (TypeOK /\ EntitlementInv)'
    BY TypeStep, EntitlementStep
  <1>2. EntitlementInv => KeyWithinPaid
    BY DEF EntitlementInv
  <1> QED
    BY InitType, InitEntitlement, <1>1, <1>2, PTL DEF Spec

\* settle, renewFree, ConvertToPaid: the renewal date of a subscription never runs ahead
\* of the periods booked as paid.
THEOREM RenewalNeverAheadOfPayment == Spec => []RenewalFollowsPayment
  <1>1. TypeOK /\ EntitlementInv /\ [Next]_vars => (TypeOK /\ EntitlementInv)'
    BY TypeStep, EntitlementStep
  <1>2. EntitlementInv => RenewalFollowsPayment
    BY DEF EntitlementInv
  <1> QED
    BY InitType, InitEntitlement, <1>1, <1>2, PTL DEF Spec

-----------------------------------------------------------------------------
(* Which operation brings a handler to which step, and which writes what.  *)

\* The operation that brought handler p where it is after the step.
Arrives(p) ==
    \/ proc'[p].pc \in {"ap_invoice", "fr_row"} /\ \E s \in Subs : ApproveRequest(p, s)
    \/ proc'[p].pc = "ap_row" /\ \E v \in Vouchers : ApproveInvoice(p, v)
    \/ proc'[p].pc = "ap_key" /\ \E l \in Lics : ApproveRow(p, l)
    \/ proc'[p].pc = "ap_tx" /\ \E stored \in BOOLEAN : ApproveKey(p, stored)
    \/ proc'[p].pc = "fr_tx" /\ \E l \in Lics : FreeRow(p, l)
    \/ proc'[p].pc = "st_claim" /\ \E v \in Vouchers : Webhook(p, v)
    \/ proc'[p].pc = "st_claim" /\ \E i \in proc[p].todo : PollItem(p, i)
    \/ proc'[p].pc = "st_sign" /\ SettleClaim(p)
    \/ proc'[p].pc = "st_req" /\ SettleSign(p)
    \/ proc'[p].pc = "st_lic" /\ \E stored \in BOOLEAN : SettleRequest(p, stored)
    \/ proc'[p].pc \in {"rn_invoice", "rf_row"} /\ \E i \in proc[p].todo : RenewItem(p, i)
    \/ proc'[p].pc = "rn_invoice" /\ \E invoiceNow \in BOOLEAN : ConvertFlip(p, invoiceNow)
    \/ proc'[p].pc = "rn_row" /\ \E v \in Vouchers : RenewInvoice(p, v)
    \/ proc'[p].pc = "rn_clear" /\ RenewRow(p)
    \/ proc'[p].pc = "rf_next" /\ RenewFreeRow(p)
    \/ proc'[p].pc = "cv_flip" /\ \E s \in Subs : ConvertToPaid(p, s)
    \/ proc'[p].pc = "gl_limit" /\ \E l \in Lics : GetLicense(p, l)
    \/ proc'[p].pc = "gl_sign" /\ GetLicenseLimit(p)
    \/ proc'[p].pc = "ml_sign" /\ \E i \in proc[p].todo : MailItem(p, i)
    \/ proc'[p].pc = "is_limit" /\ \E s \in Subs, org \in Orgs : IssueSeat(p, s, org)
    \/ proc'[p].pc = "is_row" /\ IssueLimit(p)
    \/ proc'[p].pc = "is_key" /\ \E l \in Lics : IssueRow(p, l)
    \/ proc'[p].pc = "rc_rows" /\ \E op \in {"reconcile", "panelcheck"} : Reconcile(p, op)
    \/ proc'[p].pc = "rm_send" /\ \E v \in Vouchers : SendReminder(p, v)

Resting == {"idle", "loop"}

\* A handler's step leaves the others where they are.
LEMMA StepsAlone ==
  ASSUME TypeOK, NEW p \in Procs, NEW r, Step(p, r)
  PROVE  proc'[p] = r /\ \A q \in Procs : q # p => proc'[q] = proc[q]
  BY DEF TypeOK, Step

\* Returning means resting.
LEMMA DoneRests ==
  ASSUME TypeOK, NEW p \in Procs, Done(p)
  PROVE  proc'[p].pc \in Resting /\ \A q \in Procs : q # p => proc'[q] = proc[q]
  <1>1. PICK r : Step(p, r) /\ r.pc \in {"idle", "loop"}
    BY DoneQuiet
  <1> QED
    BY <1>1, StepsAlone DEF Resting

\* So does beginning a sweep, and leaving an item behind.
LEMMA BeginRests ==
  ASSUME TypeOK, NEW p \in Procs, NEW op, NEW todo, Step(p, Begin(op, todo))
  PROVE  proc'[p].pc \in Resting /\ \A q \in Procs : q # p => proc'[q] = proc[q]
  BY BeginQuiet, StepsAlone DEF Resting

\* A handler's step changes its own record only and brings it to rest, or to where
\* Arrives says.
LEMMA HandlerMoves ==
  ASSUME TypeOK, NEW p \in Procs, HandlerStart(p) \/ HandlerStep(p)
  PROVE  /\ proc'[p].pc \in Resting \/ Arrives(p)
         /\ \A q \in Procs : q # p => proc'[q] = proc[q]
  <1> DEFINE Goal == /\ proc'[p].pc \in Resting \/ Arrives(p)
                     /\ \A q \in Procs : q # p => proc'[q] = proc[q]
  <1> DEFINE To(S) == proc'[p].pc \in S /\ \A q \in Procs : q # p => proc'[q] = proc[q]
  <1>0. proc[p] \in Local /\ proc \in [Procs -> Local]
    BY DEF TypeOK
  <1>1. ASSUME NEW i, Skip(p, i) PROVE To(Resting)
    BY <1>1, BeginRests DEF Skip
  <1>2. CASE HandlerStart(p)
    <2>1. ASSUME NEW s \in Subs, ApproveRequest(p, s) PROVE Goal
      <3>1. To({"ap_invoice", "fr_row"})
        BY <1>0, <2>1 DEF Step, ApproveRequest, Idle
      <3> QED
        BY <2>1, <3>1 DEF Arrives
    <2>2. ASSUME NEW s \in Subs, ConvertToPaid(p, s) PROVE Goal
      <3>1. To({"cv_flip"})
        BY <1>0, <2>2 DEF Step, ConvertToPaid, Idle
      <3> QED
        BY <2>2, <3>1 DEF Arrives
    <2>3. ASSUME NEW s \in Subs, NEW org \in Orgs, IssueSeat(p, s, org) PROVE Goal
      <3>1. To({"is_limit"})
        BY <1>0, <2>3 DEF Step, IssueSeat, Idle
      <3> QED
        BY <2>3, <3>1 DEF Arrives
    <2>4. ASSUME NEW v \in Vouchers, Webhook(p, v) PROVE Goal
      <3>1. To({"st_claim"})
        BY <1>0, <2>4 DEF Step, Webhook, Idle
      <3> QED
        BY <2>4, <3>1 DEF Arrives
    <2>5. ASSUME NEW v \in Vouchers, SendReminder(p, v) PROVE Goal
      <3>1. To({"rm_send"})
        BY <1>0, <2>5 DEF Step, SendReminder, Idle
      <3> QED
        BY <2>5, <3>1 DEF Arrives
    <2>6. ASSUME NEW l \in Lics, GetLicense(p, l) PROVE Goal
      <3>1. To({"gl_limit"})
        BY <1>0, <2>6 DEF Step, GetLicense, Idle
      <3> QED
        BY <2>6, <3>1 DEF Arrives
    <2>7. ASSUME NEW op \in {"reconcile", "panelcheck"}, Reconcile(p, op) PROVE Goal
      <3>1. To({"rc_rows"})
        BY <1>0, <2>7 DEF Step, Reconcile, Idle
      <3> QED
        BY <2>7, <3>1 DEF Arrives
    <2>8. ASSUME PollOnce(p) \/ RenewOnce(p) \/ MailExpiringOnce(p) PROVE Goal
      BY <2>8, BeginRests DEF PollOnce, RenewOnce, MailExpiringOnce
    <2> QED
      BY <1>2, <2>1, <2>2, <2>3, <2>4, <2>5, <2>6, <2>7, <2>8 DEF HandlerStart
  <1>3. CASE HandlerStep(p)
    <2>1. ASSUME NEW v \in Vouchers, ApproveInvoice(p, v) PROVE Goal
      <3>1. To({"ap_row"})
        BY <1>0, <2>1 DEF Step, ApproveInvoice, Local
      <3> QED
        BY <2>1, <3>1 DEF Arrives
    <2>2. ASSUME NEW v \in Vouchers, RenewInvoice(p, v) PROVE Goal
      <3>1. To({"rn_row"})
        BY <1>0, <2>2 DEF Step, RenewInvoice, Local
      <3> QED
        BY <2>2, <3>1 DEF Arrives
    <2>3. ASSUME NEW l \in Lics, ApproveRow(p, l) PROVE Goal
      <3>1. To({"ap_key"})
        BY <1>0, <2>3 DEF Step, ApproveRow, Local
      <3> QED
        BY <2>3, <3>1 DEF Arrives
    <2>4. ASSUME NEW l \in Lics, FreeRow(p, l) PROVE Goal
      <3>1. To({"fr_tx"})
        BY <1>0, <2>4 DEF Step, FreeRow, Local
      <3> QED
        BY <2>4, <3>1 DEF Arrives
    <2>5. ASSUME NEW l \in Lics, IssueRow(p, l) PROVE Goal
      <3>1. To({"is_key"})
        BY <1>0, <2>5 DEF Step, IssueRow, Local
      <3> QED
        BY <2>5, <3>1 DEF Arrives
    <2>6. ASSUME NEW stored \in BOOLEAN, ApproveKey(p, stored) PROVE Goal
      <3>1. To({"ap_tx"})
        BY <1>0, <2>6 DEF Step, ApproveKey, Local
      <3> QED
        BY <2>6, <3>1 DEF Arrives
    <2>7. ASSUME NEW stored \in BOOLEAN, SettleRequest(p, stored) PROVE Goal
      <3>1. To({"st_lic"})
        BY <1>0, <2>7 DEF Step, SettleRequest, Local
      <3> QED
        BY <2>7, <3>1 DEF Arrives
    <2>8. ASSUME NEW invoiceNow \in BOOLEAN, ConvertFlip(p, invoiceNow) PROVE Goal
      <3>1. To(Resting \cup {"rn_invoice"})
        BY <1>0, <2>8, DoneRests DEF Step, ConvertFlip, Local
      <3> QED
        BY <2>8, <3>1 DEF Arrives
    <2>9. ASSUME NEW i \in proc[p].todo, PollItem(p, i) PROVE Goal
      <3>1. To(Resting \cup {"st_claim"})
        BY <1>0, <1>1, <2>9 DEF Step, PollItem, WorkOn, Idle
      <3> QED
        BY <2>9, <3>1 DEF Arrives
    <2>10. ASSUME NEW i \in proc[p].todo, RenewItem(p, i) PROVE Goal
      <3>1. To({"rn_invoice", "rf_row"})
        BY <1>0, <2>10 DEF Step, RenewItem, RenewsBy, WorkOn, Idle
      <3> QED
        BY <2>10, <3>1 DEF Arrives
    <2>11. ASSUME NEW i \in proc[p].todo, MailItem(p, i) PROVE Goal
      <3>1. To(Resting \cup {"ml_sign"})
        BY <1>0, <1>1, <2>11 DEF Step, MailItem, WorkOn, Idle
      <3> QED
        BY <2>11, <3>1 DEF Arrives
    <2>12. ASSUME SettleClaim(p) PROVE Goal
      <3>1. To(Resting \cup {"st_sign"})
        BY <1>0, <2>12, DoneRests DEF Step, SettleClaim, Local
      <3> QED
        BY <2>12, <3>1 DEF Arrives
    <2>13. ASSUME SettleSign(p) PROVE Goal
      <3>1. To(Resting \cup {"st_req"})
        BY <1>0, <2>13, DoneRests DEF Step, SettleSign, Local
      <3> QED
        BY <2>13, <3>1 DEF Arrives
    <2>14. ASSUME RenewRow(p) PROVE Goal
      <3>1. To({"rn_clear"})
        BY <1>0, <2>14 DEF Step, RenewRow, Local
      <3> QED
        BY <2>14, <3>1 DEF Arrives
    <2>15. ASSUME RenewFreeRow(p) PROVE Goal
      <3>1. To(Resting \cup {"rf_next"})
        BY <1>0, <2>15, DoneRests DEF Step, RenewFreeRow, Local
      <3> QED
        BY <2>15, <3>1 DEF Arrives
    <2>16. ASSUME GetLicenseLimit(p) PROVE Goal
      <3>1. To(Resting \cup {"gl_sign"})
        BY <1>0, <2>16, DoneRests DEF Step, GetLicenseLimit, Local
      <3> QED
        BY <2>16, <3>1 DEF Arrives
    <2>17. ASSUME IssueLimit(p) PROVE Goal
      <3>1. To(Resting \cup {"is_row"})
        BY <1>0, <2>17, DoneRests DEF Step, IssueLimit, Local
      <3> QED
        BY <2>17, <3>1 DEF Arrives
    <2>18. ASSUME NEW stored \in BOOLEAN, MailSign(p, stored) \/ RemindSend(p, stored) PROVE Goal
      BY <2>18, DoneRests DEF MailSign, RemindSend
    <2>19. ASSUME NEW outcome, IssueKey(p, outcome) PROVE Goal
      BY <2>19, DoneRests DEF IssueKey
    <2>20. ASSUME NEW i \in proc[p].todo, ReconcileVoid(p, i) \/ ItemFails(p, i) PROVE Goal
      BY <2>20, <1>1 DEF ReconcileVoid, ItemFails
    <2>21. ASSUME ApproveCommit(p) \/ FreeCommit(p) \/ SettleLicence(p) \/ RenewClear(p) PROVE Goal
      BY <2>21, DoneRests DEF ApproveCommit, FreeCommit, SettleLicence, RenewClear
    <2>22. ASSUME RenewFreeNext(p) \/ GetLicenseSign(p) PROVE Goal
      BY <2>22, DoneRests DEF RenewFreeNext, GetLicenseSign
    <2>23. ASSUME ReconcileRows(p) PROVE Goal
      BY <2>23, BeginRests DEF ReconcileRows
    <2>24. ASSUME CallFails(p) PROVE Goal
      BY <2>24, DoneRests, StepsAlone DEF CallFails, Idle, Resting
    <2> QED
      BY <1>3, <2>1, <2>2, <2>3, <2>4, <2>5, <2>6, <2>7, <2>8, <2>9, <2>10, <2>11, <2>12, <2>13,
         <2>14, <2>15, <2>16, <2>17, <2>18, <2>19, <2>20, <2>21, <2>22, <2>23, <2>24 DEF HandlerStep
  <1> QED
    BY <1>2, <1>3

\* Nobody else moves a handler, except that a restart ends them all.
LEMMA OutsideMoves ==
  ASSUME TypeOK, [Next]_vars, \A p \in Procs : ~HandlerStart(p) /\ ~HandlerStep(p)
  PROVE  UNCHANGED proc \/ \A q \in Procs : proc'[q] = Idle
  BY DEF Next, RequestQuote, Cancel, CreateSubscription, Revoke, CustomerPays, Storno, Tick, Restart, vars

\* Where a handler is after any step of the system.
LEMMA Arrivals ==
  ASSUME TypeOK, [Next]_vars, NEW q \in Procs
  PROVE  proc'[q] = proc[q] \/ proc'[q].pc \in Resting \/ Arrives(q)
  <1>1. ASSUME NEW p \in Procs, HandlerStart(p) \/ HandlerStep(p)
        PROVE  proc'[q] = proc[q] \/ proc'[q].pc \in Resting \/ Arrives(q)
    BY <1>1, HandlerMoves
  <1>2. Idle.pc \in Resting
    BY DEF Idle, Resting
  <1> QED
    BY <1>1, <1>2, OutsideMoves

\* A handler that is to sign a paid invoice's key, to move the cycle on or to compare its
\* books with Lexware's does that next, or fails, or is lost in a restart.
LEMMA MovesOn ==
  ASSUME TypeOK, [Next]_vars, NEW p \in Procs, proc[p].pc \in {"st_sign", "st_req", "rc_rows"}
  PROVE  \/ proc'[p] = proc[p]
         \/ At(p, "st_sign") /\ SettleSign(p)
         \/ At(p, "st_req") /\ \E stored \in BOOLEAN : SettleRequest(p, stored)
         \/ At(p, "rc_rows") /\ ReconcileRows(p)
         \/ CallFails(p)
         \/ Restart /\ proc'[p] = Idle
  <1> DEFINE Goal == \/ proc'[p] = proc[p]
                     \/ At(p, "st_sign") /\ SettleSign(p)
                     \/ At(p, "st_req") /\ \E stored \in BOOLEAN : SettleRequest(p, stored)
                     \/ At(p, "rc_rows") /\ ReconcileRows(p)
                     \/ CallFails(p)
                     \/ Restart /\ proc'[p] = Idle
  <1>1. ~HandlerStart(p)
    BY DEF HandlerStart, ApproveRequest, ConvertToPaid, IssueSeat, Webhook, SendReminder, GetLicense,
       PollOnce, RenewOnce, MailExpiringOnce, Reconcile, Sweeps, Starts, At
  <1>2. CASE HandlerStep(p)
    <2>1. \A v \in Vouchers : ~ApproveInvoice(p, v) /\ ~RenewInvoice(p, v)
      BY DEF ApproveInvoice, RenewInvoice, At
    <2>2. \A l \in Lics : ~ApproveRow(p, l) /\ ~FreeRow(p, l) /\ ~IssueRow(p, l)
      BY DEF ApproveRow, FreeRow, IssueRow, At
    <2>3. \A stored \in BOOLEAN : ~ApproveKey(p, stored) /\ ~MailSign(p, stored) /\ ~RemindSend(p, stored)
      BY DEF ApproveKey, MailSign, RemindSend, At
    <2>4. \A outcome : ~IssueKey(p, outcome)
      BY DEF IssueKey, At
    <2>5. \A invoiceNow \in BOOLEAN : ~ConvertFlip(p, invoiceNow)
      BY DEF ConvertFlip, At
    <2>6. \A i : ~PollItem(p, i) /\ ~RenewItem(p, i) /\ ~MailItem(p, i) /\ ~ReconcileVoid(p, i) /\ ~ItemFails(p, i)
      BY DEF PollItem, RenewItem, MailItem, ReconcileVoid, ItemFails, Loops, At
    <2>7. ~ApproveCommit(p) /\ ~FreeCommit(p) /\ ~SettleClaim(p) /\ ~SettleLicence(p)
      BY DEF ApproveCommit, FreeCommit, SettleClaim, SettleLicence, At
    <2>8. ~RenewRow(p) /\ ~RenewClear(p) /\ ~RenewFreeRow(p) /\ ~RenewFreeNext(p)
      BY DEF RenewRow, RenewClear, RenewFreeRow, RenewFreeNext, At
    <2>9. ~GetLicenseLimit(p) /\ ~GetLicenseSign(p) /\ ~IssueLimit(p)
      BY DEF GetLicenseLimit, GetLicenseSign, IssueLimit, At
    <2>10. ASSUME SettleSign(p) PROVE At(p, "st_sign")
      BY <2>10 DEF SettleSign
    <2>11. ASSUME NEW stored \in BOOLEAN, SettleRequest(p, stored) PROVE At(p, "st_req")
      BY <2>11 DEF SettleRequest
    <2>12. ASSUME ReconcileRows(p) PROVE At(p, "rc_rows")
      BY <2>12 DEF ReconcileRows
    <2> QED
      BY <1>2, <2>1, <2>2, <2>3, <2>4, <2>5, <2>6, <2>7, <2>8, <2>9, <2>10, <2>11, <2>12 DEF HandlerStep
  <1>3. ASSUME NEW q \in Procs, q # p, HandlerStart(q) \/ HandlerStep(q) PROVE Goal
    BY <1>3, HandlerMoves
  <1>4. CASE \A q \in Procs : ~HandlerStart(q) /\ ~HandlerStep(q)
    <2>1. CASE Restart
      BY <2>1 DEF Restart
    <2>2. CASE ~Restart
      <3>1. UNCHANGED proc
        BY <1>4, <2>2 DEF Next, RequestQuote, Cancel, CreateSubscription, Revoke, CustomerPays, Storno, Tick, vars
      <3> QED
        BY <3>1
    <2> QED
      BY <2>1, <2>2
  <1> QED
    BY <1>1, <1>2, <1>3, <1>4

\* Who writes which table.
SubWritten ==
    \/ \E s \in Subs : RequestQuote(s) \/ Cancel(s)
    \/ \E s \in Subs, free \in BOOLEAN : CreateSubscription(s, free)
    \/ \E p \in Procs :
          \/ ApproveCommit(p) \/ FreeCommit(p) \/ RenewClear(p) \/ RenewFreeNext(p)
          \/ \E stored \in BOOLEAN : SettleRequest(p, stored)
          \/ \E invoiceNow \in BOOLEAN : ConvertFlip(p, invoiceNow)
VoucherWritten ==
    \/ \E p \in Procs, v \in Vouchers : ApproveInvoice(p, v) \/ RenewInvoice(p, v)
    \/ \E v \in Vouchers : CustomerPays(v) \/ Storno(v)
RowsWritten ==
    \E p \in Procs :
       \/ ApproveCommit(p) \/ FreeCommit(p) \/ SettleClaim(p) \/ RenewRow(p) \/ RenewFreeRow(p)
       \/ \E i \in proc[p].todo : ReconcileVoid(p, i)
       \/ \E stored \in BOOLEAN : RemindSend(p, stored)
LicWritten ==
    \/ \E l \in Lics : Revoke(l)
    \/ \E p \in Procs :
          \/ \E l \in Lics : ApproveRow(p, l) \/ FreeRow(p, l) \/ IssueRow(p, l)
          \/ \E stored \in BOOLEAN : ApproveKey(p, stored) \/ MailSign(p, stored)
          \/ \E outcome \in {"stored", "unstored", "dropped", "burnt"} : IssueKey(p, outcome)
          \/ FreeCommit(p) \/ SettleLicence(p) \/ GetLicenseSign(p)
ReportWritten == \E p \in Procs : ReconcileRows(p)

\* No other operation writes a table.
LEMMA TableWriters ==
  ASSUME [Next]_vars
  PROVE  /\ UNCHANGED sub \/ SubWritten
         /\ UNCHANGED voucher \/ VoucherWritten
         /\ UNCHANGED rows \/ RowsWritten
         /\ UNCHANGED lic \/ LicWritten
         /\ UNCHANGED report \/ ReportWritten
  <1> DEFINE Goal == /\ UNCHANGED sub \/ SubWritten
                     /\ UNCHANGED voucher \/ VoucherWritten
                     /\ UNCHANGED rows \/ RowsWritten
                     /\ UNCHANGED lic \/ LicWritten
                     /\ UNCHANGED report \/ ReportWritten
  <1>1. ASSUME NEW p \in Procs, HandlerStart(p) PROVE UNCHANGED <<sub, voucher, rows, lic, report>>
    BY <1>1 DEF HandlerStart, ApproveRequest, ConvertToPaid, IssueSeat, Webhook, SendReminder,
       GetLicense, PollOnce, RenewOnce, MailExpiringOnce, Reconcile
  <1>2. ASSUME NEW p \in Procs, HandlerStep(p) PROVE Goal
    <2>1. ASSUME NEW v \in Vouchers, ApproveInvoice(p, v) \/ RenewInvoice(p, v)
          PROVE  UNCHANGED <<sub, rows, lic, report>>
      BY <2>1 DEF ApproveInvoice, RenewInvoice
    <2>2. ASSUME NEW l \in Lics, ApproveRow(p, l) \/ FreeRow(p, l) \/ IssueRow(p, l)
          PROVE  UNCHANGED <<sub, voucher, rows, report>>
      BY <2>2 DEF ApproveRow, FreeRow, IssueRow
    <2>3. ASSUME NEW stored \in BOOLEAN, ApproveKey(p, stored) \/ MailSign(p, stored)
          PROVE  UNCHANGED <<sub, voucher, rows, report>>
      BY <2>3 DEF ApproveKey, MailSign
    <2>4. ASSUME NEW stored \in BOOLEAN, SettleRequest(p, stored) PROVE UNCHANGED <<voucher, rows, lic, report>>
      BY <2>4 DEF SettleRequest
    <2>5. ASSUME NEW stored \in BOOLEAN, RemindSend(p, stored) PROVE UNCHANGED <<sub, voucher, lic, report>>
      BY <2>5 DEF RemindSend
    <2>6. ASSUME NEW outcome, IssueKey(p, outcome) PROVE UNCHANGED <<sub, voucher, rows, report>>
      BY <2>6 DEF IssueKey
    <2>7. ASSUME NEW invoiceNow \in BOOLEAN, ConvertFlip(p, invoiceNow)
          PROVE  UNCHANGED <<voucher, rows, lic, report>>
      BY <2>7 DEF ConvertFlip
    <2>8. ASSUME NEW i \in proc[p].todo, PollItem(p, i) \/ RenewItem(p, i) \/ MailItem(p, i) \/ ItemFails(p, i)
          PROVE  UNCHANGED <<sub, voucher, rows, lic, report>>
      BY <2>8 DEF PollItem, RenewItem, MailItem, ItemFails
    <2>9. ASSUME NEW i \in proc[p].todo, ReconcileVoid(p, i) PROVE UNCHANGED <<sub, voucher, lic, report>>
      BY <2>9 DEF ReconcileVoid
    <2>10. ASSUME ApproveCommit(p) PROVE UNCHANGED <<voucher, lic, report>>
      BY <2>10 DEF ApproveCommit
    <2>11. ASSUME FreeCommit(p) PROVE UNCHANGED <<voucher, report>>
      BY <2>11 DEF FreeCommit
    <2>12. ASSUME SettleClaim(p) \/ RenewRow(p) \/ RenewFreeRow(p) PROVE UNCHANGED <<sub, voucher, lic, report>>
      BY <2>12 DEF SettleClaim, RenewRow, RenewFreeRow
    <2>13. ASSUME SettleSign(p) \/ GetLicenseLimit(p) \/ IssueLimit(p) \/ CallFails(p)
           PROVE  UNCHANGED <<sub, voucher, rows, lic, report>>
      BY <2>13 DEF SettleSign, GetLicenseLimit, IssueLimit, CallFails
    <2>14. ASSUME SettleLicence(p) \/ GetLicenseSign(p) PROVE UNCHANGED <<sub, voucher, rows, report>>
      BY <2>14 DEF SettleLicence, GetLicenseSign
    <2>15. ASSUME RenewClear(p) \/ RenewFreeNext(p) PROVE UNCHANGED <<voucher, rows, lic, report>>
      BY <2>15 DEF RenewClear, RenewFreeNext
    <2>16. ASSUME ReconcileRows(p) PROVE UNCHANGED <<sub, voucher, rows, lic>>
      BY <2>16 DEF ReconcileRows
    <2> QED
      BY <1>2, <2>1, <2>2, <2>3, <2>4, <2>5, <2>6, <2>7, <2>8, <2>9, <2>10, <2>11, <2>12, <2>13, <2>14,
         <2>15, <2>16 DEF HandlerStep, SubWritten, VoucherWritten, RowsWritten, LicWritten, ReportWritten
  <1>3. ASSUME NEW s \in Subs, RequestQuote(s) \/ Cancel(s) PROVE UNCHANGED <<voucher, rows, lic, report>>
    BY <1>3 DEF RequestQuote, Cancel
  <1>4. ASSUME NEW s \in Subs, NEW free \in BOOLEAN, CreateSubscription(s, free)
        PROVE  UNCHANGED <<voucher, rows, lic, report>>
    BY <1>4 DEF CreateSubscription
  <1>5. ASSUME NEW l \in Lics, Revoke(l) PROVE UNCHANGED <<sub, voucher, rows, report>>
    BY <1>5 DEF Revoke
  <1>6. ASSUME NEW v \in Vouchers, CustomerPays(v) \/ Storno(v) PROVE UNCHANGED <<sub, rows, lic, report>>
    BY <1>6 DEF CustomerPays, Storno
  <1>7. ASSUME Restart \/ Tick \/ UNCHANGED vars PROVE UNCHANGED <<sub, voucher, rows, lic, report>>
    BY <1>7 DEF Restart, Tick, vars
  <1> QED
    BY <1>1, <1>2, <1>3, <1>4, <1>5, <1>6, <1>7 DEF Next, SubWritten, VoucherWritten, LicWritten

\* A handler's operation and the items it still has to work through only change when it
\* starts, and when the reconciliation turns to the invoices to void.
LEMMA Agenda ==
  ASSUME TypeOK, [Next]_vars, NEW q \in Procs
  PROVE  \/ proc'[q].op = proc[q].op /\ proc'[q].todo \subseteq proc[q].todo
         \/ proc'[q] = Idle
         \/ HandlerStart(q)
         \/ ReconcileRows(q)
  <1> DEFINE Kept(p) == proc'[p] = Idle \/ (proc'[p].op = proc[p].op /\ proc'[p].todo \subseteq proc[p].todo)
  <1>0. proc \in [Procs -> Local] /\ \A p \in Procs : proc[p] \in Local
    BY DEF TypeOK
  <1>1. ASSUME NEW p \in Procs, NEW i, Skip(p, i) PROVE Kept(p)
    BY <1>0, <1>1 DEF Skip, Step, Begin, Idle
  <1>2. ASSUME NEW p \in Procs, Done(p) PROVE Kept(p)
    BY <1>0, <1>2 DEF Done, Step, Idle
  <1>3. ASSUME NEW p \in Procs, HandlerStep(p) PROVE Kept(p) \/ ReconcileRows(p)
    <2>0. proc[p] \in Local /\ proc \in [Procs -> Local]
      BY <1>0
    <2>1. ASSUME NEW v \in Vouchers, ApproveInvoice(p, v) \/ RenewInvoice(p, v) PROVE Kept(p)
      BY <2>0, <2>1 DEF ApproveInvoice, RenewInvoice, Step, Local
    <2>2. ASSUME NEW l \in Lics, ApproveRow(p, l) \/ FreeRow(p, l) \/ IssueRow(p, l) PROVE Kept(p)
      BY <2>0, <2>2 DEF ApproveRow, FreeRow, IssueRow, Step, Local
    <2>3. ASSUME NEW stored \in BOOLEAN, ApproveKey(p, stored) \/ SettleRequest(p, stored) PROVE Kept(p)
      BY <2>0, <2>3 DEF ApproveKey, SettleRequest, Step, Local
    <2>4. ASSUME NEW stored \in BOOLEAN, MailSign(p, stored) \/ RemindSend(p, stored) PROVE Kept(p)
      BY <2>4, <1>2 DEF MailSign, RemindSend
    <2>5. ASSUME NEW outcome, IssueKey(p, outcome) PROVE Kept(p)
      BY <2>5, <1>2 DEF IssueKey
    <2>6. ASSUME NEW invoiceNow \in BOOLEAN, ConvertFlip(p, invoiceNow) PROVE Kept(p)
      BY <1>2, <2>0, <2>6 DEF ConvertFlip, Step, Local
    <2>7. ASSUME NEW i \in proc[p].todo, PollItem(p, i) \/ RenewItem(p, i) \/ MailItem(p, i) PROVE Kept(p)
      <3>1. CASE PollItem(p, i)
        <4>1. Skip(p, i) \/ WorkOn(p, i, [Idle EXCEPT !.pc = "st_claim", !.v = i.v])
          BY <3>1 DEF PollItem
        <4>2. CASE Skip(p, i)
          BY <1>1, <4>2
        <4>3. CASE WorkOn(p, i, [Idle EXCEPT !.pc = "st_claim", !.v = i.v])
          BY <2>0, <4>3 DEF WorkOn, Step, Idle
        <4> QED
          BY <4>1, <4>2, <4>3
      <3>2. CASE RenewItem(p, i)
        BY <1>1, <2>0, <3>2 DEF RenewItem, WorkOn, Step, Idle
      <3>3. CASE MailItem(p, i)
        <4>1. Skip(p, i) \/ \E lim : WorkOn(p, i, [Idle EXCEPT !.pc = "ml_sign", !.l = i.l, !.s = i.s, !.lim = lim])
          BY <3>3 DEF MailItem
        <4>2. CASE Skip(p, i)
          BY <1>1, <4>2
        <4>3. ASSUME NEW lim, WorkOn(p, i, [Idle EXCEPT !.pc = "ml_sign", !.l = i.l, !.s = i.s, !.lim = lim])
              PROVE  Kept(p)
          BY <2>0, <4>3 DEF WorkOn, Step, Idle
        <4> QED
          BY <4>1, <4>2, <4>3
      <3> QED
        BY <2>7, <3>1, <3>2, <3>3
    <2>8. ASSUME NEW i \in proc[p].todo, ReconcileVoid(p, i) \/ ItemFails(p, i) PROVE Kept(p)
      BY <1>1, <2>8 DEF ReconcileVoid, ItemFails
    <2>9. CASE \/ ApproveCommit(p) \/ FreeCommit(p) \/ SettleLicence(p) \/ RenewClear(p) \/ RenewFreeNext(p)
               \/ GetLicenseSign(p)
      BY <1>2, <2>9 DEF ApproveCommit, FreeCommit, SettleLicence, RenewClear, RenewFreeNext, GetLicenseSign
    <2>10. CASE SettleClaim(p) \/ SettleSign(p)
      BY <1>2, <2>0, <2>10 DEF SettleClaim, SettleSign, Step, Local
    <2>11. CASE RenewRow(p) \/ RenewFreeRow(p) \/ GetLicenseLimit(p) \/ IssueLimit(p)
      BY <1>2, <2>0, <2>11 DEF RenewRow, RenewFreeRow, GetLicenseLimit, IssueLimit, Step, Local
    <2>12. CASE CallFails(p)
      BY <1>2, <2>0, <2>12 DEF CallFails, Step
    <2> QED
      BY <1>3, <2>1, <2>2, <2>3, <2>4, <2>5, <2>6, <2>7, <2>8, <2>9, <2>10, <2>11, <2>12 DEF HandlerStep
  <1> QED
    BY <1>3, HandlerMoves, OutsideMoves

\* The operation a handler starts with; a sweep that finds nothing to do is idle again.
LEMMA Starters ==
  ASSUME TypeOK, NEW p \in Procs, HandlerStart(p)
  PROVE  \/ proc'[p].op \notin {"renew", "reconcile", "panelcheck"}
         \/ proc'[p].op = "renew" /\ RenewOnce(p)
         \/ \E op \in {"reconcile", "panelcheck"} : proc'[p].op = op /\ Reconcile(p, op)
  <1> DEFINE Other == proc'[p].op \notin {"renew", "reconcile", "panelcheck"}
  <1>0. proc \in [Procs -> Local]
    BY DEF TypeOK
  <1>1. ASSUME NEW s \in Subs, ApproveRequest(p, s) PROVE Other
    BY <1>0, <1>1 DEF ApproveRequest, Step, Idle
  <1>2. ASSUME NEW s \in Subs, ConvertToPaid(p, s) PROVE Other
    BY <1>0, <1>2 DEF ConvertToPaid, Step, Idle
  <1>3. ASSUME NEW s \in Subs, NEW org \in Orgs, IssueSeat(p, s, org) PROVE Other
    BY <1>0, <1>3 DEF IssueSeat, Step, Idle
  <1>4. ASSUME NEW v \in Vouchers, Webhook(p, v) PROVE Other
    BY <1>0, <1>4 DEF Webhook, Step, Idle
  <1>5. ASSUME NEW v \in Vouchers, SendReminder(p, v) PROVE Other
    BY <1>0, <1>5 DEF SendReminder, Step, Idle
  <1>6. ASSUME NEW l \in Lics, GetLicense(p, l) PROVE Other
    BY <1>0, <1>6 DEF GetLicense, Step, Idle
  <1>7. ASSUME PollOnce(p) \/ MailExpiringOnce(p) PROVE Other
    <2>1. \E todo : \E op \in {"poll", "mail"} : Step(p, Begin(op, todo))
      BY <1>7 DEF PollOnce, MailExpiringOnce
    <2> QED
      BY <1>0, <2>1 DEF Step, Begin, Idle
  <1>8. ASSUME RenewOnce(p) PROVE proc'[p].op \in {"none", "renew"}
    BY <1>0, <1>8 DEF RenewOnce, Step, Begin, Idle
  <1>9. ASSUME NEW op \in {"reconcile", "panelcheck"}, Reconcile(p, op) PROVE proc'[p].op = op
    BY <1>0, <1>9 DEF Reconcile, Step, Idle
  <1> QED
    BY <1>1, <1>2, <1>3, <1>4, <1>5, <1>6, <1>7, <1>8, <1>9 DEF HandlerStart

\* Only a reconciliation compares its rows with Lexware's.
OpsFit == \A p \in Procs : proc[p].pc = "rc_rows" => proc[p].op \in {"reconcile", "panelcheck"}
\* And it stays that way.
LEMMA OpsFitStep ==
  ASSUME TypeOK, OpsFit, [Next]_vars
  PROVE  OpsFit'
  <1> SUFFICES ASSUME NEW p \in Procs, proc'[p].pc = "rc_rows"
               PROVE  proc'[p].op \in {"reconcile", "panelcheck"}
    BY DEF OpsFit
  <1>1. CASE proc'[p] = proc[p]
    BY <1>1 DEF OpsFit
  <1>2. ASSUME NEW op \in {"reconcile", "panelcheck"}, Reconcile(p, op)
        PROVE  proc'[p].op \in {"reconcile", "panelcheck"}
    BY <1>2 DEF TypeOK, Reconcile, Step, Idle
  <1> QED
    BY <1>1, <1>2, Arrivals DEF Arrives, Resting

-----------------------------------------------------------------------------
(* Who is invoiced.                                                        *)

\* A subscription somebody pays for: requested, and not (or no longer) free.
Billed(s, S) == S[s].status # "none" /\ ~S[s].free

\* Steps at which a handler raises or records a Lexware invoice of its subscription.
Invoicing == {"ap_invoice", "rn_invoice", "ap_row", "ap_key", "ap_tx", "rn_row"}
\* What a handler's record h relies on, in the table S of subscriptions: it read the free
\* flag some steps ago, and a sweep read it for its whole list.
MayBill(h, S) ==
    /\ h.pc \in Invoicing => Billed(h.s, S)
    /\ h.pc = "cv_flip" => S[h.s].status # "none"
    /\ h.op = "renew" => \A i \in h.todo : i.free \/ Billed(i.s, S)

BilledInv ==
    /\ \A v \in Vouchers : voucher[v].st # "none" => Billed(voucher[v].s, sub)
    /\ \A r \in rows : r.v \in Vouchers => Billed(r.s, sub)
    /\ \A p \in Procs : MayBill(proc[p], sub)

\* A request stays one, and a subscription that is paid for never becomes a free one.
LEMMA SubsAdvance ==
  ASSUME TypeOK, [Next]_vars, NEW s \in Subs
  PROVE  /\ sub[s].status # "none" => sub'[s].status # "none"
         /\ Billed(s, sub) => Billed(s, sub')
  <1> DEFINE Goal == /\ sub[s].status # "none" => sub'[s].status # "none"
                     /\ Billed(s, sub) => Billed(s, sub')
  <1>0. sub \in [Subs -> SubRow] /\ \A t \in Subs : sub[t] \in SubRow
    BY DEF TypeOK
  <1>1. ASSUME NEW t \in Subs, RequestQuote(t) \/ Cancel(t) PROVE Goal
    BY <1>0, <1>1 DEF RequestQuote, Cancel, Billed, SubRow
  <1>2. ASSUME NEW t \in Subs, NEW free \in BOOLEAN, CreateSubscription(t, free) PROVE Goal
    BY <1>0, <1>2 DEF CreateSubscription, Billed, SubRow
  <1>3. ASSUME NEW p \in Procs, ApproveCommit(p) \/ RenewClear(p) \/ RenewFreeNext(p) PROVE Goal
    BY <1>0, <1>3 DEF ApproveCommit, RenewClear, RenewFreeNext, Billed, SubRow
  <1>4. ASSUME NEW p \in Procs, FreeCommit(p) PROVE Goal
    BY <1>0, <1>4 DEF FreeCommit, Billed, SubRow
  <1>5. ASSUME NEW p \in Procs, NEW stored \in BOOLEAN, SettleRequest(p, stored) PROVE Goal
    BY <1>0, <1>5 DEF SettleRequest, Advanced, Billed, SubRow
  <1>6. ASSUME NEW p \in Procs, NEW invoiceNow \in BOOLEAN, ConvertFlip(p, invoiceNow) PROVE Goal
    BY <1>0, <1>6 DEF ConvertFlip, Billed, SubRow
  <1>7. CASE UNCHANGED sub
    BY <1>7
  <1> QED
    BY <1>1, <1>2, <1>3, <1>4, <1>5, <1>6, <1>7, TableWriters DEF SubWritten

\* Types of what a handler carries.
LEMMA LocalFields ==
  ASSUME TypeOK, NEW p \in Procs
  PROVE  /\ proc \in [Procs -> Local] /\ proc[p] \in Local
         /\ proc[p].s \in Subs /\ proc[p].v \in Vouchers \cup {NoVoucher}
         /\ proc[p].end \in Nat /\ proc[p].lim \in Nat /\ proc[p].org \in Orgs
         /\ \A i \in proc[p].todo : i.s \in Subs /\ i.v \in Vouchers \cup {NoVoucher} /\ i.date \in Nat
  BY DEF TypeOK, Local, Item

\* Nobody who is not billed reaches a step that bills.
LEMMA MayBillStep ==
  ASSUME TypeOK, OpsFit, BilledInv, [Next]_vars, NEW p \in Procs
  PROVE  MayBill(proc'[p], sub')
  <1> DEFINE h == proc'[p]
  <1>0. /\ proc \in [Procs -> Local] /\ proc[p] \in Local /\ MayBill(proc[p], sub)
        /\ proc[p].s \in Subs /\ \A i \in proc[p].todo : i.s \in Subs
    BY LocalFields DEF BilledInv
  <1>1. MayBill(proc[p], sub')
    BY <1>0, SubsAdvance DEF MayBill
  <1>2. h.pc \in Invoicing \/ h.pc = "cv_flip" =>
           (h.pc \in Invoicing => Billed(h.s, sub')) /\ (h.pc = "cv_flip" => sub'[h.s].status # "none")
    <2> SUFFICES ASSUME h.pc \in Invoicing \/ h.pc = "cv_flip"
                 PROVE  (h.pc \in Invoicing => Billed(h.s, sub')) /\ (h.pc = "cv_flip" => sub'[h.s].status # "none")
      OBVIOUS
    <2>1. CASE h = proc[p]
      BY <1>1, <2>1 DEF MayBill
    <2>2. ASSUME NEW s \in Subs, ApproveRequest(p, s), h.pc = "ap_invoice" PROVE Billed(h.s, sub')
      <3>1. h.s = s /\ Billed(s, sub)
        BY <1>0, <2>2 DEF ApproveRequest, Step, Idle, Billed
      <3> QED
        BY <3>1, SubsAdvance
    <2>3. ASSUME NEW s \in Subs, ConvertToPaid(p, s) PROVE sub'[h.s].status # "none"
      <3>1. h.s = s /\ sub[s].status # "none"
        BY <1>0, <2>3 DEF ConvertToPaid, Live, Step, Idle
      <3> QED
        BY <3>1, SubsAdvance
    <2>4. ASSUME NEW i \in proc[p].todo, RenewItem(p, i), h.pc = "rn_invoice" PROVE Billed(h.s, sub')
      <3>1. h.s = i.s /\ ~i.free /\ proc[p].op = "renew"
        BY <1>0, <2>4 DEF RenewItem, RenewsBy, Loops, WorkOn, Step, Idle
      <3> QED
        BY <1>1, <3>1 DEF MayBill
    <2>5. ASSUME NEW invoiceNow \in BOOLEAN, ConvertFlip(p, invoiceNow), h.pc = "rn_invoice" PROVE Billed(h.s, sub')
      <3>1. At(p, "cv_flip")
        BY <2>5 DEF ConvertFlip
      <3>2. sub[proc[p].s].status # "none"
        BY <1>0, <3>1 DEF MayBill, At
      <3>3. h.s = proc[p].s
        <4>1. CASE invoiceNow
          BY <1>0, <2>5, <4>1 DEF ConvertFlip, Step, Local
        <4>2. CASE ~invoiceNow
          BY <2>5, <4>2, DoneRests DEF ConvertFlip, Resting
        <4> QED
          BY <4>1, <4>2
      <3>4. sub' = [sub EXCEPT ![proc[p].s].free = FALSE, ![proc[p].s].contact = TRUE,
                               ![proc[p].s].next = NextInvoiceAt(proc[p].end)]
        BY <2>5 DEF ConvertFlip
      <3> QED
        BY <1>0, <3>2, <3>3, <3>4 DEF Billed, TypeOK, SubRow
    <2>6. ASSUME \/ \E v \in Vouchers : ApproveInvoice(p, v) \/ RenewInvoice(p, v)
                 \/ \E l \in Lics : ApproveRow(p, l)
                 \/ \E stored \in BOOLEAN : ApproveKey(p, stored)
          PROVE  Billed(h.s, sub')
      <3>1. h.s = proc[p].s /\ proc[p].pc \in Invoicing
        <4>1. CASE \E v \in Vouchers : ApproveInvoice(p, v)
          BY <1>0, <4>1 DEF ApproveInvoice, At, Step, Local, Invoicing
        <4>2. CASE \E v \in Vouchers : RenewInvoice(p, v)
          BY <1>0, <4>2 DEF RenewInvoice, At, Step, Local, Invoicing
        <4>3. CASE \E l \in Lics : ApproveRow(p, l)
          BY <1>0, <4>3 DEF ApproveRow, At, Step, Local, Invoicing
        <4>4. CASE \E stored \in BOOLEAN : ApproveKey(p, stored)
          BY <1>0, <4>4 DEF ApproveKey, At, Step, Local, Invoicing
        <4> QED
          BY <2>6, <4>1, <4>2, <4>3, <4>4
      <3> QED
        BY <1>1, <3>1 DEF MayBill
    <2>7. h.pc \notin Resting
      BY DEF Resting, Invoicing
    <2> QED
      BY <2>1, <2>2, <2>3, <2>4, <2>5, <2>6, <2>7, Arrivals DEF Arrives, Invoicing
  <1>3. h.op = "renew" => \A i \in h.todo : i.free \/ Billed(i.s, sub')
    <2> SUFFICES ASSUME h.op = "renew" PROVE \A i \in h.todo : i.free \/ Billed(i.s, sub')
      OBVIOUS
    <2>1. CASE h.op = proc[p].op /\ h.todo \subseteq proc[p].todo
      BY <1>1, <2>1 DEF MayBill
    <2>2. CASE h = Idle
      BY <2>2 DEF Idle
    <2>3. CASE HandlerStart(p)
      <3>1. RenewOnce(p)
        BY <2>3, Starters
      <3>2. \A i \in h.todo : \E s \in Subs : Due(s) /\ i.s = s /\ i.free = sub[s].free
        <4> DEFINE todo == UNION {{[AnyItem EXCEPT !.s = s, !.free = sub[s].free, !.date = r.end] :
                   r \in {q \in RowsOf(s) : IsLatest(q, RowsOf(s))}} : s \in {t \in Subs : Due(t)}}
        <4>1. h.todo = {} \/ h.todo = todo
          BY <1>0, <3>1 DEF RenewOnce, Step, Begin, Idle
        <4>2. \A i \in todo : \E s \in Subs : \E end : Due(s) /\ i = [AnyItem EXCEPT !.s = s, !.free = sub[s].free, !.date = end]
          <5> SUFFICES ASSUME NEW i \in todo
                       PROVE  \E s \in Subs : \E end : Due(s) /\ i = [AnyItem EXCEPT !.s = s, !.free = sub[s].free, !.date = end]
            OBVIOUS
          <5>1. PICK s \in {t \in Subs : Due(t)} :
                   i \in {[AnyItem EXCEPT !.s = s, !.free = sub[s].free, !.date = r.end] :
                           r \in {q \in RowsOf(s) : IsLatest(q, RowsOf(s))}}
            OBVIOUS
          <5> QED
            BY <5>1
        <4> HIDE DEF todo
        <4>3. \A i \in todo : \E s \in Subs : Due(s) /\ i.s = s /\ i.free = sub[s].free
          BY <4>2 DEF AnyItem
        <4> QED
          BY <4>1, <4>3
      <3>3. \A s \in Subs : Due(s) => sub[s].status # "none"
        BY DEF Due, Live
      <3> QED
        BY <3>2, <3>3, SubsAdvance DEF Billed
    <2>4. CASE ReconcileRows(p)
      <3>1. proc[p].pc = "rc_rows" /\ h.op \in {"none", proc[p].op}
        BY <1>0, <2>4 DEF ReconcileRows, At, Step, Begin, Idle
      <3> QED
        BY <3>1 DEF OpsFit
    <2> QED
      BY <2>1, <2>2, <2>3, <2>4, Agenda
  <1> QED
    BY <1>2, <1>3 DEF MayBill

\* With nothing raised, nobody is billed.
LEMMA InitBilled == Init => OpsFit /\ BilledInv
  <1> SUFFICES ASSUME Init PROVE OpsFit /\ BilledInv
    OBVIOUS
  <1>1. /\ \A p \in Procs : proc[p].pc = "idle" /\ proc[p].op = "none"
        /\ rows = {} /\ \A v \in Vouchers : voucher[v].st = "none"
    BY DEF Init, Idle
  <1> QED
    BY <1>1 DEF OpsFit, BilledInv, MayBill, Invoicing

\* Every voucher and every row of an invoice stays with a subscription that is billed.
LEMMA BilledStep ==
  ASSUME TypeOK, OpsFit, BilledInv, [Next]_vars
  PROVE  OpsFit' /\ BilledInv'
  <1>0. /\ proc \in [Procs -> Local] /\ voucher \in [Vouchers -> Voucher]
        /\ \A p \in Procs : proc[p].s \in Subs
        /\ \A v \in Vouchers : voucher[v].s \in Subs
        /\ \A r \in rows : r.s \in Subs /\ r \in InvRow
    BY LocalFields DEF TypeOK, Voucher, InvRow
  <1>1. ASSUME NEW v \in Vouchers, voucher'[v].st # "none" PROVE Billed(voucher'[v].s, sub')
    <2>1. CASE voucher'[v].s = voucher[v].s /\ voucher[v].st # "none"
      BY <1>0, <2>1, SubsAdvance DEF BilledInv
    <2>2. ASSUME NEW p \in Procs, NEW w \in Vouchers, ApproveInvoice(p, w) \/ RenewInvoice(p, w)
          PROVE  Billed(voucher'[v].s, sub')
      <3>1. proc[p].pc \in Invoicing /\ CreateInvoice(p, w)
        BY <2>2 DEF ApproveInvoice, RenewInvoice, At, Invoicing
      <3>2. Billed(proc[p].s, sub)
        BY <3>1 DEF BilledInv, MayBill
      <3>3. voucher'[v] = voucher[v] \/ voucher'[v].s = proc[p].s
        BY <1>0, <3>1 DEF CreateInvoice
      <3> QED
        BY <1>0, <1>1, <2>1, <3>2, <3>3, SubsAdvance
    <2>3. ASSUME NEW w \in Vouchers, CustomerPays(w) \/ Storno(w) PROVE Billed(voucher'[v].s, sub')
      <3>1. voucher[w].st # "none"
        BY <2>3 DEF CustomerPays, Storno
      <3>2. voucher'[v].s = voucher[v].s /\ voucher[v].st # "none"
        BY <1>0, <1>1, <2>3, <3>1 DEF CustomerPays, Storno, Voucher
      <3> QED
        BY <2>1, <3>2
    <2>4. CASE UNCHANGED voucher
      BY <1>1, <2>1, <2>4
    <2> QED
      BY <2>2, <2>3, <2>4, TableWriters DEF VoucherWritten
  <1>2. ASSUME NEW r \in rows', r.v \in Vouchers PROVE Billed(r.s, sub')
    <2>1. ASSUME NEW q \in rows, r.s = q.s, r.v = q.v PROVE Billed(r.s, sub')
      BY <1>0, <1>2, <2>1, SubsAdvance DEF BilledInv
    <2>2. ASSUME NEW p \in Procs, ApproveCommit(p) \/ RenewRow(p) PROVE Billed(r.s, sub')
      <3>1. proc[p].pc \in Invoicing
        BY <2>2 DEF ApproveCommit, RenewRow, At, Invoicing
      <3>2. Billed(proc[p].s, sub)
        BY <3>1 DEF BilledInv, MayBill
      <3>3. r \in rows \/ r.s = proc[p].s
        BY <2>2 DEF ApproveCommit, RenewRow
      <3> QED
        BY <1>0, <2>1, <3>2, <3>3, SubsAdvance
    <2>3. ASSUME NEW p \in Procs, FreeCommit(p) \/ RenewFreeRow(p) PROVE Billed(r.s, sub')
      <3>1. r \in rows \/ r.v = NoVoucher
        BY <2>3 DEF FreeCommit, RenewFreeRow, FreePeriod
      <3> QED
        BY <1>2, <2>1, <3>1, BoundsAssumption
    <2>4. ASSUME NEW p \in Procs, SettleClaim(p) PROVE Billed(r.s, sub')
      <3>1. PICK q \in rows : r = q \/ r = [q EXCEPT !.status = "paid"]
        BY <2>4 DEF SettleClaim
      <3>2. r.s = q.s /\ r.v = q.v
        BY <1>0, <3>1 DEF InvRow
      <3> QED
        BY <2>1, <3>2
    <2>5. ASSUME NEW p \in Procs, NEW i \in proc[p].todo, ReconcileVoid(p, i) PROVE Billed(r.s, sub')
      <3>1. PICK q \in rows : r = q \/ r = [q EXCEPT !.status = "voided"]
        BY <2>5 DEF ReconcileVoid, Voided
      <3>2. r.s = q.s /\ r.v = q.v
        BY <1>0, <3>1 DEF InvRow
      <3> QED
        BY <2>1, <3>2
    <2>6. ASSUME NEW p \in Procs, NEW stored \in BOOLEAN, RemindSend(p, stored) PROVE Billed(r.s, sub')
      <3>1. PICK q \in rows : r = q \/ r = [q EXCEPT !.reminded = now]
        BY <2>6 DEF RemindSend
      <3>2. r.s = q.s /\ r.v = q.v
        BY <1>0, <3>1 DEF InvRow
      <3> QED
        BY <2>1, <3>2
    <2>7. CASE UNCHANGED rows
      BY <2>1, <2>7
    <2> QED
      BY <2>2, <2>3, <2>4, <2>5, <2>6, <2>7, TableWriters DEF RowsWritten
  <1> QED
    BY <1>1, <1>2, MayBillStep, OpsFitStep DEF BilledInv

\* free.go: as long as a subscription is free no Lexware invoice exists for it, however
\* conversions, approvals and the renewal sweep, which decides from a list it read
\* earlier, interleave.
THEOREM FreeLicencesAreNeverInvoiced == Spec => []FreeNeverInvoiced
  <1>1. TypeOK /\ OpsFit /\ BilledInv /\ [Next]_vars => (TypeOK /\ OpsFit /\ BilledInv)'
    BY TypeStep, BilledStep
  <1>2. BilledInv => FreeNeverInvoiced
    BY DEF BilledInv, Billed, FreeNeverInvoiced
  <1>3. Init => TypeOK /\ OpsFit /\ BilledInv
    BY InitType, InitBilled
  <1> QED
    BY <1>1, <1>2, <1>3, PTL DEF Spec

-----------------------------------------------------------------------------
(* What the reconciliation reports.                                        *)

\* The background loop is one goroutine.
OneReconciler == \A p, q \in Procs : proc[p].op = "reconcile" /\ proc[q].op = "reconcile" => p = q

Flagged(v) == [AnyItem EXCEPT !.v = v, !.free = TRUE]
\* An invoice is reported as voided with a key out only if it is voided in Lexware, for good,
\* so that a reconciliation that asked Lexware since has it in its list, flagged as voided.
ReportTrue ==
    \A d \in report : d.kind = "storniert-mit-key" =>
       /\ d.v \in Vouchers /\ voucher[d.v].st = "voided"
       /\ \A p \in Procs : proc[p].pc = "rc_rows" /\ proc[p].op = "reconcile" => Flagged(d.v) \in proc[p].todo
AnswersTrue ==
    \A p \in Procs : proc[p].pc = "rc_rows" =>
       \A i \in proc[p].todo : i.free => i.v \in Vouchers /\ voucher[i.v].st = "voided"
ReportInv == OneReconciler /\ ReportTrue /\ AnswersTrue

\* Before anything was reported.
LEMMA InitReport == Init => ReportInv
  <1> SUFFICES ASSUME Init PROVE ReportInv
    OBVIOUS
  <1>1. report = {} /\ \A p \in Procs : proc[p].pc = "idle" /\ proc[p].op = "none"
    BY DEF Init, Idle
  <1> QED
    BY <1>1 DEF ReportInv, OneReconciler, ReportTrue, AnswersTrue

\* A handler becomes the reconciler only by starting as one.
LEMMA BecomesReconciler ==
  ASSUME TypeOK, OpsFit, [Next]_vars, NEW p \in Procs, proc'[p].op = "reconcile"
  PROVE  proc[p].op = "reconcile" \/ Reconcile(p, "reconcile")
  <1>0. proc \in [Procs -> Local]
    BY DEF TypeOK
  <1>1. CASE proc'[p] = Idle
    BY <1>1 DEF Idle
  <1>2. CASE HandlerStart(p)
    BY <1>2, Starters
  <1>3. CASE ReconcileRows(p)
    BY <1>0, <1>3 DEF ReconcileRows, Step, Begin, Idle
  <1> QED
    BY <1>1, <1>2, <1>3, Agenda

\* It never runs twice at the same time.
LEMMA OneReconcilerStep ==
  ASSUME TypeOK, OpsFit, OneReconciler, [Next]_vars
  PROVE  OneReconciler'
  <1> SUFFICES ASSUME NEW p \in Procs, NEW q \in Procs, proc'[p].op = "reconcile", proc'[q].op = "reconcile",
                      p # q
               PROVE  FALSE
    BY DEF OneReconciler
  <1>0. proc \in [Procs -> Local]
    BY DEF TypeOK
  <1>1. ASSUME NEW a \in Procs, NEW b \in Procs, a # b, Reconcile(a, "reconcile")
        PROVE  proc'[b].op # "reconcile"
    <2>1. proc'[b] = proc[b] /\ proc[b].op # "reconcile"
      BY <1>0, <1>1 DEF Reconcile, Sweeps, Step
    <2> QED
      BY <2>1
  <1> QED
    BY <1>1, BecomesReconciler DEF OneReconciler

\* What is voided in Lexware stays voided.
LEMMA VoidedStays ==
  ASSUME TypeOK, [Next]_vars, NEW v \in Vouchers, voucher[v].st = "voided"
  PROVE  voucher'[v].st = "voided"
  <1>0. voucher \in [Vouchers -> Voucher]
    BY DEF TypeOK
  <1>1. ASSUME NEW p \in Procs, NEW w \in Vouchers, ApproveInvoice(p, w) \/ RenewInvoice(p, w)
        PROVE  voucher'[v] = voucher[v]
    BY <1>0, <1>1 DEF ApproveInvoice, RenewInvoice, CreateInvoice
  <1>2. ASSUME NEW w \in Vouchers, CustomerPays(w) PROVE voucher'[v] = voucher[v]
    BY <1>0, <1>2 DEF CustomerPays
  <1>3. ASSUME NEW w \in Vouchers, Storno(w) PROVE voucher'[v] = voucher[v]
    BY <1>0, <1>3 DEF Storno
  <1> QED
    BY <1>1, <1>2, <1>3, TableWriters DEF VoucherWritten

\* What Lexware answered about a voided invoice stays true while the answer is compared.
LEMMA AnswersStep ==
  ASSUME TypeOK, AnswersTrue, [Next]_vars
  PROVE  AnswersTrue'
  <1> SUFFICES ASSUME NEW p \in Procs, proc'[p].pc = "rc_rows", NEW i \in proc'[p].todo, i.free
               PROVE  i.v \in Vouchers /\ voucher'[i.v].st = "voided"
    BY DEF AnswersTrue
  <1>0. proc \in [Procs -> Local]
    BY DEF TypeOK
  <1>1. CASE proc'[p] = proc[p]
    BY <1>1, VoidedStays DEF AnswersTrue
  <1>2. ASSUME NEW op, Reconcile(p, op) PROVE i.v \in Vouchers /\ voucher'[i.v].st = "voided"
    <2>1. proc'[p].todo = {[AnyItem EXCEPT !.v = v, !.free = (voucher[v].st = "voided")] :
                           v \in {w \in Vouchers : voucher[w].st # "none"}}
      BY <1>0, <1>2 DEF Reconcile, Step, Idle
    <2>2. i.v \in Vouchers /\ voucher[i.v].st = "voided"
      BY <2>1 DEF AnyItem
    <2> QED
      BY <2>2, VoidedStays
  <1> QED
    BY <1>1, <1>2, Arrivals DEF Arrives, Resting

\* A reconciliation that starts asks about every voucher there is.
LEMMA AsksAll ==
  ASSUME TypeOK, NEW p \in Procs, NEW op, Reconcile(p, op), NEW v \in Vouchers, voucher[v].st = "voided"
  PROVE  Flagged(v) \in proc'[p].todo
  <1>1. proc'[p].todo = {[AnyItem EXCEPT !.v = w, !.free = (voucher[w].st = "voided")] :
                         w \in {x \in Vouchers : voucher[x].st # "none"}}
    BY DEF TypeOK, Reconcile, Step, Idle
  <1>2. [AnyItem EXCEPT !.v = v, !.free = (voucher[v].st = "voided")] \in proc'[p].todo
    BY <1>1
  <1>3. (voucher[v].st = "voided") = TRUE
    OBVIOUS
  <1> QED
    BY <1>2, <1>3 DEF Flagged

\* The comparison reports only what Lexware said is voided.
LEMMA ReportStep ==
  ASSUME TypeOK, OpsFit, ReportInv, [Next]_vars
  PROVE  ReportInv'
  <1>0. proc \in [Procs -> Local]
    BY DEF TypeOK
  <1>1. ASSUME NEW d \in report', d.kind = "storniert-mit-key",
               d.v \in Vouchers, voucher[d.v].st = "voided",
               NEW p \in Procs, proc'[p].pc = "rc_rows", proc'[p].op = "reconcile",
               proc'[p] # proc[p]
        PROVE  Flagged(d.v) \in proc'[p].todo
    BY <1>1, AsksAll, Arrivals DEF Arrives, Resting
  <1>2. CASE UNCHANGED report
    <2> SUFFICES ASSUME NEW d \in report, d.kind = "storniert-mit-key"
                 PROVE  /\ d.v \in Vouchers /\ voucher'[d.v].st = "voided"
                        /\ \A p \in Procs : proc'[p].pc = "rc_rows" /\ proc'[p].op = "reconcile"
                                            => Flagged(d.v) \in proc'[p].todo
      BY <1>2, OneReconcilerStep, AnswersStep DEF ReportInv, ReportTrue, Flagged, AnyItem
    <2> QED
      BY <1>1, <1>2, VoidedStays DEF ReportInv, ReportTrue
  <1>3. ASSUME NEW q \in Procs, ReconcileRows(q), report' # report PROVE ReportInv'
    <2>1. proc[q].pc = "rc_rows" /\ proc[q].op = "reconcile" /\ proc'[q].pc \in Resting
      <3>1. proc[q].pc = "rc_rows" /\ proc[q].op # "panelcheck"
        BY <1>3 DEF ReconcileRows, At
      <3>2. \E op, todo : Step(q, Begin(op, todo))
        BY <1>3 DEF ReconcileRows
      <3> QED
        BY <3>1, <3>2, BeginRests DEF OpsFit
    <2>2. ASSUME NEW d \in report', d.kind = "storniert-mit-key"
          PROVE  \E i \in proc[q].todo : i.free /\ i.v = d.v
      <3> DEFINE Report(kind, R) == {[kind |-> kind, v |-> r.v] : r \in R}
      <3>1. PICK A, B, C : report' = Report("nur-in-vakt", A)
               \cup Report("storniert-mit-key",
                      {r \in {x \in rows : ~sub[x.s].free} :
                         r.v \in {i.v : i \in {j \in proc[q].todo : j.free}} /\ Severe(r)})
               \cup Report("storniert", B)
               \cup {[kind |-> "nur-in-lexware", v |-> v] : v \in C}
        BY <1>3, <2>1 DEF ReconcileRows
      <3>2. d \in Report("storniert-mit-key",
                    {r \in {x \in rows : ~sub[x.s].free} :
                       r.v \in {i.v : i \in {j \in proc[q].todo : j.free}} /\ Severe(r)})
        BY <2>2, <3>1
      <3> QED
        BY <3>2
    <2>3. ASSUME NEW p \in Procs, proc'[p].pc = "rc_rows", proc'[p].op = "reconcile" PROVE FALSE
      <3>1. p # q
        BY <2>1, <2>3 DEF Resting
      <3>2. proc[p].op = "reconcile"
        <4>1. \E op, todo : Step(q, Begin(op, todo))
          BY <1>3 DEF ReconcileRows
        <4> QED
          BY <2>3, <3>1, <4>1, BeginRests
      <3> QED
        BY <2>1, <3>1, <3>2 DEF ReportInv, OneReconciler
    <2>4. ReportTrue'
      BY <2>1, <2>2, <2>3, VoidedStays DEF ReportTrue, ReportInv, AnswersTrue
    <2> QED
      BY <2>4, OneReconcilerStep, AnswersStep DEF ReportInv
  <1> QED
    BY <1>2, <1>3, TableWriters DEF ReportWritten

\* A new report still holds every old finding nobody acted on.
LEMMA DriftStays ==
  ASSUME TypeOK, OpsFit, BilledInv, ReportInv, [Next]_vars, report' # report,
         NEW r \in rows, [kind |-> "storniert-mit-key", v |-> r.v] \in report, ValidKey(r.s), ~Covered(r)
  PROVE  [kind |-> "storniert-mit-key", v |-> r.v] \in report'
  <1>1. PICK q \in Procs : ReconcileRows(q)
    BY TableWriters DEF ReportWritten
  <1>2. proc[q].pc = "rc_rows" /\ proc[q].op = "reconcile"
    BY <1>1 DEF ReconcileRows, At, OpsFit
  <1>3. r.v \in Vouchers /\ Flagged(r.v) \in proc[q].todo
    BY <1>2 DEF ReportInv, ReportTrue
  <1>4. ~sub[r.s].free
    BY <1>3 DEF BilledInv, Billed
  <1>5. r.v \in {i.v : i \in {j \in proc[q].todo : j.free}}
    <2>1. Flagged(r.v).free = TRUE /\ Flagged(r.v).v = r.v
      BY DEF Flagged, AnyItem
    <2>2. PICK i : i = Flagged(r.v)
      OBVIOUS
    <2>3. i \in {j \in proc[q].todo : j.free} /\ r.v = i.v
      BY <1>3, <2>1, <2>2
    <2> QED
      BY <2>3
  <1>6. [kind |-> "storniert-mit-key", v |-> r.v] \in
           {[kind |-> "storniert-mit-key", v |-> x.v] :
              x \in {y \in {z \in rows : ~sub[z.s].free} :
                       y.v \in {i.v : i \in {j \in proc[q].todo : j.free}} /\ Severe(y)}}
    BY <1>4, <1>5 DEF Severe
  <1> QED
    BY <1>1, <1>2, <1>6 DEF ReconcileRows

\* Reconcile: a storno for an invoice whose key is already with the customer stays reported
\* until the key is revoked or runs out or another paid invoice covers the period, whatever
\* was voided, paid or converted while a reconciliation was under way.
THEOREM SevereDriftsStayReported == Spec => SevereDriftPersists
  <1>1. /\ TypeOK /\ OpsFit /\ BilledInv /\ ReportInv /\ [Next]_vars
        => (TypeOK /\ OpsFit /\ BilledInv /\ ReportInv)'
    BY TypeStep, BilledStep, ReportStep
  <1>2. TypeOK /\ OpsFit /\ BilledInv /\ ReportInv /\ [Next]_vars =>
           [report' # report =>
              \A r \in rows :
                 (/\ [kind |-> "storniert-mit-key", v |-> r.v] \in report
                  /\ ValidKey(r.s) /\ ~Covered(r))
                 => [kind |-> "storniert-mit-key", v |-> r.v] \in report']_vars
    BY DriftStays
  <1>3. Init => TypeOK /\ OpsFit /\ BilledInv /\ ReportInv
    BY InitType, InitBilled, InitReport
  <1> QED
    BY <1>1, <1>2, <1>3, PTL DEF Spec, SevereDriftPersists

-----------------------------------------------------------------------------
(* How many seats are taken.                                               *)

\* A licence row of the subscriber's own organisation which no handler may still drop.
Anchored(s) ==
    \E l \in Lics : /\ Exists(l) /\ lic[l].s = s /\ lic[l].org = Company
                    /\ \A p \in Procs : At(p, "is_key") => proc[p].l # l

\* Steps a handler reaches only for a subscription whose approval has inserted that row.
AfterApproval == {"ap_key", "ap_tx", "fr_tx", "st_sign", "st_req", "rn_invoice", "rn_row", "rn_clear",
                  "rf_row", "cv_flip", "is_limit", "is_row", "is_key"}
\* Anything that shows that an approval of s got as far as that.
Underway(s) ==
    \/ \E r \in rows : r.s = s
    \/ sub[s].status \in {"approved", "paid"}
    \/ \E l \in Lics : lic[l].kind # "none" /\ lic[l].s = s
    \/ \E p \in Procs : proc[p].s = s /\ proc[p].pc \in AfterApproval
    \/ \E p \in Procs : proc[p].op = "renew" /\ \E i \in proc[p].todo : i.s = s

\* Settle keeps the subscriber's own row, a seat request the row it inserted.
HoldsRow(h, L) ==
    /\ h.pc \in {"st_req", "st_lic", "is_key"} => h.l \in Lics /\ L[h.l].kind # "none"
    /\ h.pc \in {"st_req", "st_lic"} => L[h.l].org = Company /\ L[h.l].s = h.s

AnchorInv ==
    /\ \A s \in Subs : Underway(s) => Anchored(s)
    /\ \A p \in Procs : HoldsRow(proc[p], lic)

\* Nothing is underway at first.
LEMMA InitAnchor == Init => AnchorInv
  <1> SUFFICES ASSUME Init PROVE AnchorInv
    OBVIOUS
  <1>1. rows = {} /\ \A s \in Subs : sub[s].status = "none"
    BY DEF Init
  <1>2. \A l \in Lics : lic[l].kind = "none"
    BY DEF Init
  <1>3. \A p \in Procs : proc[p].pc = "idle" /\ proc[p].op = "none"
    BY DEF Init, Idle
  <1> QED
    BY <1>1, <1>2, <1>3 DEF AnchorInv, Underway, HoldsRow, AfterApproval

\* What a step does to the licence row k: nothing that matters here, or it inserts it, or
\* settle turns its row into a full licence, or a failed seat request drops its own.
SameRow(k) == lic'[k].kind = lic[k].kind /\ lic'[k].s = lic[k].s /\ lic'[k].org = lic[k].org
OwnRow(p, k) ==
    /\ At(p, "ap_row") \/ At(p, "fr_row")
    /\ lic[k].kind = "none" /\ lic'[k].kind \in {"trial", "full"}
    /\ lic'[k].s = proc[p].s /\ lic'[k].org = Company
SeatRow(p, k) ==
    /\ At(p, "is_row") /\ lic[k].kind = "none" /\ lic'[k].kind = "seat"
    /\ lic'[k].s = proc[p].s /\ lic'[k].org = proc[p].org
KeepsRow(p, k, pc, kind) ==
    /\ At(p, pc) /\ proc[p].l = k /\ lic'[k].kind = kind
    /\ lic'[k].s = lic[k].s /\ lic'[k].org = lic[k].org

\* There is nothing else a step does to it.
LEMMA LicRows ==
  ASSUME TypeOK, [Next]_vars, NEW k \in Lics
  PROVE  \/ SameRow(k)
         \/ \E p \in Procs : \/ OwnRow(p, k) \/ SeatRow(p, k)
                             \/ KeepsRow(p, k, "st_lic", "full") \/ KeepsRow(p, k, "is_key", "deleted")
  <1> DEFINE Goal == \/ SameRow(k)
                     \/ \E p \in Procs : \/ OwnRow(p, k) \/ SeatRow(p, k)
                                         \/ KeepsRow(p, k, "st_lic", "full") \/ KeepsRow(p, k, "is_key", "deleted")
  <1>0. lic \in [Lics -> LicRow] /\ lic[k] \in LicRow
    BY DEF TypeOK
  <1>1. CASE UNCHANGED lic
    BY <1>1 DEF SameRow
  <1>2. ASSUME NEW l \in Lics, Revoke(l) PROVE Goal
    BY <1>0, <1>2 DEF Revoke, SameRow, LicRow
  <1>3. ASSUME NEW p \in Procs, NEW l \in Lics, ApproveRow(p, l) \/ FreeRow(p, l) PROVE Goal
    <2>1. SameRow(k) \/ OwnRow(p, k)
      BY <1>0, <1>3 DEF ApproveRow, FreeRow, InsertLicence, FreshLic, SameRow, OwnRow
    <2> QED
      BY <2>1
  <1>4. ASSUME NEW p \in Procs, NEW l \in Lics, IssueRow(p, l) PROVE Goal
    <2>1. SameRow(k) \/ SeatRow(p, k)
      BY <1>0, <1>4 DEF IssueRow, InsertLicence, FreshLic, SameRow, SeatRow
    <2> QED
      BY <2>1
  <1>5. ASSUME NEW p \in Procs, NEW stored \in BOOLEAN, ApproveKey(p, stored) \/ MailSign(p, stored) PROVE Goal
    BY <1>0, <1>5 DEF ApproveKey, MailSign, StoreKey, SameRow, LicRow
  <1>6. ASSUME NEW p \in Procs, NEW outcome, IssueKey(p, outcome) PROVE Goal
    <2>1. SameRow(k) \/ KeepsRow(p, k, "is_key", "deleted")
      BY <1>0, <1>6 DEF IssueKey, SameRow, KeepsRow, LicRow
    <2> QED
      BY <2>1
  <1>7. ASSUME NEW p \in Procs, FreeCommit(p) \/ GetLicenseSign(p) PROVE Goal
    BY <1>0, <1>7 DEF FreeCommit, GetLicenseSign, StoreKey, SameRow, LicRow
  <1>8. ASSUME NEW p \in Procs, SettleLicence(p) PROVE Goal
    <2>1. SameRow(k) \/ KeepsRow(p, k, "st_lic", "full")
      BY <1>0, <1>8 DEF SettleLicence, SameRow, KeepsRow, LicRow
    <2> QED
      BY <2>1
  <1> QED
    BY <1>1, <1>2, <1>3, <1>4, <1>5, <1>6, <1>7, <1>8, TableWriters DEF LicWritten

\* A handler reaches is_key with the row it inserts.
LEMMA ReachesKey ==
  ASSUME TypeOK, [Next]_vars, NEW p \in Procs, proc'[p].pc = "is_key"
  PROVE  proc'[p] = proc[p] \/ (IssueRow(p, proc'[p].l) /\ proc'[p].l \in Lics /\ lic[proc'[p].l].kind = "none")
  <1>1. ASSUME NEW l \in Lics, IssueRow(p, l) PROVE proc'[p].l = l /\ lic[l].kind = "none"
    BY <1>1 DEF IssueRow, InsertLicence, FreshLic, TypeOK, Local, Step
  <1> QED
    BY <1>1, Arrivals DEF Arrives, Resting

\* Once a subscription has such a row it has one for good.
LEMMA AnchoredStays ==
  ASSUME TypeOK, [Next]_vars, NEW s \in Subs, Anchored(s)
  PROVE  Anchored(s)'
  <1>1. PICK l \in Lics : /\ Exists(l) /\ lic[l].s = s /\ lic[l].org = Company
                          /\ \A p \in Procs : At(p, "is_key") => proc[p].l # l
    BY DEF Anchored
  <1>2. lic'[l].kind \notin {"none", "deleted"} /\ lic'[l].s = s /\ lic'[l].org = Company
    BY <1>1, LicRows DEF Exists, SameRow, OwnRow, SeatRow, KeepsRow
  <1>3. ASSUME NEW p \in Procs, proc'[p].pc = "is_key" PROVE proc'[p].l # l
    BY <1>1, <1>3, ReachesKey DEF At, Exists
  <1> QED
    BY <1>2, <1>3 DEF Anchored, Exists, At

\* An approval inserts it.
LEMMA OwnRowAnchors ==
  ASSUME TypeOK, AnchorInv, [Next]_vars, NEW p \in Procs, NEW l \in Lics, OwnRow(p, l),
         NEW s \in Subs, s = proc[p].s
  PROVE  Anchored(s)'
  <1>1. lic'[l].kind \in {"trial", "full"} /\ lic'[l].s = s /\ lic'[l].org = Company /\ lic[l].kind = "none"
    BY DEF OwnRow
  <1>2. ASSUME NEW q \in Procs, proc'[q].pc = "is_key", proc'[q].l = l PROVE FALSE
    <2>1. CASE proc'[q] = proc[q]
      BY <1>1, <1>2, <2>1 DEF AnchorInv, HoldsRow
    <2>2. ASSUME IssueRow(q, l) PROVE FALSE
      BY <1>1, <2>2 DEF TypeOK, IssueRow, InsertLicence
    <2> QED
      BY <1>2, <2>1, <2>2, ReachesKey
  <1> QED
    BY <1>1, <1>2 DEF Anchored, Exists, At

\* A row of billing_invoices is of a subscription that had one, or of the handler that
\* records it.
LEMMA RowsOfWhom ==
  ASSUME TypeOK, [Next]_vars, NEW r \in rows'
  PROVE  \/ \E q \in rows : q.s = r.s
         \/ \E p \in Procs : proc[p].s = r.s /\ proc[p].pc \in {"ap_tx", "fr_tx", "rn_row", "rf_row"}
  <1> DEFINE Goal == \/ \E q \in rows : q.s = r.s
                     \/ \E p \in Procs : proc[p].s = r.s /\ proc[p].pc \in {"ap_tx", "fr_tx", "rn_row", "rf_row"}
  <1>1. ASSUME NEW p \in Procs, ApproveCommit(p) \/ RenewRow(p) PROVE Goal
    BY <1>1 DEF ApproveCommit, RenewRow, At
  <1>2. ASSUME NEW p \in Procs, FreeCommit(p) \/ RenewFreeRow(p) PROVE Goal
    BY <1>2 DEF FreeCommit, RenewFreeRow, FreePeriod, At
  <1>3. ASSUME NEW p \in Procs, SettleClaim(p) PROVE Goal
    BY <1>3 DEF SettleClaim, TypeOK, InvRow
  <1>4. ASSUME NEW p \in Procs, NEW i, ReconcileVoid(p, i) PROVE Goal
    BY <1>4 DEF ReconcileVoid, Voided, TypeOK, InvRow
  <1>5. ASSUME NEW p \in Procs, NEW stored, RemindSend(p, stored) PROVE Goal
    BY <1>5 DEF RemindSend, TypeOK, InvRow
  <1>6. CASE UNCHANGED rows
    BY <1>6
  <1> QED
    BY <1>1, <1>2, <1>3, <1>4, <1>5, <1>6, TableWriters DEF RowsWritten

\* A subscription is approved or paid by a handler that has come that far with it.
LEMMA ApprovedByWhom ==
  ASSUME TypeOK, [Next]_vars, NEW s \in Subs, sub'[s].status \in {"approved", "paid"}
  PROVE  \/ sub[s].status \in {"approved", "paid"}
         \/ \E p \in Procs : proc[p].s = s /\ proc[p].pc \in {"ap_tx", "fr_tx", "st_req"}
  <1> DEFINE Goal == \/ sub[s].status \in {"approved", "paid"}
                     \/ \E p \in Procs : proc[p].s = s /\ proc[p].pc \in {"ap_tx", "fr_tx", "st_req"}
  <1>0. sub \in [Subs -> SubRow] /\ \A t \in Subs : sub[t] \in SubRow
    BY DEF TypeOK
  <1>1. ASSUME NEW t \in Subs, RequestQuote(t) \/ Cancel(t) PROVE Goal
    BY <1>0, <1>1 DEF RequestQuote, Cancel, SubRow
  <1>2. ASSUME NEW t \in Subs, NEW free \in BOOLEAN, CreateSubscription(t, free) PROVE Goal
    BY <1>0, <1>2 DEF CreateSubscription, SubRow
  <1>3. ASSUME NEW p \in Procs, RenewClear(p) \/ RenewFreeNext(p) PROVE Goal
    BY <1>0, <1>3 DEF RenewClear, RenewFreeNext, SubRow
  <1>4. ASSUME NEW p \in Procs, ApproveCommit(p) \/ FreeCommit(p) PROVE Goal
    BY <1>0, <1>4 DEF ApproveCommit, FreeCommit, SubRow, At
  <1>5. ASSUME NEW p \in Procs, NEW stored \in BOOLEAN, SettleRequest(p, stored) PROVE Goal
    BY <1>0, <1>5 DEF SettleRequest, Advanced, SubRow, At
  <1>6. ASSUME NEW p \in Procs, NEW invoiceNow \in BOOLEAN, ConvertFlip(p, invoiceNow) PROVE Goal
    BY <1>0, <1>6 DEF ConvertFlip, SubRow
  <1>7. CASE UNCHANGED sub
    BY <1>7
  <1> QED
    BY <1>1, <1>2, <1>3, <1>4, <1>5, <1>6, <1>7, TableWriters DEF SubWritten

\* A handler gets past the approval with a subscription that is past it already, unless it
\* is the one that approves it.
LEMMA BeyondApproval ==
  ASSUME TypeOK, [Next]_vars, NEW p \in Procs, proc'[p].pc \in AfterApproval
  PROVE  \/ Underway(proc'[p].s)
         \/ \E l \in Lics : OwnRow(p, l) /\ proc'[p].s = proc[p].s
  <1> DEFINE h == proc'[p]
             Goal == Underway(h.s) \/ \E l \in Lics : OwnRow(p, l) /\ h.s = proc[p].s
  <1>0. proc \in [Procs -> Local] /\ proc[p] \in Local /\ lic \in [Lics -> LicRow]
    BY DEF TypeOK
  <1>1. ASSUME h.s = proc[p].s, proc[p].pc \in AfterApproval PROVE Goal
    BY <1>1 DEF Underway
  <1>2. ASSUME NEW l \in Lics, ApproveRow(p, l) \/ FreeRow(p, l) PROVE Goal
    <2>1. h.s = proc[p].s
      BY <1>0, <1>2 DEF ApproveRow, FreeRow, Step, Local
    <2>2. OwnRow(p, l)
      BY <1>0, <1>2 DEF ApproveRow, FreeRow, InsertLicence, FreshLic, OwnRow
    <2> QED
      BY <2>1, <2>2
  <1>3. ASSUME \/ \E stored \in BOOLEAN : ApproveKey(p, stored)
               \/ \E v \in Vouchers : RenewInvoice(p, v)
               \/ SettleSign(p) /\ h.pc = "st_req"
               \/ RenewRow(p)
               \/ IssueLimit(p) /\ h.pc = "is_row"
               \/ \E l \in Lics : IssueRow(p, l)
        PROVE  Goal
    <2>1. ASSUME NEW stored \in BOOLEAN, ApproveKey(p, stored) PROVE h.s = proc[p].s /\ proc[p].pc = "ap_key"
      BY <1>0, <2>1 DEF ApproveKey, Step, Local, At
    <2>2. ASSUME NEW v \in Vouchers, RenewInvoice(p, v) PROVE h.s = proc[p].s /\ proc[p].pc = "rn_invoice"
      BY <1>0, <2>2 DEF RenewInvoice, Step, Local, At
    <2>3. ASSUME SettleSign(p), h.pc = "st_req" PROVE h.s = proc[p].s /\ proc[p].pc = "st_sign"
      BY <1>0, <2>3, DoneRests DEF SettleSign, Step, Local, At, Resting
    <2>4. ASSUME RenewRow(p) PROVE h.s = proc[p].s /\ proc[p].pc = "rn_row"
      BY <1>0, <2>4 DEF RenewRow, Step, Local, At
    <2>5. ASSUME IssueLimit(p), h.pc = "is_row" PROVE h.s = proc[p].s /\ proc[p].pc = "is_limit"
      BY <1>0, <2>5, DoneRests DEF IssueLimit, Step, Local, At, Resting
    <2>6. ASSUME NEW l \in Lics, IssueRow(p, l) PROVE h.s = proc[p].s /\ proc[p].pc = "is_row"
      BY <1>0, <2>6 DEF IssueRow, Step, Local, At
    <2> QED
      BY <1>1, <1>3, <2>1, <2>2, <2>3, <2>4, <2>5, <2>6 DEF AfterApproval
  <1>4. ASSUME NEW invoiceNow \in BOOLEAN, ConvertFlip(p, invoiceNow), h.pc = "rn_invoice" PROVE Goal
    <2>1. h.s = proc[p].s /\ proc[p].pc = "cv_flip"
      BY <1>0, <1>4, DoneRests DEF ConvertFlip, Step, Local, At, Resting
    <2> QED
      BY <1>1, <2>1 DEF AfterApproval
  <1>5. ASSUME SettleClaim(p), h.pc = "st_sign" PROVE Goal
    <2>1. \E r \in rows : r.s = h.s
      BY <1>0, <1>5, DoneRests DEF SettleClaim, Step, Local, Resting
    <2> QED
      BY <2>1 DEF Underway
  <1>6. ASSUME NEW i \in proc[p].todo, RenewItem(p, i) PROVE Goal
    <2>1. h.s = i.s /\ proc[p].op = "renew"
      BY <1>0, <1>6 DEF RenewItem, WorkOn, Step, Loops, Idle
    <2> QED
      BY <2>1 DEF Underway
  <1>7. ASSUME NEW s \in Subs, ConvertToPaid(p, s) PROVE Goal
    <2>1. h.s = s /\ sub[s].status = "paid"
      BY <1>0, <1>7 DEF ConvertToPaid, Live, Step, Idle
    <2> QED
      BY <2>1 DEF Underway
  <1>8. ASSUME NEW s \in Subs, NEW org \in Orgs, IssueSeat(p, s, org) PROVE Goal
    <2>1. h.s = s /\ sub[s].status = "paid"
      BY <1>0, <1>8 DEF IssueSeat, Live, Step, Idle
    <2> QED
      BY <2>1 DEF Underway
  <1>9. CASE h = proc[p]
    BY <1>1, <1>9
  <1>10. h.pc \notin Resting
    BY DEF AfterApproval, Resting
  <1>11. CASE h.pc \in {"ap_key", "ap_tx", "fr_tx", "st_sign", "st_req", "is_limit", "is_row", "is_key"}
    BY <1>2, <1>3, <1>5, <1>8, <1>9, <1>10, <1>11, Arrivals DEF Arrives
  <1>12. CASE h.pc \in {"rn_invoice", "rn_row", "rn_clear", "rf_row", "cv_flip"}
    BY <1>3, <1>4, <1>6, <1>7, <1>9, <1>10, <1>12, Arrivals DEF Arrives
  <1> QED
    BY <1>11, <1>12 DEF AfterApproval

\* The renewal sweep lists only subscriptions it found an invoice of.
LEMMA SweepItems ==
  ASSUME TypeOK, OpsFit, [Next]_vars, NEW p \in Procs, proc'[p].op = "renew", NEW i \in proc'[p].todo
  PROVE  (proc[p].op = "renew" /\ i \in proc[p].todo) \/ \E r \in rows : r.s = i.s
  <1>0. proc \in [Procs -> Local]
    BY DEF TypeOK
  <1>1. CASE proc'[p].op = proc[p].op /\ proc'[p].todo \subseteq proc[p].todo
    BY <1>1
  <1>2. CASE RenewOnce(p)
    <2> DEFINE Found(s) == {[AnyItem EXCEPT !.s = s, !.free = sub[s].free, !.date = r.end] :
                              r \in {q \in RowsOf(s) : IsLatest(q, RowsOf(s))}}
               Items == UNION {Found(s) : s \in {t \in Subs : Due(t)}}
    <2>1. Step(p, Begin("renew", Items))
      BY <1>2 DEF RenewOnce
    <2> HIDE DEF Items
    <2>2. i \in Items
      BY <1>0, <2>1 DEF Step, Begin, Idle
    <2> USE DEF Items
    <2> HIDE DEF Found
    <2>3. PICK s \in Subs : i \in Found(s)
      BY <2>2
    <2> USE DEF Found
    <2>4. i.s = s /\ \E r \in rows : r.s = s
      BY <2>3 DEF RowsOf, AnyItem
    <2> QED
      BY <2>4
  <1>3. CASE proc'[p] = Idle
    BY <1>3 DEF Idle
  <1>4. CASE ReconcileRows(p)
    <2>1. proc[p].op # "renew" /\ \E todo : Step(p, Begin(proc[p].op, todo))
      BY <1>4 DEF ReconcileRows, OpsFit, At
    <2> QED
      BY <1>0, <2>1 DEF Step, Begin, Idle
  <1> QED
    BY <1>1, <1>2, <1>3, <1>4, Agenda, Starters

\* What a handler holds stays a row of its subscription.
LEMMA HoldsRowStep ==
  ASSUME TypeOK, AnchorInv, [Next]_vars, NEW p \in Procs
  PROVE  HoldsRow(proc'[p], lic')
  <1> DEFINE h == proc'[p]
  <1>0. proc \in [Procs -> Local] /\ proc[p] \in Local /\ lic \in [Lics -> LicRow]
    BY DEF TypeOK
  <1>1. ASSUME NEW l \in Lics, lic[l].kind # "none"
        PROVE  lic'[l].kind # "none" /\ lic'[l].s = lic[l].s /\ lic'[l].org = lic[l].org
    BY <1>1, LicRows DEF SameRow, OwnRow, SeatRow, KeepsRow
  <1>2. HoldsRow(proc[p], lic')
    <2>1. HoldsRow(proc[p], lic)
      BY DEF AnchorInv
    <2> QED
      BY <1>1, <2>1 DEF HoldsRow
  <1>3. CASE h = proc[p]
    BY <1>2, <1>3
  <1>4. ASSUME SettleSign(p), h.pc = "st_req" PROVE HoldsRow(h, lic')
    <2>1. PICK l \in Lics : /\ FirstLic(proc[p].s, l)
                            /\ Step(p, [proc[p] EXCEPT !.pc = "st_req", !.l = l, !.lim = EntitledTo(proc[p].end)])
      BY <1>4, DoneRests DEF SettleSign, Resting
    <2>2. h.l = l /\ h.s = proc[p].s
      BY <1>0, <2>1 DEF Step, Local
    <2>3. lic[l].kind # "none" /\ lic[l].s = proc[p].s /\ lic[l].org = Company
      BY <2>1 DEF FirstLic, Exists
    <2> QED
      BY <1>1, <1>4, <2>2, <2>3 DEF HoldsRow
  <1>5. ASSUME NEW stored \in BOOLEAN, SettleRequest(p, stored), h.pc = "st_lic" PROVE HoldsRow(h, lic')
    <2>1. h.l = proc[p].l /\ h.s = proc[p].s /\ proc[p].pc = "st_req"
      BY <1>0, <1>5 DEF SettleRequest, Step, Local, At
    <2> QED
      BY <1>2, <1>5, <2>1 DEF HoldsRow
  <1>6. ASSUME NEW l \in Lics, IssueRow(p, l), h.pc = "is_key" PROVE HoldsRow(h, lic')
    <2>1. h.l = l /\ lic'[l].kind = "seat"
      BY <1>0, <1>6 DEF IssueRow, InsertLicence, Step, Local
    <2> QED
      BY <1>6, <2>1 DEF HoldsRow
  <1>7. CASE h.pc \notin {"st_req", "st_lic", "is_key"}
    BY <1>7 DEF HoldsRow
  <1> QED
    BY <1>3, <1>4, <1>5, <1>6, <1>7, Arrivals DEF Arrives, Resting

\* Everything that shows an approval keeps finding the row it inserted.
LEMMA AnchorStep ==
  ASSUME TypeOK, OpsFit, AnchorInv, [Next]_vars
  PROVE  AnchorInv'
  <1>1. ASSUME NEW s \in Subs, Underway(s)' PROVE Anchored(s)'
    <2> SUFFICES ASSUME ~Anchored(s)' PROVE FALSE
      OBVIOUS
    <2>0. ~Underway(s) /\ \A p \in Procs, l \in Lics : OwnRow(p, l) => proc[p].s # s
      BY AnchoredStays, OwnRowAnchors DEF AnchorInv
    <2>1. ASSUME NEW r \in rows', r.s = s PROVE FALSE
      BY <2>0, <2>1, RowsOfWhom DEF Underway, AfterApproval
    <2>2. sub'[s].status \notin {"approved", "paid"}
      BY <2>0, ApprovedByWhom DEF Underway, AfterApproval
    <2>3. ASSUME NEW l \in Lics, lic'[l].kind # "none", lic'[l].s = s PROVE FALSE
      BY <2>0, <2>3, LicRows DEF SameRow, SeatRow, KeepsRow, OwnRow, HoldsRow, AnchorInv, Underway, AfterApproval, At
    <2>4. ASSUME NEW p \in Procs, proc'[p].s = s, proc'[p].pc \in AfterApproval PROVE FALSE
      BY <2>0, <2>4, BeyondApproval
    <2>5. ASSUME NEW p \in Procs, proc'[p].op = "renew", NEW i \in proc'[p].todo, i.s = s PROVE FALSE
      BY <2>0, <2>5, SweepItems DEF Underway
    <2> QED
      BY <1>1, <2>1, <2>2, <2>3, <2>4, <2>5 DEF Underway
  <1>2. ASSUME NEW p \in Procs PROVE HoldsRow(proc[p], lic)'
    BY HoldsRowStep
  <1> QED
    BY <1>1, <1>2 DEF AnchorInv

\* Organisations a seat request has been admitted for whose row is not inserted yet.
PendingOrgs(s) == {proc[p].org : p \in {q \in Procs : proc[q].s = s /\ proc[q].pc \in {"is_limit", "is_row"}}}

\* The seats taken and the seats admitted, together: a request is admitted while a seat is
\* free and at most one is admitted per handler.
SeatBound == \A s \in Subs : Cardinality(UsedOrgs(s) \cup PendingOrgs(s)) <= Quantity + Cardinality(Procs) - 1

\* Both sets are finite, and no handler admits two organisations.
SeatsCounted ==
    \A s \in Subs :
       /\ IsFiniteSet(UsedOrgs(s)) /\ IsFiniteSet(PendingOrgs(s))
       /\ Cardinality(UsedOrgs(s)) \in Nat /\ Cardinality(PendingOrgs(s)) \in Nat
       /\ Cardinality(PendingOrgs(s)) <= Cardinality(Procs)
\* They can be counted.
LEMMA SeatSets == SeatsCounted
  <1> SUFFICES ASSUME NEW s \in Subs
               PROVE  /\ IsFiniteSet(UsedOrgs(s)) /\ IsFiniteSet(PendingOrgs(s))
                      /\ Cardinality(UsedOrgs(s)) \in Nat /\ Cardinality(PendingOrgs(s)) \in Nat
                      /\ Cardinality(PendingOrgs(s)) <= Cardinality(Procs)
    BY DEF SeatsCounted
  <1>1. ASSUME NEW S, NEW T, IsFiniteSet(S), NEW f \in [S -> T], \A t \in T : \E x \in S : f[x] = t
        PROVE  IsFiniteSet(T) /\ Cardinality(T) <= Cardinality(S)
    BY <1>1, FS_Surjection DEF Surjection
  <1>2. IsFiniteSet(UsedOrgs(s))
    <2> DEFINE S == {k \in Lics : lic[k].s = s /\ Exists(k)}
    <2>1. IsFiniteSet(Lics)
      BY FS_Interval, BoundsAssumption DEF Lics
    <2>2. IsFiniteSet(S)
      BY <2>1, FS_Subset
    <2> DEFINE f == [l \in S |-> lic[l].org]
    <2>3. f \in [S -> UsedOrgs(s)] /\ \A o \in UsedOrgs(s) : \E l \in S : f[l] = o
      BY DEF UsedOrgs
    <2> HIDE DEF f, S
    <2> QED
      BY <1>1, <2>2, <2>3
  <1>3. IsFiniteSet(PendingOrgs(s)) /\ Cardinality(PendingOrgs(s)) <= Cardinality(Procs)
    <2> DEFINE S == {q \in Procs : proc[q].s = s /\ proc[q].pc \in {"is_limit", "is_row"}}
    <2>1. IsFiniteSet(S) /\ Cardinality(S) <= Cardinality(Procs)
      BY FS_Subset, SeatsAssumption
    <2> DEFINE f == [p \in S |-> proc[p].org]
    <2>2. f \in [S -> PendingOrgs(s)] /\ \A o \in PendingOrgs(s) : \E p \in S : f[p] = o
      BY DEF PendingOrgs
    <2> HIDE DEF f, S
    <2>3. IsFiniteSet(PendingOrgs(s)) /\ Cardinality(PendingOrgs(s)) <= Cardinality(S)
      BY <1>1, <2>1, <2>2
    <2> QED
      BY <2>1, <2>3, FS_CardinalityType, SeatsAssumption
  <1> QED
    BY <1>2, <1>3, FS_CardinalityType

\* What a step adds to the seats taken or admitted: nothing, or a seat that was free, or the
\* subscriber's own, which is there already unless this is the first row of all.
LEMMA SeatsGrow ==
  ASSUME TypeOK, AnchorInv, [Next]_vars, NEW s \in Subs
  PROVE  \/ (UsedOrgs(s) \cup PendingOrgs(s))' \subseteq UsedOrgs(s) \cup PendingOrgs(s)
         \/ UsedOrgs(s)' \subseteq UsedOrgs(s) /\ Cardinality(UsedOrgs(s)) < Quantity
         \/ (UsedOrgs(s) \cup PendingOrgs(s))' \subseteq {Company}
  <1> DEFINE Now == UsedOrgs(s) \cup PendingOrgs(s)
  <1>0. proc \in [Procs -> Local] /\ lic \in [Lics -> LicRow]
    BY DEF TypeOK
  <1>1. ASSUME Underway(s) PROVE UsedOrgs(s)' \subseteq Now
    <2> SUFFICES ASSUME NEW l \in Lics, lic'[l].s = s, lic'[l].kind \notin {"none", "deleted"}
                 PROVE  lic'[l].org \in Now
      BY DEF UsedOrgs, Exists
    <2>1. CASE SameRow(l)
      BY <2>1 DEF SameRow, UsedOrgs, Exists
    <2>2. ASSUME NEW p \in Procs, OwnRow(p, l) \/ KeepsRow(p, l, "st_lic", "full") PROVE lic'[l].org \in Now
      <3>1. lic'[l].org = Company
        BY <2>2 DEF OwnRow, KeepsRow, AnchorInv, HoldsRow, At
      <3>2. Company \in UsedOrgs(s)
        BY <1>1 DEF AnchorInv, Anchored, UsedOrgs
      <3> QED
        BY <3>1, <3>2
    <2>3. ASSUME NEW p \in Procs, SeatRow(p, l) PROVE lic'[l].org \in Now
      BY <2>3 DEF SeatRow, PendingOrgs, At
    <2>4. ASSUME NEW p \in Procs, KeepsRow(p, l, "is_key", "deleted") PROVE FALSE
      BY <2>4 DEF KeepsRow
    <2> QED
      BY <2>1, <2>2, <2>3, <2>4, LicRows
  <1>2. ASSUME NEW o \in PendingOrgs(s)'
        PROVE  o \in PendingOrgs(s) \/ \E p \in Procs : IssueSeat(p, s, o)
    <2>1. PICK p \in Procs : proc'[p].s = s /\ proc'[p].pc \in {"is_limit", "is_row"} /\ o = proc'[p].org
      BY DEF PendingOrgs
    <2>2. CASE proc'[p] = proc[p]
      BY <2>1, <2>2 DEF PendingOrgs
    <2>3. ASSUME NEW t \in Subs, NEW org \in Orgs, IssueSeat(p, t, org) PROVE IssueSeat(p, s, o)
      <3>1. proc'[p].s = t /\ proc'[p].org = org
        BY <1>0, <2>3 DEF IssueSeat, Step, Idle
      <3> QED
        BY <2>1, <2>3, <3>1
    <2>4. ASSUME IssueLimit(p), proc'[p].pc = "is_row" PROVE o \in PendingOrgs(s)
      <3>1. proc'[p].s = proc[p].s /\ proc'[p].org = proc[p].org /\ proc[p].pc = "is_limit"
        BY <1>0, <2>4, DoneRests DEF IssueLimit, Step, Local, At, Resting
      <3> QED
        BY <2>1, <3>1 DEF PendingOrgs
    <2>5. proc'[p].pc \notin Resting
      BY <2>1 DEF Resting
    <2> QED
      BY <2>1, <2>2, <2>3, <2>4, <2>5, Arrivals DEF Arrives
  <1>3. ASSUME NEW p \in Procs, NEW o, IssueSeat(p, s, o)
        PROVE  UNCHANGED lic /\ (o \in UsedOrgs(s) \/ Cardinality(UsedOrgs(s)) < Quantity)
    BY <1>3 DEF IssueSeat, SeatFree
  <1>4. CASE \E p \in Procs : \E o : IssueSeat(p, s, o) /\ o \notin UsedOrgs(s)
    <2>1. UsedOrgs(s)' = UsedOrgs(s)
      BY <1>4 DEF IssueSeat, UsedOrgs, Exists
    <2> QED
      BY <1>3, <1>4, <2>1
  <1>5. CASE ~\E p \in Procs : \E o : IssueSeat(p, s, o) /\ o \notin UsedOrgs(s)
    <2>1. PendingOrgs(s)' \subseteq Now
      BY <1>2, <1>5
    <2>2. CASE Underway(s)
      BY <1>1, <2>1, <2>2
    <2>3. CASE ~Underway(s)
      <3>1. UsedOrgs(s) = {} /\ PendingOrgs(s) = {}
        BY <2>3 DEF Underway, UsedOrgs, PendingOrgs, Exists, AfterApproval
      <3>2. ASSUME NEW l \in Lics, lic'[l].s = s, lic'[l].kind \notin {"none", "deleted"}
            PROVE  lic'[l].org = Company
        BY <2>3, <3>2, LicRows DEF SameRow, OwnRow, SeatRow, KeepsRow, HoldsRow, AnchorInv, At, Underway, AfterApproval
      <3>3. UsedOrgs(s)' \subseteq {Company}
        BY <3>2 DEF UsedOrgs, Exists
      <3> QED
        BY <2>1, <3>1, <3>3
    <2> QED
      BY <2>2, <2>3
  <1> QED
    BY <1>4, <1>5

\* So the seats taken and admitted stay within the bound.
LEMMA SeatBoundStep ==
  ASSUME TypeOK, AnchorInv, SeatBound, [Next]_vars
  PROVE  SeatBound'
  <1> SUFFICES ASSUME NEW s \in Subs
               PROVE  Cardinality(UsedOrgs(s)' \cup PendingOrgs(s)') <= Quantity + Cardinality(Procs) - 1
    BY DEF SeatBound
  <1> DEFINE U == UsedOrgs(s)  Un == UsedOrgs(s)'  P == PendingOrgs(s)  Pn == PendingOrgs(s)'
  <1>0. /\ IsFiniteSet(U) /\ IsFiniteSet(P) /\ Cardinality(U) \in Nat
        /\ Cardinality(Procs) \in Nat \ {0} /\ Quantity \in Nat \ {0}
    BY SeatSets, SeatsAssumption, BoundsAssumption, FS_CardinalityType, FS_EmptySet DEF SeatsCounted
  <1>1. /\ IsFiniteSet(Un) /\ IsFiniteSet(Pn) /\ Cardinality(Un) \in Nat /\ Cardinality(Pn) \in Nat
        /\ Cardinality(Pn) <= Cardinality(Procs)
    <2>1. SeatsCounted'
      BY SeatSets, PTL
    <2> QED
      BY <2>1 DEF SeatsCounted
  <1>2. Cardinality(U \cup P) <= Quantity + Cardinality(Procs) - 1 /\ Cardinality(U \cup P) \in Nat
    BY <1>0, FS_Union, FS_CardinalityType DEF SeatBound
  <1>3. CASE Un \cup Pn \subseteq U \cup P
    <2>1. IsFiniteSet(U \cup P)
      BY <1>0, FS_Union
    <2>2. Cardinality(Un \cup Pn) <= Cardinality(U \cup P) /\ Cardinality(Un \cup Pn) \in Nat
      BY <1>3, <2>1, FS_Subset, FS_CardinalityType
    <2> QED
      BY <1>0, <1>2, <2>2
  <1>4. CASE Un \subseteq U /\ Cardinality(U) < Quantity
    <2>1. Cardinality(Un) <= Cardinality(U)
      BY <1>0, <1>4, FS_Subset
    <2>2. Cardinality(Un \cup Pn) = Cardinality(Un) + Cardinality(Pn) - Cardinality(Un \cap Pn)
      BY <1>1, FS_Union
    <2>3. Cardinality(Un \cap Pn) \in Nat
      BY <1>1, FS_Intersection, FS_CardinalityType
    <2> QED
      BY <1>0, <1>1, <1>4, <2>1, <2>2, <2>3
  <1>5. CASE Un \cup Pn \subseteq {Company}
    <2>1. IsFiniteSet({Company}) /\ Cardinality({Company}) = 1
      BY FS_Singleton
    <2>2. IsFiniteSet(Un \cup Pn) /\ Cardinality(Un \cup Pn) <= Cardinality({Company})
      BY <1>5, <2>1, FS_Subset
    <2>3. Cardinality(Un \cup Pn) \in Nat
      BY <2>2, FS_CardinalityType
    <2> QED
      BY <1>0, <2>1, <2>2, <2>3
  <1> QED
    BY <1>3, <1>4, <1>5, SeatsGrow

\* Seats.Issue checks the seat count and inserts the row two calls later: the seats taken
\* exceed those bought by at most one for every other request in flight, through any number
\* of requests, failures, dropped rows, settlements and restarts.
THEOREM SeatOverrunIsBounded == Spec => []SeatOverrunBounded
  <1>1. TypeOK /\ OpsFit /\ AnchorInv /\ SeatBound /\ [Next]_vars => (TypeOK /\ OpsFit /\ AnchorInv /\ SeatBound)'
    BY TypeStep, OpsFitStep, AnchorStep, SeatBoundStep
  <1>2. Init => TypeOK /\ OpsFit /\ AnchorInv /\ SeatBound
    <2> SUFFICES ASSUME Init PROVE OpsFit /\ SeatBound
      BY InitType, InitAnchor
    <2>1. ASSUME NEW s \in Subs PROVE UsedOrgs(s) \cup PendingOrgs(s) = {}
      BY DEF Init, UsedOrgs, PendingOrgs, Exists, Idle
    <2>2. Cardinality(Procs) \in Nat \ {0} /\ Quantity \in Nat \ {0}
      BY SeatsAssumption, BoundsAssumption, FS_CardinalityType, FS_EmptySet
    <2>3. SeatBound
      BY <2>1, <2>2, FS_EmptySet DEF SeatBound
    <2>4. OpsFit
      BY DEF Init, OpsFit, Idle
    <2> QED
      BY <2>3, <2>4
  <1>3. SeatBound => SeatOverrunBounded
    <2> SUFFICES ASSUME SeatBound, NEW s \in Subs
                 PROVE  Cardinality(UsedOrgs(s)) <= Quantity + Cardinality(Procs) - 1
      BY DEF SeatOverrunBounded
    <2>1. /\ IsFiniteSet(UsedOrgs(s) \cup PendingOrgs(s)) /\ Cardinality(UsedOrgs(s)) \in Nat
          /\ Cardinality(UsedOrgs(s) \cup PendingOrgs(s)) \in Nat
      BY SeatSets, FS_Union, FS_CardinalityType DEF SeatsCounted
    <2>2. Cardinality(UsedOrgs(s)) <= Cardinality(UsedOrgs(s) \cup PendingOrgs(s))
      BY <2>1, FS_Subset
    <2>3. Cardinality(Procs) \in Nat /\ Quantity \in Nat
      BY SeatsAssumption, BoundsAssumption, FS_CardinalityType
    <2> QED
      BY <2>1, <2>2, <2>3 DEF SeatBound
  <1> QED
    BY <1>1, <1>2, <1>3, PTL DEF Spec
=============================================================================
