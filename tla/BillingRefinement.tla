------------------------- MODULE BillingRefinement -------------------------
(* Billing implements BillingContract, for every number of subscriptions,  *)
(* invoices and concurrent handlers: the invariant says which handler may  *)
(* act on which invoice, and every step of Billing maps to one step of the *)
(* contract.  On top of it: what keeps the billing cycle of a subscription *)
(* going.                                                                  *)
EXTENDS BillingProofs, WellFoundedInduction

-----------------------------------------------------------------------------
(* Who holds which invoice.                                                *)

\* A handler that raised an invoice in Lexware and has not recorded it yet; one about to
\* claim a payment; one that claimed it and owes the key.
Carrying == {"ap_row", "ap_key", "ap_tx", "rn_row"}
Holding == Carrying \cup {"st_claim", "st_sign"}

\* A Lexware voucher has one row; an invoice-free period has one per start.
SameInvoice(r, q) == r.v = q.v /\ (r.v \in Vouchers \/ (r.s = q.s /\ r.start = q.start))
RowsUnique == \A r, q \in rows : SameInvoice(r, q) => r = q
RowsRaised == \A r \in rows : r.v \in Vouchers => voucher[r.v].st # "none"

Spent(v, R) == \E r \in R : r.v = v /\ r.status # "open"
KeysOnce == \A v \in Vouchers : keysFor[v] <= 1 /\ (keysFor[v] > 0 => Spent(v, rows))

\* What a handler's record h may claim to know of its invoice, in the rows R, with the
\* vouchers V and the count of keys K.
Holds(h, R, V, K) ==
    /\ h.pc \in Carrying => h.v \in Vouchers /\ V[h.v].st # "none" /\ \A r \in R : r.v # h.v
    /\ h.pc = "st_claim" => h.v \in Vouchers
    /\ h.pc = "st_sign" => h.v \in Vouchers /\ Spent(h.v, R) /\ K[h.v] = 0
\* No two handlers record the same invoice, and no two sign on account of the same one.
Apart(g, h) ==
    /\ g.pc \in Carrying /\ h.pc \in Carrying => g.v # h.v
    /\ g.pc = "st_sign" /\ h.pc = "st_sign" => g.v # h.v

HandlersHold == \A p \in Procs : Holds(proc[p], rows, voucher, keysFor)
HandlersApart == \A p, q \in Procs : p # q => Apart(proc[p], proc[q])

HoldingInv == RowsUnique /\ RowsRaised /\ KeysOnce /\ HandlersHold /\ HandlersApart

\* No voucher handed out is taken back.
StillRaised == \A v \in Vouchers : voucher[v].st # "none" => voucher'[v].st # "none"

-----------------------------------------------------------------------------
(* Steps of one handler.                                                   *)

\* With nothing raised, nobody holds anything.
LEMMA InitHolding == Init => HoldingInv
  <1> SUFFICES ASSUME Init PROVE HoldingInv
    OBVIOUS
  <1>1. \A p \in Procs : proc[p].pc = "idle"
    BY DEF Init, Idle
  <1> QED
    BY <1>1 DEF Init, HoldingInv, RowsUnique, RowsRaised, KeysOnce, HandlersHold, HandlersApart,
       Holds, Apart, Carrying

\* One handler moves to the record h; the others keep theirs.
LEMMA HandlersMove ==
  ASSUME TypeOK, HandlersApart, NEW p \in Procs, NEW h, Step(p, h),
         Holds(h, rows', voucher', keysFor'),
         \A q \in Procs : q # p => Holds(proc[q], rows', voucher', keysFor') /\ Apart(proc[q], h)
  PROVE  HandlersHold' /\ HandlersApart'
  <1>1. proc'[p] = h /\ \A q \in Procs : q # p => proc'[q] = proc[q]
    BY DEF Step, TypeOK
  <1>2. HandlersHold'
    BY <1>1 DEF HandlersHold
  <1>3. \A g : Apart(g, h) => Apart(h, g)
    BY DEF Apart
  <1>4. HandlersApart'
    BY <1>1, <1>3 DEF HandlersApart
  <1> QED
    BY <1>2, <1>4

\* What a handler knows stays true while the tables keep its invoice as it is or later.
LEMMA HoldsKept ==
  ASSUME NEW h, NEW R, NEW V, NEW K, NEW R2, NEW V2, NEW K2, Holds(h, R, V, K),
         \A q \in R2 : \E r \in R : r.v = q.v,
         \A r \in R : \E q \in R2 : q.v = r.v /\ (r.status # "open" => q.status # "open"),
         \A v \in Vouchers : V[v].st # "none" => V2[v].st # "none",
         \A v \in Vouchers : K2[v] = K[v]
  PROVE  Holds(h, R2, V2, K2)
  <1>1. \A v : Spent(v, R) => Spent(v, R2)
    BY DEF Spent
  <1>2. \A v : (\A r \in R : r.v # v) => (\A q \in R2 : q.v # v)
    OBVIOUS
  <1> QED
    BY <1>1, <1>2 DEF Holds

\* A handler at g may go on as h without a claim on an invoice it did not have.
Continues(g, h) ==
    \/ h.pc \notin Holding
    \/ g.pc \in Carrying /\ h.pc \in Carrying /\ h.v = g.v
    \/ h.pc = "st_claim" /\ h.v \in Vouchers

\* A handler's step that writes neither rows nor keys leaves the invariant alone.
LEMMA Frame ==
  ASSUME TypeOK, HoldingInv, NEW p \in Procs, NEW h, Step(p, h), Continues(proc[p], h),
         UNCHANGED <<rows, keysFor>>, StillRaised
  PROVE  HoldingInv'
  <1>1. \A q \in Procs : Holds(proc[q], rows', voucher', keysFor')
    BY HoldsKept DEF HoldingInv, HandlersHold, StillRaised
  <1>2. "st_claim" \notin Carrying /\ "st_sign" \notin Carrying
    BY DEF Carrying
  <1>3. Holds(h, rows', voucher', keysFor')
    BY <1>1, <1>2 DEF Continues, Holding, Holds
  <1>4. \A q \in Procs : q # p => Apart(proc[q], h)
    BY <1>2 DEF Continues, Holding, Apart, HoldingInv, HandlersApart
  <1>5. HandlersHold' /\ HandlersApart'
    BY <1>1, <1>3, <1>4, HandlersMove DEF HoldingInv
  <1> QED
    BY <1>5 DEF HoldingInv, RowsUnique, RowsRaised, KeysOnce, StillRaised

\* Only a handler at st_sign owes a key.
LEMMA OwedShrinks ==
  ASSUME TypeOK, NEW p \in Procs, NEW h, Step(p, h), h.pc # "st_sign"
  PROVE  /\ Owed' \subseteq Owed
         /\ proc[p].pc # "st_sign" => Owed' = Owed
  <1>1. proc'[p] = h /\ \A q \in Procs : q # p => proc'[q] = proc[q]
    BY DEF Step, TypeOK
  <1>2. \A q \in Procs : proc'[q].pc = "st_sign" => q # p /\ proc[q] = proc'[q]
    BY <1>1
  <1> QED
    BY <1>1, <1>2 DEF Owed, At

\* The books show an invoice's one row.
LEMMA StatusOfRow ==
  ASSUME RowsUnique, NEW r \in rows, r.v \in Vouchers
  PROVE  InvoiceStatus[r.v] = r.status
  <1>1. \A q \in rows : q.v = r.v => q = r
    BY DEF RowsUnique, SameInvoice
  <1>2. (CHOOSE q \in rows : q.v = r.v) = r
    BY <1>1
  <1> QED
    BY <1>2 DEF InvoiceStatus

\* An invoice without a row is not in the books.
LEMMA StatusOfNone ==
  ASSUME NEW v \in Vouchers, \A r \in rows : r.v # v
  PROVE  InvoiceStatus[v] = "none"
  BY DEF InvoiceStatus

-----------------------------------------------------------------------------
(* Steps of the contract.                                                  *)

\* Books, payments and keys as before, and no new debt: at most a key is abandoned.
LEMMA StutterStep ==
  ASSUME UNCHANGED <<InvoiceStatus, keysFor, paidMax, keyMax>>, Owed' \subseteq Owed
  PROVE  Contract!Next
  <1> DEFINE lost == Owed \ Owed'
  <1>1. lost \in SUBSET Owed /\ Owed' = Owed \ lost
    OBVIOUS
  <1>2. Contract!Abandon(lost)
    BY <1>1 DEF Contract!Abandon
  <1> QED
    BY <1>1, <1>2 DEF Contract!Next

\* A handler idle or between two items holds nothing.
LEMMA QuietHolding == "idle" \notin Holding /\ "loop" \notin Holding
  BY DEF Holding, Carrying

\* A handler's step that writes neither rows nor keys nor history.
LEMMA QuietStep ==
  ASSUME TypeOK, HoldingInv, NEW p \in Procs, NEW h, Step(p, h), Continues(proc[p], h),
         UNCHANGED <<rows, keysFor, paidMax, keyMax>>, StillRaised
  PROVE  HoldingInv' /\ Contract!Next
  <1>1. h.pc # "st_sign"
    BY DEF Continues, Holding, Carrying
  <1>2. UNCHANGED InvoiceStatus
    BY DEF InvoiceStatus
  <1>3. HoldingInv'
    BY Frame
  <1>4. Owed' \subseteq Owed
    BY <1>1, OwedShrinks
  <1> QED
    BY <1>2, <1>3, <1>4, StutterStep

\* The same for one that begins or goes on with a sweep, or returns.
LEMMA QuietBegin ==
  ASSUME TypeOK, HoldingInv, NEW p \in Procs, NEW op, NEW todo, Step(p, Begin(op, todo)),
         UNCHANGED <<rows, keysFor, paidMax, keyMax>>, StillRaised
  PROVE  HoldingInv' /\ Contract!Next
  <1>1. Continues(proc[p], Begin(op, todo))
    BY BeginQuiet, QuietHolding DEF Continues
  <1> QED
    BY <1>1, QuietStep

\* It also maps to a stutter when the handler ends with it.
LEMMA QuietDone ==
  ASSUME TypeOK, HoldingInv, NEW p \in Procs, Done(p),
         UNCHANGED <<rows, keysFor, paidMax, keyMax>>, StillRaised
  PROVE  HoldingInv' /\ Contract!Next
  <1>1. PICK h : Step(p, h) /\ h.pc \in {"idle", "loop"}
    BY DoneQuiet
  <1>2. Continues(proc[p], h)
    BY <1>1, QuietHolding DEF Continues
  <1> QED
    BY <1>1, <1>2, QuietStep

\* A step that writes neither handlers nor books: requests, cancellations, Lexware.
LEMMA OutsideStep ==
  ASSUME HoldingInv, UNCHANGED <<rows, proc, keysFor, paidMax, keyMax>>, StillRaised
  PROVE  HoldingInv' /\ Contract!Next
  <1>1. \A p \in Procs : Holds(proc[p], rows', voucher', keysFor')
    BY HoldsKept DEF HoldingInv, HandlersHold, StillRaised
  <1>2. HoldingInv'
    BY <1>1 DEF HoldingInv, HandlersHold, HandlersApart, RowsUnique, RowsRaised, KeysOnce, StillRaised
  <1>3. UNCHANGED <<InvoiceStatus, Owed>>
    BY DEF InvoiceStatus, Owed, At
  <1> QED
    BY <1>2, <1>3, StutterStep

\* Signing a key for what was paid already, with the handler's return.
LEMMA SigningStep ==
  ASSUME TypeOK, HoldingInv, KeyWithinPaid, NEW p \in Procs, Done(p), proc[p].pc # "st_sign",
         UNCHANGED <<rows, keysFor, paidMax>>, StillRaised,
         NEW s \in Subs, NEW lim \in Nat, lim <= paidMax[s] + GraceDays,
         Signed(s, lim) \/ UNCHANGED keyMax
  PROVE  HoldingInv' /\ Contract!Next
  <1>1. PICK h : Step(p, h) /\ h.pc \in {"idle", "loop"}
    BY DoneQuiet
  <1>2. HoldingInv'
    BY <1>1, Frame, QuietHolding DEF Continues
  <1>3. UNCHANGED <<InvoiceStatus, Owed>>
    BY <1>1, OwedShrinks DEF InvoiceStatus
  <1>4. CASE UNCHANGED keyMax
    BY <1>2, <1>3, <1>4, StutterStep
  <1>5. CASE Signed(s, lim)
    <2>1. /\ keyMax' = [keyMax EXCEPT ![s] = keyMax'[s]]
          /\ keyMax[s] <= keyMax'[s]
          /\ keyMax'[s] <= paidMax'[s] + GraceDays
      BY <1>5 DEF Signed, Larger, TypeOK, KeyWithinPaid
    <2>2. Contract!Resign(s)
      BY <1>3, <2>1 DEF Contract!Resign, Contract!Sign
    <2> QED
      BY <1>2, <2>2 DEF Contract!Next
  <1> QED
    BY <1>4, <1>5

\* Every voucher CreateInvoice takes is a new one.
LEMMA CreateRaises ==
  ASSUME TypeOK, NEW p \in Procs, NEW v \in Vouchers, CreateInvoice(p, v)
  PROVE  StillRaised /\ voucher[v].st = "none" /\ voucher'[v].st # "none"
  BY DEF CreateInvoice, StillRaised, TypeOK

-----------------------------------------------------------------------------
(* Steps that write invoices.                                              *)

\* CreateInvoice: the voucher is new, so nobody else holds it and no row has it.
LEMMA RaiseStep ==
  ASSUME TypeOK, HoldingInv, NEW p \in Procs, NEW v \in Vouchers, CreateInvoice(p, v),
         NEW h, Step(p, h), h.pc \in Carrying, h.v = v, UNCHANGED <<rows, keysFor, paidMax, keyMax>>
  PROVE  HoldingInv' /\ Contract!Next
  <1>1. StillRaised /\ voucher[v].st = "none" /\ voucher'[v].st # "none"
    BY CreateRaises
  <1>2. "st_claim" \notin Carrying /\ "st_sign" \notin Carrying
    BY DEF Carrying
  <1>3. \A r \in rows : r.v # v
    BY <1>1 DEF HoldingInv, RowsRaised
  <1>4. Holds(h, rows', voucher', keysFor')
    BY <1>1, <1>2, <1>3 DEF Holds
  <1>5. \A q \in Procs : Holds(proc[q], rows', voucher', keysFor') /\ Apart(proc[q], h)
    <2>1. \A q \in Procs : Holds(proc[q], rows', voucher', keysFor')
      BY <1>1, HoldsKept DEF HoldingInv, HandlersHold, StillRaised
    <2>2. \A q \in Procs : proc[q].pc \in Carrying => proc[q].v # v
      BY <1>1 DEF HoldingInv, HandlersHold, Holds
    <2> QED
      BY <1>2, <2>1, <2>2 DEF Apart
  <1>6. HoldingInv'
    BY <1>1, <1>4, <1>5, HandlersMove DEF HoldingInv, RowsUnique, RowsRaised, KeysOnce, StillRaised
  <1>7. Owed' \subseteq Owed
    BY <1>2, OwedShrinks
  <1> QED
    BY <1>6, <1>7, StutterStep DEF InvoiceStatus

\* The handler that raised an invoice records it as open: the contract's Raise.
LEMMA RecordStep ==
  ASSUME TypeOK, HoldingInv, NEW p \in Procs, NEW h, Step(p, h), h.pc \notin Holding,
         proc[p].pc \in Carrying, NEW row, row.v = proc[p].v, row.status = "open",
         rows' = rows \cup {row}, UNCHANGED <<voucher, keysFor, paidMax, keyMax>>
  PROVE  HoldingInv' /\ Contract!Next
  <1> DEFINE v == proc[p].v
  <1>1. v \in Vouchers /\ voucher[v].st # "none" /\ \A r \in rows : r.v # v
    BY DEF HoldingInv, HandlersHold, Holds
  <1>2. RowsUnique' /\ RowsRaised'
    BY <1>1 DEF HoldingInv, RowsUnique, RowsRaised, SameInvoice
  <1>3. KeysOnce'
    BY DEF HoldingInv, KeysOnce, Spent
  <1>4. Holds(h, rows', voucher', keysFor') /\ \A q \in Procs : Apart(proc[q], h)
    BY DEF Holds, Apart, Holding
  <1>5. \A q \in Procs : q # p => Holds(proc[q], rows', voucher', keysFor')
    BY DEF HoldingInv, HandlersHold, HandlersApart, Holds, Apart, Spent
  <1>6. HoldingInv'
    BY <1>2, <1>3, <1>4, <1>5, HandlersMove DEF HoldingInv
  <1>7. InvoiceStatus[v] = "none" /\ InvoiceStatus' = [InvoiceStatus EXCEPT ![v] = "open"]
    <2>1. InvoiceStatus[v] = "none"
      BY <1>1, StatusOfNone
    <2>2. InvoiceStatus'[v] = "open"
      <3>1. (CHOOSE r \in rows' : r.v = v) = row
        BY <1>1
      <3> QED
        BY <1>1, <3>1 DEF InvoiceStatus
    <2>3. \A w \in Vouchers \ {v} : InvoiceStatus'[w] = InvoiceStatus[w]
      <3>1. \A w \in Vouchers \ {v} : {r \in rows' : r.v = w} = {r \in rows : r.v = w}
        OBVIOUS
      <3>2. ASSUME NEW w \in Vouchers \ {v} PROVE InvoiceStatus'[w] = InvoiceStatus[w]
        <4>1. CASE \A r \in rows : r.v # w
          BY <3>1, <4>1 DEF InvoiceStatus
        <4>2. ASSUME NEW r \in rows, r.v = w PROVE InvoiceStatus'[w] = InvoiceStatus[w]
          <5>1. \A q \in rows' : q.v = w => q = r
            BY <4>2, <3>2 DEF HoldingInv, RowsUnique, SameInvoice
          <5>2. (CHOOSE q \in rows' : q.v = w) = r /\ (CHOOSE q \in rows : q.v = w) = r
            BY <4>2, <5>1
          <5> QED
            BY <4>2, <5>2 DEF InvoiceStatus
        <4> QED
          BY <4>1, <4>2
      <3> QED
        BY <3>2
    <2> QED
      BY <2>1, <2>2, <2>3 DEF InvoiceStatus
  <1>8. Owed' = Owed
    <2>1. h.pc # "st_sign" /\ proc[p].pc # "st_sign"
      BY DEF Holding, Carrying
    <2> QED
      BY <2>1, OwedShrinks
  <1>9. Contract!Raise(v)
    BY <1>7, <1>8 DEF Contract!Raise
  <1> QED
    BY <1>1, <1>6, <1>9 DEF Contract!Next

\* An invoice-free period is recorded: the books of Lexware invoices do not change.
LEMMA FreeRowStep ==
  ASSUME TypeOK, HoldingInv, NEW p \in Procs, NEW h, Step(p, h), h.pc \notin Holding,
         proc[p].pc # "st_sign", NEW row, row.v = NoVoucher, ~FreeRefTaken(row.s, row.start),
         rows' = rows \cup {row}, UNCHANGED <<voucher, keysFor>>
  PROVE  HoldingInv' /\ UNCHANGED <<InvoiceStatus, Owed>>
  <1>1. NoVoucher \notin Vouchers
    BY BoundsAssumption
  <1>2. RowsUnique' /\ RowsRaised'
    BY <1>1 DEF HoldingInv, RowsUnique, RowsRaised, SameInvoice, FreeRefTaken
  <1>3. KeysOnce'
    BY DEF HoldingInv, KeysOnce, Spent
  <1>4. Holds(h, rows', voucher', keysFor') /\ \A q \in Procs : Apart(proc[q], h)
    BY DEF Holds, Apart, Holding
  <1>5. \A q \in Procs : q # p => Holds(proc[q], rows', voucher', keysFor')
    BY <1>1 DEF HoldingInv, HandlersHold, Holds, Spent
  <1>6. HoldingInv'
    BY <1>2, <1>3, <1>4, <1>5, HandlersMove DEF HoldingInv
  <1>7. UNCHANGED InvoiceStatus
    <2>1. ASSUME NEW v \in Vouchers PROVE InvoiceStatus'[v] = InvoiceStatus[v]
      <3>1. CASE \A r \in rows : r.v # v
        BY <1>1, <3>1 DEF InvoiceStatus
      <3>2. ASSUME NEW r \in rows, r.v = v PROVE InvoiceStatus'[v] = InvoiceStatus[v]
        <4>1. \A q \in rows' : q.v = v => q = r
          BY <1>1, <3>2 DEF HoldingInv, RowsUnique, SameInvoice
        <4>2. (CHOOSE q \in rows' : q.v = v) = r /\ (CHOOSE q \in rows : q.v = v) = r
          BY <3>2, <4>1
        <4> QED
          BY <3>2, <4>2 DEF InvoiceStatus
      <3> QED
        BY <3>1, <3>2
    <2> QED
      BY <2>1 DEF InvoiceStatus
  <1>8. UNCHANGED Owed
    <2>1. h.pc # "st_sign"
      BY DEF Holding
    <2> QED
      BY <2>1, OwedShrinks
  <1> QED
    BY <1>6, <1>7, <1>8

\* Raising one entry of a table of days.
LEMMA Raising ==
  ASSUME NEW f \in [Subs -> Nat], NEW g, NEW s \in Subs, NEW n \in Nat,
         g = [f EXCEPT ![s] = Larger(@, n)]
  PROVE  g = [f EXCEPT ![s] = g[s]] /\ f[s] <= g[s]
  BY DEF Larger

\* StatusOfRow in the next state.
LEMMA StatusOfRowNext ==
  ASSUME RowsUnique', NEW r \in rows', r.v \in Vouchers
  PROVE  InvoiceStatus'[r.v] = r.status
  <1>1. \A q \in rows' : q.v = r.v => q = r
    BY DEF RowsUnique, SameInvoice
  <1>2. (CHOOSE q \in rows' : q.v = r.v) = r
    BY <1>1
  <1> QED
    BY <1>2 DEF InvoiceStatus

\* An invoice whose row keeps its status keeps it in the books.
LEMMA StatusKept ==
  ASSUME RowsUnique, RowsUnique', NEW v \in Vouchers,
         \A q \in rows' : q.v = v => \E r \in rows : r.v = v /\ r.status = q.status,
         \A r \in rows : r.v = v => \E q \in rows' : q.v = v
  PROVE  InvoiceStatus'[v] = InvoiceStatus[v]
  <1>1. CASE \A r \in rows : r.v # v
    BY <1>1 DEF InvoiceStatus
  <1>2. ASSUME NEW r \in rows, r.v = v PROVE InvoiceStatus'[v] = InvoiceStatus[v]
    <2>1. PICK q \in rows' : q.v = v
      BY <1>2
    <2>2. PICK t \in rows : t.v = v /\ t.status = q.status
      BY <2>1
    <2>3. InvoiceStatus'[q.v] = q.status
      BY <2>1, StatusOfRowNext
    <2>4. InvoiceStatus[t.v] = t.status
      BY <2>2, StatusOfRow
    <2> QED
      BY <2>1, <2>2, <2>3, <2>4
  <1> QED
    BY <1>1, <1>2

\* Editing rows without merging two: each row of the next state comes from one row now,
\* of the same invoice and at least as far.
LEMMA EditStep ==
  ASSUME HoldingInv, RowsUnique', UNCHANGED <<voucher, keysFor>>,
         \A q \in rows' : \E r \in rows : r.v = q.v,
         \A r \in rows : \E q \in rows' : q.v = r.v /\ (r.status # "open" => q.status # "open")
  PROVE  /\ RowsRaised' /\ KeysOnce'
         /\ \A p \in Procs : Holds(proc[p], rows', voucher', keysFor')
  <1>1. RowsRaised'
    BY DEF HoldingInv, RowsRaised
  <1>2. \A v : Spent(v, rows) => Spent(v, rows')
    BY DEF Spent
  <1>3. KeysOnce'
    BY <1>2 DEF HoldingInv, KeysOnce
  <1>4. \A p \in Procs : Holds(proc[p], rows', voucher', keysFor')
    BY HoldsKept DEF HoldingInv, HandlersHold
  <1> QED
    BY <1>1, <1>3, <1>4

\* settle() books the invoice as paid: the contract's Settle.
LEMMA ClaimStep ==
  ASSUME TypeOK, HoldingInv, NEW p \in Procs, SettleClaim(p)
  PROVE  HoldingInv' /\ Contract!Next
  <1> DEFINE v == proc[p].v
  <1>1. proc[p] \in Local /\ v \in Vouchers
    BY DEF SettleClaim, At, HoldingInv, HandlersHold, Holds, TypeOK
  <1>2. CASE Done(p) /\ UNCHANGED <<rows, ghosts>>
    BY <1>2, QuietDone DEF SettleClaim, StillRaised, ghosts
  <1>3. ASSUME NEW r \in rows, Claimable(r, proc[p].v), rows' = (rows \ {r}) \cup {[r EXCEPT !.status = "paid"]},
               Booked(r.s, r.end), UNCHANGED <<keyMax, keysFor>>,
               Step(p, [proc[p] EXCEPT !.pc = "st_sign", !.s = r.s, !.end = r.end])
        PROVE  HoldingInv' /\ Contract!Next
    <2> DEFINE new == [r EXCEPT !.status = "paid"]
    <2> DEFINE h == [proc[p] EXCEPT !.pc = "st_sign", !.s = r.s, !.end = r.end]
    <2>1. /\ new.v = v /\ new.status = "paid" /\ new.s = r.s /\ new.start = r.start
          /\ r.v = v /\ r.status = "open" /\ r.s \in Subs /\ r.end \in Nat
      BY <1>3 DEF TypeOK, InvRow, Claimable
    <2>2. h.pc = "st_sign" /\ h.v = v
      BY <1>1 DEF Local
    <2>3. UNCHANGED voucher
      BY DEF SettleClaim
    <2>4. rows' = (rows \ {r}) \cup {new}
      BY <1>3
    <2> HIDE DEF new, h, v
    <2>5. RowsUnique'
      BY <2>1, <2>4 DEF HoldingInv, RowsUnique, SameInvoice
    <2>6. \A q \in rows' : \E t \in rows : t.v = q.v
      BY <2>1, <2>4
    <2>7. \A t \in rows : \E q \in rows' : q.v = t.v /\ (t.status # "open" => q.status # "open")
      <3>1. ASSUME NEW t \in rows PROVE \E q \in rows' : q.v = t.v /\ (t.status # "open" => q.status # "open")
        <4>1. CASE t = r
          BY <2>1, <2>4, <4>1
        <4>2. CASE t # r
          BY <2>4, <4>2
        <4> QED
          BY <4>1, <4>2
      <3> QED
        BY <3>1
    <2>8. /\ RowsRaised' /\ KeysOnce'
          /\ \A q \in Procs : Holds(proc[q], rows', voucher', keysFor')
      BY <1>3, <2>3, <2>5, <2>6, <2>7, EditStep
    <2>9. ~Spent(v, rows) /\ keysFor[v] = 0
      <3>1. ~Spent(v, rows)
        BY <2>1, <1>1 DEF HoldingInv, RowsUnique, SameInvoice, Spent, v
      <3> QED
        BY <3>1, <1>1 DEF HoldingInv, KeysOnce, TypeOK, v
    <2>10. Holds(h, rows', voucher', keysFor')
      <3>1. Spent(v, rows')
        BY <2>1, <2>4 DEF Spent
      <3> QED
        BY <1>1, <1>3, <2>2, <2>9, <3>1 DEF Holds, Carrying, v
    <2>11. \A q \in Procs : Apart(proc[q], h)
      BY <2>2, <2>9 DEF Apart, Carrying, HoldingInv, HandlersHold, Holds
    <2>12. HandlersHold' /\ HandlersApart'
      BY <1>3, <2>8, <2>10, <2>11, HandlersMove DEF HoldingInv, h
    <2>13. HoldingInv'
      BY <2>5, <2>8, <2>12 DEF HoldingInv
    <2>14. InvoiceStatus[v] = "open" /\ InvoiceStatus' = [InvoiceStatus EXCEPT ![v] = "paid"]
      <3>1. InvoiceStatus[r.v] = r.status /\ InvoiceStatus'[new.v] = new.status
        BY <1>1, <2>1, <2>4, <2>5, StatusOfRow, StatusOfRowNext DEF HoldingInv, v
      <3>2. ASSUME NEW w \in Vouchers \ {v} PROVE InvoiceStatus'[w] = InvoiceStatus[w]
        <4>1. \A q \in rows' : q.v = w => q \in rows
          BY <2>1, <2>4
        <4>2. \A q \in rows : q.v = w => q \in rows'
          BY <2>1, <2>4
        <4> QED
          BY <2>5, <4>1, <4>2, StatusKept DEF HoldingInv
      <3> QED
        <4>1. v \in Vouchers
          BY <1>1 DEF v
        <4>2. InvoiceStatus[v] = "open" /\ InvoiceStatus'[v] = "paid"
          BY <2>1, <3>1
        <4> QED
          BY <3>2, <4>1, <4>2 DEF InvoiceStatus
    <2>15. Owed' = Owed \cup {v}
      <3>1. proc'[p] = h /\ \A q \in Procs : q # p => proc'[q] = proc[q]
        BY <1>3 DEF Step, TypeOK, h
      <3>2. proc[p].pc # "st_sign"
        BY DEF SettleClaim, At
      <3> QED
        BY <1>1, <2>2, <3>1, <3>2 DEF Owed, At, v
    <2>16. /\ paidMax' = [paidMax EXCEPT ![r.s] = paidMax'[r.s]]
           /\ paidMax[r.s] <= paidMax'[r.s]
      BY <1>3, <2>1, Raising DEF Booked, TypeOK
    <2>17. Contract!Settle(v, r.s)
      BY <1>3, <2>14, <2>15, <2>16 DEF Contract!Settle, Contract!Book
    <2> QED
      BY <1>1, <2>1, <2>13, <2>17 DEF Contract!Next, v
  <1>4. \/ Done(p) /\ UNCHANGED <<rows, ghosts>>
        \/ \E r \in rows : /\ Claimable(r, proc[p].v)
                           /\ rows' = (rows \ {r}) \cup {[r EXCEPT !.status = "paid"]}
                           /\ Booked(r.s, r.end) /\ UNCHANGED <<keyMax, keysFor>>
                           /\ Step(p, [proc[p] EXCEPT !.pc = "st_sign", !.s = r.s, !.end = r.end])
    BY DEF SettleClaim
  <1> QED
    BY <1>2, <1>3, <1>4

\* settle() signs the key it owes: the contract's DeliverKey.
LEMMA SignStep ==
  ASSUME TypeOK, EntitlementInv, HoldingInv, NEW p \in Procs, SettleSign(p)
  PROVE  HoldingInv' /\ Contract!Next
  <1> DEFINE v == proc[p].v
  <1> DEFINE s == proc[p].s
  <1> DEFINE lim == proc[p].end + GraceDays
  <1>1. /\ proc[p] \in Local /\ proc[p].pc = "st_sign" /\ s \in Subs /\ lim \in Nat
        /\ v \in Vouchers /\ Spent(v, rows) /\ keysFor[v] = 0
        /\ lim <= paidMax[s] + GraceDays
    <2>1. proc[p] \in Local /\ proc[p].pc = "st_sign"
      BY DEF SettleSign, At, TypeOK
    <2>2. v \in Vouchers /\ Spent(v, rows) /\ keysFor[v] = 0
      BY <2>1 DEF HoldingInv, HandlersHold, Holds
    <2>3. proc[p].end <= paidMax[s]
      BY <2>1 DEF EntitlementInv, HandlersCovered, Within
    <2>4. s \in Subs /\ proc[p].end \in Nat /\ paidMax[s] \in Nat
      BY <2>1 DEF Local, TypeOK
    <2> QED
      BY <2>1, <2>2, <2>3, <2>4, PlanAssumption
  <1>2. CASE Done(p) /\ UNCHANGED ghosts
    BY <1>2, QuietDone DEF SettleSign, StillRaised, ghosts
  <1>3. ASSUME NEW l \in Lics, Signed(proc[p].s, proc[p].end + GraceDays),
               keysFor' = [keysFor EXCEPT ![proc[p].v] = @ + 1], UNCHANGED paidMax,
               Step(p, [proc[p] EXCEPT !.pc = "st_req", !.l = l, !.lim = proc[p].end + GraceDays])
        PROVE  HoldingInv' /\ Contract!Next
    <2> DEFINE h == [proc[p] EXCEPT !.pc = "st_req", !.l = l, !.lim = lim]
    <2>1. h.pc = "st_req"
      BY <1>1 DEF Local
    <2>2. UNCHANGED <<rows, voucher>>
      BY DEF SettleSign
    <2> HIDE DEF h, v, s, lim
    <2>3. KeysOnce'
      BY <1>1, <1>3, <2>2 DEF v, HoldingInv, KeysOnce, TypeOK
    <2>4. ASSUME NEW q \in Procs, q # p PROVE Holds(proc[q], rows', voucher', keysFor')
      <3>1. proc[q].pc = "st_sign" => proc[q].v # v
        BY <1>1, <2>4 DEF HoldingInv, HandlersApart, Apart, v
      <3>2. proc[q].pc = "st_sign" => keysFor'[proc[q].v] = keysFor[proc[q].v]
        BY <1>1, <1>3, <3>1 DEF v, TypeOK, HoldingInv, HandlersHold, Holds
      <3> QED
        BY <2>2, <3>2 DEF HoldingInv, HandlersHold, Holds
    <2>5. Holds(h, rows', voucher', keysFor') /\ \A q \in Procs : Apart(proc[q], h)
      BY <2>1 DEF Holds, Apart, Carrying
    <2>6. HandlersHold' /\ HandlersApart'
      BY <1>3, <2>4, <2>5, HandlersMove DEF HoldingInv, h, lim
    <2>7. HoldingInv'
      BY <2>2, <2>3, <2>6 DEF HoldingInv, RowsUnique, RowsRaised
    <2>8. v \in Owed /\ Owed' = Owed \ {v}
      <3>1. proc'[p] = h /\ \A q \in Procs : q # p => proc'[q] = proc[q]
        BY <1>3 DEF Step, TypeOK, h, lim
      <3>2. \A q \in Procs : q # p /\ proc[q].pc = "st_sign" => proc[q].v # v
        BY <1>1 DEF HoldingInv, HandlersApart, Apart, v
      <3>3. v \in Owed
        BY <1>1 DEF Owed, At, v
      <3>4. \A q \in Procs : proc'[q].pc = "st_sign" => q # p /\ proc[q] = proc'[q]
        BY <2>1, <3>1
      <3>5. Owed' \subseteq Owed \ {v}
        BY <3>2, <3>4 DEF Owed, At
      <3>6. Owed \ {v} \subseteq Owed'
        BY <3>1 DEF Owed, At, v
      <3> QED
        BY <3>3, <3>5, <3>6
    <2>9. /\ keyMax' = [keyMax EXCEPT ![s] = keyMax'[s]]
          /\ keyMax[s] <= keyMax'[s]
          /\ keyMax'[s] <= paidMax'[s] + GraceDays
      <3>1. keyMax' = [keyMax EXCEPT ![s] = Larger(@, lim)] /\ keyMax \in [Subs -> Nat]
        BY <1>3 DEF Signed, TypeOK, s, lim
      <3>2. keyMax' = [keyMax EXCEPT ![s] = keyMax'[s]] /\ keyMax[s] <= keyMax'[s]
        BY <1>1, <3>1, Raising
      <3>3. keyMax'[s] = Larger(keyMax[s], lim)
        BY <1>1, <3>1
      <3>4. keyMax'[s] <= paidMax[s] + GraceDays
        BY <1>1, <3>3 DEF Larger, EntitlementInv, KeyWithinPaid
      <3> QED
        BY <1>3, <3>2, <3>4
    <2>10. Contract!DeliverKey(v, s)
      BY <1>3, <2>2, <2>8, <2>9 DEF v, Contract!DeliverKey, Contract!Sign, InvoiceStatus
    <2> QED
      BY <1>1, <2>7, <2>10 DEF Contract!Next
  <1> QED
    BY <1>2, <1>3 DEF SettleSign, EntitledTo

\* A handler that edits rows in place and then holds nothing.
LEMMA EditMove ==
  ASSUME TypeOK, HoldingInv, RowsUnique', NEW p \in Procs, NEW h, Step(p, h), h.pc \notin Holding,
         proc[p].pc # "st_sign", UNCHANGED <<voucher, keysFor>>,
         \A q \in rows' : \E r \in rows : r.v = q.v,
         \A r \in rows : \E q \in rows' : q.v = r.v /\ (r.status # "open" => q.status # "open")
  PROVE  HoldingInv' /\ UNCHANGED Owed
  <1>1. /\ RowsRaised' /\ KeysOnce'
        /\ \A q \in Procs : Holds(proc[q], rows', voucher', keysFor')
    BY EditStep
  <1>2. Holds(h, rows', voucher', keysFor') /\ \A q \in Procs : Apart(proc[q], h)
    BY DEF Holds, Apart, Holding
  <1>3. HandlersHold' /\ HandlersApart'
    BY <1>1, <1>2, HandlersMove DEF HoldingInv
  <1>4. UNCHANGED Owed
    <2>1. h.pc # "st_sign"
      BY DEF Holding
    <2> QED
      BY <2>1, OwedShrinks
  <1> QED
    BY <1>1, <1>3, <1>4 DEF HoldingInv

\* Reconcile marks an invoice that is voided in Lexware: the contract's Void, or nothing
\* when it was marked already.
LEMMA VoidStep ==
  ASSUME TypeOK, HoldingInv, NEW p \in Procs, NEW i \in proc[p].todo, ReconcileVoid(p, i)
  PROVE  HoldingInv' /\ Contract!Next
  <1> DEFINE img(r) == IF r.v = i.v THEN Voided(r) ELSE r
  <1>1. \A r \in rows : /\ img(r).v = r.v /\ img(r).s = r.s /\ img(r).start = r.start
                        /\ img(r).status = IF r.v = i.v THEN "voided" ELSE r.status
    BY DEF TypeOK, InvRow, Voided
  <1>2. rows' = {img(r) : r \in rows}
    BY DEF ReconcileVoid
  <1>3. /\ UNCHANGED <<voucher, keysFor, paidMax, keyMax>> /\ proc[p].pc = "loop"
        /\ Step(p, Begin(proc[p].op, proc[p].todo \ {i}))
    BY DEF ReconcileVoid, ghosts, Loops, At, Skip
  <1> HIDE DEF img
  <1>4. RowsUnique'
    BY <1>1, <1>2 DEF HoldingInv, RowsUnique, SameInvoice
  <1>5. /\ \A q \in rows' : \E r \in rows : r.v = q.v
        /\ \A r \in rows : \E q \in rows' : q.v = r.v /\ (r.status # "open" => q.status # "open")
    BY <1>1, <1>2
  <1>6. Begin(proc[p].op, proc[p].todo \ {i}).pc \notin Holding
    BY BeginQuiet, QuietHolding
  <1>7. HoldingInv' /\ UNCHANGED Owed
    BY <1>3, <1>4, <1>5, <1>6, EditMove
  <1>8. ASSUME NEW v \in Vouchers, v # i.v PROVE InvoiceStatus'[v] = InvoiceStatus[v]
    <2>1. \A q \in rows' : q.v = v => \E r \in rows : r.v = v /\ r.status = q.status
      BY <1>1, <1>2, <1>8
    <2>2. \A r \in rows : r.v = v => \E q \in rows' : q.v = v
      BY <1>5
    <2> QED
      BY <1>4, <2>1, <2>2, StatusKept DEF HoldingInv
  <1>9. CASE \E r \in rows : r.v = i.v /\ r.v \in Vouchers /\ r.status # "voided"
    <2>1. PICK r \in rows : r.v = i.v /\ r.v \in Vouchers /\ r.status # "voided"
      BY <1>9
    <2>2. InvoiceStatus[r.v] \in {"open", "paid"}
      <3>1. r.status \in {"open", "paid", "voided"}
        BY DEF TypeOK, InvRow
      <3> QED
        BY <2>1, <3>1, StatusOfRow DEF HoldingInv
    <2>3. InvoiceStatus'[r.v] = "voided"
      <3>1. img(r) \in rows' /\ img(r).v = r.v /\ img(r).status = "voided"
        BY <1>1, <1>2, <2>1
      <3>2. InvoiceStatus'[img(r).v] = img(r).status
        BY <1>4, <2>1, <3>1, StatusOfRowNext
      <3> QED
        BY <3>1, <3>2
    <2>4. InvoiceStatus' = [InvoiceStatus EXCEPT ![r.v] = "voided"]
      <3>1. \A w \in Vouchers : w # r.v => InvoiceStatus'[w] = InvoiceStatus[w]
        BY <1>8, <2>1
      <3> QED
        <4>1. /\ InvoiceStatus = [w \in Vouchers |-> InvoiceStatus[w]]
              /\ InvoiceStatus' = [w \in Vouchers |-> InvoiceStatus'[w]]
          BY DEF InvoiceStatus
        <4> QED
          BY <2>1, <2>3, <3>1, <4>1
    <2>5. Contract!Void(r.v)
      BY <1>3, <1>7, <2>2, <2>4 DEF Contract!Void
    <2> QED
      BY <1>7, <2>1, <2>5 DEF Contract!Next
  <1>10. CASE \A r \in rows : r.v = i.v /\ r.v \in Vouchers => r.status = "voided"
    <2>1. ASSUME NEW v \in Vouchers, v = i.v PROVE InvoiceStatus'[v] = InvoiceStatus[v]
      <3>1. \A q \in rows' : q.v = v => \E r \in rows : r.v = v /\ r.status = q.status
        BY <1>1, <1>2, <1>10, <2>1
      <3>2. \A r \in rows : r.v = v => \E q \in rows' : q.v = v
        BY <1>5
      <3> QED
        BY <1>4, <3>1, <3>2, StatusKept DEF HoldingInv
    <2>2. UNCHANGED InvoiceStatus
      BY <1>8, <2>1 DEF InvoiceStatus
    <2> QED
      BY <1>3, <1>7, <2>2, StutterStep
  <1> QED
    BY <1>9, <1>10

\* SendReminder writes only reminded_at.
LEMMA RemindStep ==
  ASSUME TypeOK, HoldingInv, NEW p \in Procs, NEW stored \in BOOLEAN, RemindSend(p, stored)
  PROVE  HoldingInv' /\ Contract!Next
  <1> DEFINE img(r) == IF stored /\ r.v = proc[p].v THEN [r EXCEPT !.reminded = now] ELSE r
  <1>1. \A r \in rows : /\ img(r).v = r.v /\ img(r).s = r.s /\ img(r).start = r.start
                        /\ img(r).status = r.status
    BY DEF TypeOK, InvRow
  <1>2. rows' = {img(r) : r \in rows}
    BY DEF RemindSend
  <1>3. UNCHANGED <<voucher, keysFor, paidMax, keyMax>> /\ proc[p].pc = "rm_send"
    BY DEF RemindSend, At
  <1>4. PICK h : Step(p, h) /\ h.pc \in {"idle", "loop"}
    BY DoneQuiet DEF RemindSend
  <1> HIDE DEF img
  <1>5. RowsUnique'
    BY <1>1, <1>2 DEF HoldingInv, RowsUnique, SameInvoice
  <1>6. /\ \A q \in rows' : \E r \in rows : r.v = q.v /\ r.status = q.status
        /\ \A r \in rows : \E q \in rows' : q.v = r.v /\ q.status = r.status
    BY <1>1, <1>2
  <1>7. HoldingInv' /\ UNCHANGED Owed
    BY <1>3, <1>4, <1>5, <1>6, QuietHolding, EditMove
  <1>8. ASSUME NEW v \in Vouchers PROVE InvoiceStatus'[v] = InvoiceStatus[v]
    BY <1>5, <1>6, StatusKept DEF HoldingInv
  <1>9. UNCHANGED InvoiceStatus
    BY <1>8 DEF InvoiceStatus
  <1> QED
    BY <1>3, <1>7, <1>9, StutterStep

-----------------------------------------------------------------------------
(* Every step.                                                             *)

\* Every step of every operation keeps the invariant and is a step of the contract.
LEMMA RefinementStep ==
  TypeOK /\ EntitlementInv /\ HoldingInv /\ [Next]_vars => HoldingInv' /\ [Contract!Next]_(Contract!vars)
  <1> SUFFICES ASSUME TypeOK, EntitlementInv, HoldingInv, [Next]_vars
               PROVE  HoldingInv' /\ [Contract!Next]_(Contract!vars)
    OBVIOUS
  <1>1. ASSUME NEW s \in Subs, RequestQuote(s) PROVE HoldingInv' /\ Contract!Next
    BY <1>1, OutsideStep DEF RequestQuote, StillRaised, ghosts
  <1>2. ASSUME NEW s \in Subs, NEW free \in BOOLEAN, CreateSubscription(s, free) PROVE HoldingInv' /\ Contract!Next
    BY <1>2, OutsideStep DEF CreateSubscription, StillRaised, ghosts
  <1>3. ASSUME NEW s \in Subs, Cancel(s) PROVE HoldingInv' /\ Contract!Next
    BY <1>3, OutsideStep DEF Cancel, StillRaised, ghosts
  <1>4. ASSUME NEW l \in Lics, Revoke(l) PROVE HoldingInv' /\ Contract!Next
    BY <1>4, OutsideStep DEF Revoke, StillRaised, ghosts
  <1>5. ASSUME NEW v \in Vouchers, CustomerPays(v) PROVE HoldingInv' /\ Contract!Next
    <2>1. StillRaised
      BY <1>5 DEF CustomerPays, StillRaised, TypeOK
    <2> QED
      BY <1>5, <2>1, OutsideStep DEF CustomerPays, ghosts
  <1>6. ASSUME NEW v \in Vouchers, Storno(v) PROVE HoldingInv' /\ Contract!Next
    <2>1. StillRaised
      BY <1>6 DEF Storno, StillRaised, TypeOK
    <2> QED
      BY <1>6, <2>1, OutsideStep DEF Storno, ghosts
  <1>7. ASSUME Tick PROVE HoldingInv' /\ Contract!Next
    BY <1>7, OutsideStep DEF Tick, StillRaised, ghosts
  <1>8. ASSUME Restart PROVE HoldingInv' /\ Contract!Next
    <2>1. \A p \in Procs : proc'[p].pc = "idle"
      BY <1>8 DEF Restart, Idle
    <2>2. "idle" \notin Carrying
      BY DEF Carrying
    <2>3. HandlersHold' /\ HandlersApart'
      BY <2>1, <2>2 DEF HandlersHold, HandlersApart, Holds, Apart
    <2>4. HoldingInv'
      BY <1>8, <2>3 DEF Restart, ghosts, HoldingInv, RowsUnique, RowsRaised, KeysOnce
    <2>5. Owed' \subseteq Owed
      BY <2>1 DEF Owed, At
    <2> QED
      BY <1>8, <2>4, <2>5, StutterStep DEF Restart, ghosts, InvoiceStatus
  <1>9. ASSUME NEW p \in Procs, NEW s \in Subs, ApproveRequest(p, s) PROVE HoldingInv' /\ Contract!Next
    <2>1. Continues(proc[p], [Idle EXCEPT !.op = "approve", !.s = s,
                        !.pc = IF sub[s].free THEN "fr_row" ELSE "ap_invoice"])
      BY DEF Continues, Holding, Carrying, Idle
    <2> QED
      BY <1>9, <2>1, QuietStep DEF ApproveRequest, StillRaised, ghosts
  <1>10. ASSUME NEW p \in Procs, NEW v \in Vouchers, Webhook(p, v) PROVE HoldingInv' /\ Contract!Next
    <2> DEFINE h == [Idle EXCEPT !.op = "webhook", !.pc = "st_claim", !.v = v]
    <2>1. h.pc = "st_claim" /\ h.v = v
      BY DEF Idle
    <2>2. Continues(proc[p], h)
      BY <2>1 DEF Continues
    <2> QED
      BY <1>10, <2>2, QuietStep DEF Webhook, StillRaised, ghosts
  <1>11. ASSUME NEW p \in Procs, NEW s \in Subs, NEW org \in Orgs, IssueSeat(p, s, org) PROVE HoldingInv' /\ Contract!Next
    <2>1. Continues(proc[p], [Idle EXCEPT !.op = "issue", !.pc = "is_limit", !.s = s, !.org = org])
      BY DEF Continues, Holding, Carrying, Idle
    <2> QED
      BY <1>11, <2>1, QuietStep DEF IssueSeat, StillRaised, ghosts
  <1>12. ASSUME NEW p \in Procs, NEW v \in Vouchers, SendReminder(p, v) PROVE HoldingInv' /\ Contract!Next
    <2>1. Continues(proc[p], [Idle EXCEPT !.op = "remind", !.pc = "rm_send", !.v = v])
      BY DEF Continues, Holding, Carrying, Idle
    <2> QED
      BY <1>12, <2>1, QuietStep DEF SendReminder, StillRaised, ghosts
  <1>13. ASSUME NEW p \in Procs, NEW l \in Lics, GetLicense(p, l) PROVE HoldingInv' /\ Contract!Next
    <2>1. Continues(proc[p], [Idle EXCEPT !.op = "fetch", !.pc = "gl_limit", !.l = l, !.s = lic[l].s,
                        !.end = lic[l].expires])
      BY DEF Continues, Holding, Carrying, Idle
    <2> QED
      BY <1>13, <2>1, QuietStep DEF GetLicense, StillRaised, ghosts
  <1>14. ASSUME NEW p \in Procs, NEW s \in Subs, ConvertToPaid(p, s) PROVE HoldingInv' /\ Contract!Next
    <2>1. PICK q \in PaidRows(s) :
             Step(p, [Idle EXCEPT !.op = "convert", !.pc = "cv_flip", !.s = s, !.end = q.end])
      BY <1>14 DEF ConvertToPaid
    <2>2. Continues(proc[p], [Idle EXCEPT !.op = "convert", !.pc = "cv_flip", !.s = s, !.end = q.end])
      BY DEF Continues, Holding, Carrying, Idle
    <2> QED
      BY <1>14, <2>1, <2>2, QuietStep DEF ConvertToPaid, StillRaised, ghosts
  <1>15. ASSUME NEW p \in Procs, PollOnce(p) PROVE HoldingInv' /\ Contract!Next
    <2>1. PICK op, todo : Step(p, Begin(op, todo))
      BY <1>15 DEF PollOnce
    <2> QED
      BY <1>15, <2>1, QuietBegin DEF PollOnce, StillRaised, ghosts
  <1>16. ASSUME NEW p \in Procs, RenewOnce(p) PROVE HoldingInv' /\ Contract!Next
    <2>1. PICK op, todo : Step(p, Begin(op, todo))
      BY <1>16 DEF RenewOnce
    <2> QED
      BY <1>16, <2>1, QuietBegin DEF RenewOnce, StillRaised, ghosts
  <1>17. ASSUME NEW p \in Procs, MailExpiringOnce(p) PROVE HoldingInv' /\ Contract!Next
    <2>1. PICK op, todo : Step(p, Begin(op, todo))
      BY <1>17 DEF MailExpiringOnce
    <2> QED
      BY <1>17, <2>1, QuietBegin DEF MailExpiringOnce, StillRaised, ghosts
  <1>18. ASSUME NEW p \in Procs, NEW op \in {"reconcile", "panelcheck"}, Reconcile(p, op) PROVE HoldingInv' /\ Contract!Next
    <2>1. PICK todo : Step(p, [Idle EXCEPT !.op = op, !.pc = "rc_rows", !.todo = todo])
      BY <1>18 DEF Reconcile
    <2>2. Continues(proc[p], [Idle EXCEPT !.op = op, !.pc = "rc_rows", !.todo = todo])
      BY DEF Continues, Holding, Carrying, Idle
    <2> QED
      BY <1>18, <2>1, <2>2, QuietStep DEF Reconcile, StillRaised, ghosts
  <1>19. ASSUME NEW p \in Procs, ReconcileRows(p) PROVE HoldingInv' /\ Contract!Next
    <2>1. PICK op, todo : Step(p, Begin(op, todo))
      BY <1>19 DEF ReconcileRows
    <2> QED
      BY <1>19, <2>1, QuietBegin DEF ReconcileRows, StillRaised, ghosts
  <1>20. ASSUME NEW p \in Procs, NEW i \in proc[p].todo, ItemFails(p, i) PROVE HoldingInv' /\ Contract!Next
    <2>1. PICK op, todo : Step(p, Begin(op, todo))
      BY <1>20 DEF ItemFails, Skip
    <2> QED
      BY <1>20, <2>1, QuietBegin DEF ItemFails, StillRaised, ghosts
  <1>21. ASSUME NEW p \in Procs, NEW v \in Vouchers, ApproveInvoice(p, v) PROVE HoldingInv' /\ Contract!Next
    <2> DEFINE h == [proc[p] EXCEPT !.pc = "ap_row", !.v = v]
    <2>1. h.pc \in Carrying /\ h.v = v
      BY DEF TypeOK, Local, Carrying
    <2> QED
      BY <1>21, <2>1, RaiseStep DEF ApproveInvoice, ghosts
  <1>22. ASSUME NEW p \in Procs, NEW l \in Lics, ApproveRow(p, l) PROVE HoldingInv' /\ Contract!Next
    <2> DEFINE h == [proc[p] EXCEPT !.pc = "ap_key", !.l = l]
    <2>1. h.pc = "ap_key" /\ h.v = proc[p].v
      BY DEF TypeOK, Local
    <2>2. Continues(proc[p], h)
      BY <1>22, <2>1 DEF Continues, Carrying, ApproveRow, At
    <2> QED
      BY <1>22, <2>2, QuietStep DEF ApproveRow, StillRaised, ghosts
  <1>23. ASSUME NEW p \in Procs, NEW stored \in BOOLEAN, ApproveKey(p, stored) PROVE HoldingInv' /\ Contract!Next
    <2> DEFINE h == [proc[p] EXCEPT !.pc = "ap_tx"]
    <2>1. h.pc = "ap_tx" /\ h.v = proc[p].v
      BY DEF TypeOK, Local
    <2>2. Continues(proc[p], h)
      BY <1>23, <2>1 DEF Continues, Carrying, ApproveKey, At
    <2> QED
      BY <1>23, <2>2, QuietStep DEF ApproveKey, StillRaised, ghosts
  <1>24. ASSUME NEW p \in Procs, ApproveCommit(p) PROVE HoldingInv' /\ Contract!Next
    <2> DEFINE row == [v |-> proc[p].v, s |-> proc[p].s, start |-> now, end |-> now + Period,
                       status |-> "open", made |-> now, reminded |-> NULL]
    <2>1. PICK h : Step(p, h) /\ h.pc \in {"idle", "loop"}
      BY <1>24, DoneQuiet DEF ApproveCommit
    <2>2. proc[p].pc \in Carrying /\ row.v = proc[p].v /\ row.status = "open"
      BY <1>24 DEF ApproveCommit, At, Carrying
    <2> QED
      BY <1>24, <2>1, <2>2, QuietHolding, RecordStep DEF ApproveCommit, ghosts
  <1>25. ASSUME NEW p \in Procs, NEW l \in Lics, FreeRow(p, l) PROVE HoldingInv' /\ Contract!Next
    <2>1. Continues(proc[p], [proc[p] EXCEPT !.pc = "fr_tx", !.l = l])
      BY DEF Continues, Holding, Carrying, TypeOK, Local
    <2> QED
      BY <1>25, <2>1, QuietStep DEF FreeRow, StillRaised, ghosts
  <1>26. ASSUME NEW p \in Procs, FreeCommit(p) PROVE HoldingInv' /\ Contract!Next
    <2> DEFINE s == proc[p].s
    <2> DEFINE end == now + Period
    <2> DEFINE row == [v |-> NoVoucher, s |-> s, start |-> now, end |-> end,
                       status |-> "paid", made |-> now, reminded |-> NULL]
    <2>1. s \in Subs /\ now \in Nat /\ end \in Nat /\ end + GraceDays \in Nat
      BY PlanAssumption, BoundsAssumption DEF TypeOK, Local
    <2>2. CASE FreeRefTaken(s, now)
      BY <1>26, <2>2, QuietDone DEF FreeCommit, StillRaised, ghosts
    <2>3. CASE ~FreeRefTaken(s, now)
      <3>1. /\ paidMax' = [paidMax EXCEPT ![s] = Larger(@, end)]
            /\ keyMax' = [keyMax EXCEPT ![s] = Larger(@, end + GraceDays)]
            /\ rows' = rows \cup {row}
        BY <1>26, <2>3 DEF FreeCommit, FreePeriod, Booked, Signed
      <3>9. UNCHANGED <<voucher, keysFor>> /\ proc[p].pc # "st_sign"
        BY <1>26, <2>3 DEF FreeCommit, At
      <3>2. row.v = NoVoucher /\ row.s = s /\ row.start = now
        OBVIOUS
      <3>3. PICK h : Step(p, h) /\ h.pc \in {"idle", "loop"}
        BY <1>26, DoneQuiet DEF FreeCommit
      <3> HIDE DEF s, end, row
      <3>4. HoldingInv' /\ UNCHANGED <<InvoiceStatus, Owed>>
        BY <2>3, <3>1, <3>2, <3>3, <3>9, QuietHolding, FreeRowStep
      <3>5. paidMax \in [Subs -> Nat] /\ keyMax \in [Subs -> Nat] /\ keyMax[s] <= paidMax[s] + GraceDays
        BY <2>1 DEF TypeOK, EntitlementInv, KeyWithinPaid
      <3>6. /\ paidMax' = [paidMax EXCEPT ![s] = paidMax'[s]] /\ paidMax[s] <= paidMax'[s]
            /\ keyMax' = [keyMax EXCEPT ![s] = keyMax'[s]] /\ keyMax[s] <= keyMax'[s]
        <4>1. /\ paidMax' = [paidMax EXCEPT ![s] = Larger(paidMax[s], end)]
              /\ keyMax' = [keyMax EXCEPT ![s] = Larger(keyMax[s], end + GraceDays)]
          BY <3>1
        <4>2. paidMax' = [paidMax EXCEPT ![s] = paidMax'[s]] /\ paidMax[s] <= paidMax'[s]
          BY <2>1, <3>5, <4>1, Raising
        <4>3. keyMax' = [keyMax EXCEPT ![s] = keyMax'[s]] /\ keyMax[s] <= keyMax'[s]
          BY <2>1, <3>5, <4>1, Raising
        <4> QED
          BY <4>2, <4>3
      <3>7. keyMax'[s] <= paidMax'[s] + GraceDays
        <4>1. paidMax'[s] = Larger(paidMax[s], end) /\ keyMax'[s] = Larger(keyMax[s], end + GraceDays)
          BY <2>1, <3>1, <3>5
        <4>2. paidMax[s] \in Nat /\ keyMax[s] \in Nat
          BY <2>1, <3>5
        <4> QED
          BY <2>1, <3>5, <4>1, <4>2, PlanAssumption DEF Larger
      <3>8. Contract!Grant(s)
        BY <3>4, <3>6, <3>7, <3>9 DEF Contract!Grant, Contract!Book, Contract!Sign
      <3> QED
        BY <2>1, <3>4, <3>8 DEF Contract!Next
    <2> QED
      BY <2>2, <2>3
  <1>27. ASSUME NEW p \in Procs, NEW i \in proc[p].todo, PollItem(p, i) PROVE HoldingInv' /\ Contract!Next
    <2> DEFINE h == [[Idle EXCEPT !.pc = "st_claim", !.v = i.v]
                       EXCEPT !.op = proc[p].op, !.todo = proc[p].todo \ {i}]
    <2>1. CASE Skip(p, i)
      BY <1>27, <2>1, QuietBegin DEF PollItem, Skip, StillRaised, ghosts
    <2>2. CASE WorkOn(p, i, [Idle EXCEPT !.pc = "st_claim", !.v = i.v])
      <3>1. h.pc = "st_claim" /\ h.v = i.v
        BY DEF Idle
      <3>2. Continues(proc[p], h)
        BY <1>27, <3>1 DEF Continues, PollItem
      <3> QED
        BY <1>27, <2>2, <3>2, QuietStep DEF PollItem, WorkOn, StillRaised, ghosts
    <2> QED
      BY <1>27, <2>1, <2>2 DEF PollItem
  <1>28. ASSUME NEW p \in Procs, SettleClaim(p) PROVE HoldingInv' /\ Contract!Next
    BY <1>28, ClaimStep
  <1>29. ASSUME NEW p \in Procs, SettleSign(p) PROVE HoldingInv' /\ Contract!Next
    BY <1>29, SignStep
  <1>30. ASSUME NEW p \in Procs, NEW stored \in BOOLEAN, SettleRequest(p, stored) PROVE HoldingInv' /\ Contract!Next
    <2>1. Continues(proc[p], [proc[p] EXCEPT !.pc = "st_lic"])
      BY DEF Continues, Holding, Carrying, TypeOK, Local
    <2> QED
      BY <1>30, <2>1, QuietStep DEF SettleRequest, StillRaised, ghosts
  <1>31. ASSUME NEW p \in Procs, SettleLicence(p) PROVE HoldingInv' /\ Contract!Next
    BY <1>31, QuietDone DEF SettleLicence, StillRaised, ghosts
  <1>32. ASSUME NEW p \in Procs, NEW i \in proc[p].todo, RenewItem(p, i) PROVE HoldingInv' /\ Contract!Next
    <2> DEFINE h == [[Idle EXCEPT !.pc = RenewsBy(i), !.s = i.s, !.end = i.date]
                       EXCEPT !.op = proc[p].op, !.todo = proc[p].todo \ {i}]
    <2>1. h.pc \in {"rf_row", "rn_invoice"}
      BY DEF Idle, RenewsBy
    <2>2. Continues(proc[p], h)
      BY <2>1 DEF Continues, Holding, Carrying
    <2> QED
      BY <1>32, <2>2, QuietStep DEF RenewItem, WorkOn, StillRaised, ghosts
  <1>33. ASSUME NEW p \in Procs, NEW v \in Vouchers, RenewInvoice(p, v) PROVE HoldingInv' /\ Contract!Next
    <2> DEFINE h == [proc[p] EXCEPT !.pc = "rn_row", !.v = v]
    <2>1. h.pc \in Carrying /\ h.v = v
      BY DEF TypeOK, Local, Carrying
    <2> QED
      BY <1>33, <2>1, RaiseStep DEF RenewInvoice, ghosts
  <1>34. ASSUME NEW p \in Procs, RenewRow(p) PROVE HoldingInv' /\ Contract!Next
    <2> DEFINE row == [v |-> proc[p].v, s |-> proc[p].s, start |-> proc[p].end,
                       end |-> proc[p].end + Period, status |-> "open", made |-> now, reminded |-> NULL]
    <2> DEFINE h == [proc[p] EXCEPT !.pc = "rn_clear"]
    <2>1. h.pc \notin Holding
      BY DEF TypeOK, Local, Holding, Carrying
    <2>2. proc[p].pc \in Carrying /\ row.v = proc[p].v /\ row.status = "open"
      BY <1>34 DEF RenewRow, At, Carrying
    <2> QED
      BY <1>34, <2>1, <2>2, RecordStep DEF RenewRow, ghosts
  <1>35. ASSUME NEW p \in Procs, RenewClear(p) PROVE HoldingInv' /\ Contract!Next
    BY <1>35, QuietDone DEF RenewClear, StillRaised, ghosts
  <1>36. ASSUME NEW p \in Procs, RenewFreeRow(p) PROVE HoldingInv' /\ Contract!Next
    <2> DEFINE s == proc[p].s
    <2> DEFINE end == proc[p].end + Period
    <2> DEFINE row == [v |-> NoVoucher, s |-> s, start |-> proc[p].end, end |-> end,
                       status |-> "paid", made |-> now, reminded |-> NULL]
    <2> DEFINE h == [proc[p] EXCEPT !.pc = "rf_next"]
    <2>1. s \in Subs /\ end \in Nat
      BY PlanAssumption DEF TypeOK, Local
    <2>2. CASE FreeRefTaken(s, proc[p].end)
      BY <1>36, <2>2, QuietDone DEF RenewFreeRow, StillRaised, ghosts
    <2>3. CASE ~FreeRefTaken(s, proc[p].end)
      <3>1. /\ paidMax' = [paidMax EXCEPT ![s] = Larger(@, end)]
            /\ rows' = rows \cup {row} /\ UNCHANGED keyMax /\ Step(p, h)
        BY <1>36, <2>3 DEF RenewFreeRow, FreePeriod, Booked
      <3>6. UNCHANGED <<voucher, keysFor>> /\ proc[p].pc # "st_sign"
        BY <1>36, <2>3 DEF RenewFreeRow, At
      <3>2. row.v = NoVoucher /\ row.s = s /\ row.start = proc[p].end /\ h.pc \notin Holding
        BY DEF TypeOK, Local, Holding, Carrying
      <3> HIDE DEF s, end, row, h
      <3>3. HoldingInv' /\ UNCHANGED <<InvoiceStatus, Owed>>
        BY <2>3, <3>1, <3>2, <3>6, FreeRowStep
      <3>4. paidMax' = [paidMax EXCEPT ![s] = paidMax'[s]] /\ paidMax[s] <= paidMax'[s]
        <4>1. paidMax \in [Subs -> Nat]
          BY DEF TypeOK
        <4>2. paidMax' = [paidMax EXCEPT ![s] = Larger(paidMax[s], end)]
          BY <3>1
        <4> QED
          BY <2>1, <4>1, <4>2, Raising
      <3>5. Contract!Grant(s)
        BY <3>1, <3>3, <3>4, <3>6 DEF Contract!Grant, Contract!Book
      <3> QED
        BY <2>1, <3>3, <3>5 DEF Contract!Next
    <2> QED
      BY <2>2, <2>3
  <1>37. ASSUME NEW p \in Procs, RenewFreeNext(p) PROVE HoldingInv' /\ Contract!Next
    BY <1>37, QuietDone DEF RenewFreeNext, StillRaised, ghosts
  <1>38. ASSUME NEW p \in Procs, NEW invoiceNow \in BOOLEAN, ConvertFlip(p, invoiceNow) PROVE HoldingInv' /\ Contract!Next
    <2>1. CASE Done(p)
      BY <1>38, <2>1, QuietDone DEF ConvertFlip, StillRaised, ghosts
    <2>2. CASE Step(p, [proc[p] EXCEPT !.pc = "rn_invoice", !.end = now])
      <3>1. Continues(proc[p], [proc[p] EXCEPT !.pc = "rn_invoice", !.end = now])
        BY DEF Continues, Holding, Carrying, TypeOK, Local
      <3> QED
        BY <1>38, <2>2, <3>1, QuietStep DEF ConvertFlip, StillRaised, ghosts
    <2> QED
      BY <1>38, <2>1, <2>2 DEF ConvertFlip
  <1>39. ASSUME NEW p \in Procs, GetLicenseLimit(p) PROVE HoldingInv' /\ Contract!Next
    <2>1. CASE Done(p)
      BY <1>39, <2>1, QuietDone DEF GetLicenseLimit, StillRaised, ghosts
    <2>2. ASSUME NEW lim \in Limits(proc[p].s), Step(p, [proc[p] EXCEPT !.pc = "gl_sign", !.lim = lim])
          PROVE  HoldingInv' /\ Contract!Next
      <3>1. Continues(proc[p], [proc[p] EXCEPT !.pc = "gl_sign", !.lim = lim])
        BY DEF Continues, Holding, Carrying, TypeOK, Local
      <3> QED
        BY <1>39, <2>2, <3>1, QuietStep DEF GetLicenseLimit, StillRaised, ghosts
    <2> QED
      BY <1>39, <2>1, <2>2 DEF GetLicenseLimit
  <1>40. ASSUME NEW p \in Procs, GetLicenseSign(p) PROVE HoldingInv' /\ Contract!Next
    <2>1. proc[p] \in Local /\ Within(proc[p], paidMax) /\ proc[p].pc = "gl_sign"
      BY <1>40 DEF TypeOK, EntitlementInv, HandlersCovered, GetLicenseSign, At
    <2>2. proc[p].s \in Subs /\ proc[p].lim \in Nat /\ proc[p].lim <= paidMax[proc[p].s] + GraceDays
      BY <2>1 DEF Within, Local
    <2>3. Signed(proc[p].s, proc[p].lim) \/ UNCHANGED keyMax
      BY <1>40 DEF GetLicenseSign
    <2> QED
      BY <1>40, <2>1, <2>2, <2>3, SigningStep DEF GetLicenseSign, EntitlementInv, StillRaised
  <1>41. ASSUME NEW p \in Procs, NEW i \in proc[p].todo, MailItem(p, i) PROVE HoldingInv' /\ Contract!Next
    <2> DEFINE h(lim) == [[Idle EXCEPT !.pc = "ml_sign", !.l = i.l, !.s = i.s, !.lim = lim]
                            EXCEPT !.op = proc[p].op, !.todo = proc[p].todo \ {i}]
    <2>1. CASE Skip(p, i)
      BY <1>41, <2>1, QuietBegin DEF MailItem, Skip, StillRaised, ghosts
    <2>2. ASSUME NEW lim \in Limits(i.s), Step(p, h(lim)) PROVE HoldingInv' /\ Contract!Next
      <3>1. Continues(proc[p], h(lim))
        BY DEF Continues, Holding, Carrying, Idle
      <3> QED
        BY <1>41, <2>2, <3>1, QuietStep DEF MailItem, StillRaised, ghosts
    <2> QED
      BY <1>41, <2>1, <2>2 DEF MailItem, WorkOn
  <1>42. ASSUME NEW p \in Procs, NEW stored \in BOOLEAN, MailSign(p, stored) PROVE HoldingInv' /\ Contract!Next
    <2>1. proc[p] \in Local /\ Within(proc[p], paidMax) /\ proc[p].pc = "ml_sign"
      BY <1>42 DEF TypeOK, EntitlementInv, HandlersCovered, MailSign, At
    <2>2. proc[p].s \in Subs /\ proc[p].lim \in Nat /\ proc[p].lim <= paidMax[proc[p].s] + GraceDays
      BY <2>1 DEF Within, Local
    <2>3. Signed(proc[p].s, proc[p].lim) \/ UNCHANGED keyMax
      BY <1>42 DEF MailSign
    <2> QED
      BY <1>42, <2>1, <2>2, <2>3, SigningStep DEF MailSign, EntitlementInv, StillRaised
  <1>43. ASSUME NEW p \in Procs, IssueLimit(p) PROVE HoldingInv' /\ Contract!Next
    <2>1. CASE Done(p)
      BY <1>43, <2>1, QuietDone DEF IssueLimit, StillRaised, ghosts
    <2>2. ASSUME NEW lim \in Limits(proc[p].s), Step(p, [proc[p] EXCEPT !.pc = "is_row", !.lim = lim])
          PROVE  HoldingInv' /\ Contract!Next
      <3>1. Continues(proc[p], [proc[p] EXCEPT !.pc = "is_row", !.lim = lim])
        BY DEF Continues, Holding, Carrying, TypeOK, Local
      <3> QED
        BY <1>43, <2>2, <3>1, QuietStep DEF IssueLimit, StillRaised, ghosts
    <2> QED
      BY <1>43, <2>1, <2>2 DEF IssueLimit
  <1>44. ASSUME NEW p \in Procs, NEW l \in Lics, IssueRow(p, l) PROVE HoldingInv' /\ Contract!Next
    <2>1. Continues(proc[p], [proc[p] EXCEPT !.pc = "is_key", !.l = l])
      BY DEF Continues, Holding, Carrying, TypeOK, Local
    <2> QED
      BY <1>44, <2>1, QuietStep DEF IssueRow, StillRaised, ghosts
  <1>45. ASSUME NEW p \in Procs, NEW outcome, IssueKey(p, outcome) PROVE HoldingInv' /\ Contract!Next
    <2>1. proc[p] \in Local /\ Within(proc[p], paidMax) /\ proc[p].pc = "is_key"
      BY <1>45 DEF TypeOK, EntitlementInv, HandlersCovered, IssueKey, At
    <2>2. proc[p].s \in Subs /\ proc[p].lim \in Nat /\ proc[p].lim <= paidMax[proc[p].s] + GraceDays
      BY <2>1 DEF Within, Local
    <2>3. Signed(proc[p].s, proc[p].lim) \/ UNCHANGED keyMax
      BY <1>45 DEF IssueKey
    <2> QED
      BY <1>45, <2>1, <2>2, <2>3, SigningStep DEF IssueKey, EntitlementInv, StillRaised
  <1>46. ASSUME NEW p \in Procs, NEW i \in proc[p].todo, ReconcileVoid(p, i) PROVE HoldingInv' /\ Contract!Next
    BY <1>46, VoidStep
  <1>47. ASSUME NEW p \in Procs, NEW stored \in BOOLEAN, RemindSend(p, stored) PROVE HoldingInv' /\ Contract!Next
    BY <1>47, RemindStep
  <1>48. ASSUME NEW p \in Procs, CallFails(p) PROVE HoldingInv' /\ Contract!Next
    <2>1. CASE Step(p, Idle)
      <3>1. Continues(proc[p], Idle)
        BY DEF Continues, Holding, Carrying, Idle
      <3> QED
        BY <1>48, <2>1, <3>1, QuietStep DEF CallFails, StillRaised, ghosts
    <2>2. CASE Done(p)
      BY <1>48, <2>2, QuietDone DEF CallFails, StillRaised, ghosts
    <2> QED
      BY <1>48, <2>1, <2>2 DEF CallFails
  <1>49. ASSUME UNCHANGED vars PROVE HoldingInv' /\ Contract!Next
    BY <1>49, OutsideStep DEF vars, StillRaised
  <1> QED
    BY <1>1, <1>2, <1>3, <1>4, <1>5, <1>6, <1>7, <1>8, <1>9, <1>10, <1>11, <1>12, <1>13,
       <1>14, <1>15, <1>16, <1>17, <1>18, <1>19, <1>20, <1>21, <1>22, <1>23, <1>24,
       <1>25, <1>26, <1>27, <1>28, <1>29, <1>30, <1>31, <1>32, <1>33, <1>34, <1>35,
       <1>36, <1>37, <1>38, <1>39, <1>40, <1>41, <1>42, <1>43, <1>44, <1>45, <1>46,
       <1>47, <1>48, <1>49 DEF Next, HandlerStart, HandlerStep

\* The empty tables are the contract's.
LEMMA RefinementInit == Init => Contract!Init
  <1> SUFFICES ASSUME Init PROVE Contract!Init
    OBVIOUS
  <1>1. \A p \in Procs : proc[p].pc = "idle"
    BY DEF Init, Idle
  <1>2. Owed = {}
    BY <1>1 DEF Owed, At
  <1>3. InvoiceStatus = [v \in Vouchers |-> "none"]
    BY DEF Init, InvoiceStatus
  <1> QED
    BY <1>2, <1>3 DEF Init, Contract!Init

\* The package's promise as a whole: seen through its books, its handlers, sweeps, retries,
\* failures and restarts do nothing but the atomic steps of BillingContract.
THEOREM BillingImplementsContract == Spec => ImplementsContract
  <1>1. TypeOK /\ EntitlementInv /\ HoldingInv /\ [Next]_vars => (TypeOK /\ EntitlementInv /\ HoldingInv)'
    BY TypeStep, EntitlementStep, RefinementStep
  <1>2. TypeOK /\ EntitlementInv /\ HoldingInv /\ [Next]_vars => [Contract!Next]_(Contract!vars)
    BY RefinementStep
  <1>3. Init => TypeOK /\ EntitlementInv /\ HoldingInv /\ Contract!Init
    BY InitType, InitEntitlement, InitHolding, RefinementInit
  <1> QED
    BY <1>1, <1>2, <1>3, PTL DEF Spec, ImplementsContract, Contract!Spec

\* settle(): webhooks (replayed or concurrent) and the poller sign at most one key on
\* account of one invoice, for any number of them.
THEOREM AtMostOneKeyPerInvoice == Spec => []OneKeyPerInvoice
  <1>1. TypeOK /\ EntitlementInv /\ HoldingInv /\ [Next]_vars => (TypeOK /\ EntitlementInv /\ HoldingInv)'
    BY TypeStep, EntitlementStep, RefinementStep
  <1>2. HoldingInv => OneKeyPerInvoice
    BY DEF HoldingInv, KeysOnce, OneKeyPerInvoice
  <1>3. Init => TypeOK /\ EntitlementInv /\ HoldingInv
    BY InitType, InitEntitlement, InitHolding
  <1> QED
    BY <1>1, <1>2, <1>3, PTL DEF Spec

-----------------------------------------------------------------------------
(* Finality.                                                               *)

\* A voided row stays voided, a booked one is not opened again.
Final(r, q) == /\ r.status = "voided" => q.status = "voided"
               /\ r.status = "paid" => q.status # "open"

\* A new row of an invoice or a free period that has none is no row's successor.
LEMMA NewRowFinal ==
  ASSUME RowsUnique, NEW row, rows' = rows \cup {row},
         \A r \in rows : ~(row.v = r.v /\ row.s = r.s /\ row.start = r.start)
  PROVE  \A r \in rows, q \in rows' : q.v = r.v /\ q.s = r.s /\ q.start = r.start => Final(r, q)
  BY DEF RowsUnique, SameInvoice, Final

\* Every step leaves what was booked as paid and what was voided that way.
LEMMA FinalityStep ==
  ASSUME TypeOK, HoldingInv, [Next]_vars
  PROVE  \A r \in rows, q \in rows' : q.v = r.v /\ q.s = r.s /\ q.start = r.start => Final(r, q)
  <1> DEFINE Goal == \A r \in rows, q \in rows' : q.v = r.v /\ q.s = r.s /\ q.start = r.start => Final(r, q)
  <1>0. \A r, q \in rows : q.v = r.v /\ q.s = r.s /\ q.start = r.start => q = r
    BY DEF HoldingInv, RowsUnique, SameInvoice
  <1>1. CASE UNCHANGED rows
    BY <1>0, <1>1 DEF Final
  <1>2. ASSUME NEW p \in Procs, proc[p].pc \in Carrying PROVE \A r \in rows : r.v # proc[p].v
    BY <1>2 DEF HoldingInv, HandlersHold, Holds
  <1>3. ASSUME NEW p \in Procs, ApproveCommit(p) PROVE Goal
    <2> DEFINE row == [v |-> proc[p].v, s |-> proc[p].s, start |-> now,
                       end |-> now + Period, status |-> "open", made |-> now, reminded |-> NULL]
    <2>1. rows' = rows \cup {row} /\ row.v = proc[p].v
      BY <1>3 DEF ApproveCommit
    <2>2. proc[p].pc \in Carrying
      BY <1>3 DEF ApproveCommit, At, Carrying
    <2> HIDE DEF row
    <2>3. \A r \in rows : ~(row.v = r.v /\ row.s = r.s /\ row.start = r.start)
      BY <1>2, <2>1, <2>2
    <2> QED
      BY <2>1, <2>3, NewRowFinal DEF HoldingInv
  <1>4. ASSUME NEW p \in Procs, RenewRow(p) PROVE Goal
    <2> DEFINE row == [v |-> proc[p].v, s |-> proc[p].s, start |-> proc[p].end,
                       end |-> proc[p].end + Period, status |-> "open", made |-> now, reminded |-> NULL]
    <2>1. rows' = rows \cup {row} /\ row.v = proc[p].v
      BY <1>4 DEF RenewRow
    <2>2. proc[p].pc \in Carrying
      BY <1>4 DEF RenewRow, At, Carrying
    <2> HIDE DEF row
    <2>3. \A r \in rows : ~(row.v = r.v /\ row.s = r.s /\ row.start = r.start)
      BY <1>2, <2>1, <2>2
    <2> QED
      BY <2>1, <2>3, NewRowFinal DEF HoldingInv
  <1>5. ASSUME NEW s \in Subs, NEW start, ~FreeRefTaken(s, start), FreePeriod(s, start) PROVE Goal
    <2> DEFINE row == [v |-> NoVoucher, s |-> s, start |-> start,
                       end |-> start + Period, status |-> "paid", made |-> now, reminded |-> NULL]
    <2>1. rows' = rows \cup {row} /\ row.v = NoVoucher /\ row.s = s /\ row.start = start
      BY <1>5 DEF FreePeriod
    <2> HIDE DEF row
    <2>2. \A r \in rows : ~(row.v = r.v /\ row.s = r.s /\ row.start = r.start)
      BY <1>5, <2>1 DEF FreeRefTaken
    <2> QED
      BY <2>1, <2>2, NewRowFinal DEF HoldingInv
  <1>6. ASSUME NEW p \in Procs, FreeCommit(p) PROVE Goal
    <2>1. proc[p].s \in Subs
      BY DEF TypeOK, Local
    <2> QED
      BY <1>1, <1>5, <1>6, <2>1 DEF FreeCommit
  <1>7. ASSUME NEW p \in Procs, RenewFreeRow(p) PROVE Goal
    <2>1. proc[p].s \in Subs
      BY DEF TypeOK, Local
    <2> QED
      BY <1>1, <1>5, <1>7, <2>1 DEF RenewFreeRow
  <1>8. ASSUME NEW p \in Procs, SettleClaim(p) PROVE Goal
    <2>1. ASSUME NEW r \in rows, Claimable(r, proc[p].v),
                 rows' = (rows \ {r}) \cup {[r EXCEPT !.status = "paid"]}
          PROVE  Goal
      <3> DEFINE new == [r EXCEPT !.status = "paid"]
      <3>1. new.v = r.v /\ new.s = r.s /\ new.start = r.start /\ new.status = "paid" /\ r.status = "open"
        BY <2>1 DEF TypeOK, InvRow, Claimable
      <3>2. rows' = (rows \ {r}) \cup {new}
        BY <2>1
      <3> HIDE DEF new
      <3> QED
        BY <1>0, <3>1, <3>2 DEF Final
    <2>2. UNCHANGED rows \/ \E r \in rows : /\ Claimable(r, proc[p].v)
                                            /\ rows' = (rows \ {r}) \cup {[r EXCEPT !.status = "paid"]}
      BY <1>8 DEF SettleClaim
    <2> QED
      BY <1>1, <2>1, <2>2
  <1>9. ASSUME NEW p \in Procs, NEW i \in proc[p].todo, ReconcileVoid(p, i) PROVE Goal
    <2> DEFINE new(r) == [r EXCEPT !.status = "voided"]
    <2>1. \A q \in rows' : \E r \in rows : q = r \/ q = new(r)
      BY <1>9 DEF ReconcileVoid, Voided
    <2>2. \A r \in rows : /\ new(r).v = r.v /\ new(r).s = r.s /\ new(r).start = r.start
                          /\ new(r).status = "voided"
      BY DEF TypeOK, InvRow
    <2> HIDE DEF new
    <2> QED
      BY <1>0, <2>1, <2>2 DEF Final
  <1>10. ASSUME NEW p \in Procs, NEW stored \in BOOLEAN, RemindSend(p, stored) PROVE Goal
    <2> DEFINE new(r) == [r EXCEPT !.reminded = now]
    <2>1. \A q \in rows' : \E r \in rows : q = r \/ q = new(r)
      BY <1>10 DEF RemindSend
    <2>2. \A r \in rows : /\ new(r).v = r.v /\ new(r).s = r.s /\ new(r).start = r.start
                          /\ new(r).status = r.status
      BY DEF TypeOK, InvRow
    <2> HIDE DEF new
    <2> QED
      BY <1>0, <2>1, <2>2 DEF Final
  <1> QED
    BY <1>1, <1>3, <1>4, <1>6, <1>7, <1>8, <1>9, <1>10, TableWriters DEF RowsWritten

\* settle(), renewOnce, Reconcile: a voided invoice is never booked as paid again and a
\* paid one never reopened, however many handlers claim, record, void and remind at once.
THEOREM InvoicesAreFinal == Spec => InvoiceFinality
  <1>1. TypeOK /\ EntitlementInv /\ HoldingInv /\ [Next]_vars => (TypeOK /\ EntitlementInv /\ HoldingInv)'
    BY TypeStep, EntitlementStep, RefinementStep
  <1>2. TypeOK /\ HoldingInv /\ [Next]_vars =>
           [\A r \in rows : \A q \in rows' :
              (q.v = r.v /\ q.s = r.s /\ q.start = r.start) =>
                 /\ r.status = "voided" => q.status = "voided"
                 /\ r.status = "paid" => q.status # "open"]_vars
    BY FinalityStep DEF Final
  <1>3. Init => TypeOK /\ EntitlementInv /\ HoldingInv
    BY InitType, InitEntitlement, InitHolding
  <1> QED
    BY <1>1, <1>2, <1>3, PTL DEF Spec, InvoiceFinality

-----------------------------------------------------------------------------
(* The billing cycle, while nothing fails.                                 *)

\* An invoice of s somebody can still act on: open, voided, or paid and being settled.
Pending(s) ==
    \/ \E r \in rows : r.s = s /\ r.status \in {"open", "voided"}
    \/ \E p \in Procs : proc[p].s = s /\ proc[p].pc \in {"st_sign", "st_req"}
\* Otherwise the subscription is paid and, unless cancelled, has its next date.
Turning(s) == sub[s].status = "paid" /\ (sub[s].cancelled \/ sub[s].next # NULL)

\* An invoice which is not mailed yet is not paid, and nobody settles it.
NeverPaid(v) ==
    /\ voucher[v].st \in {"open", "voided"}
    /\ \A p \in Procs : At(p, "st_claim") => proc[p].v # v
    /\ \A r \in rows : r.v = v => r.status # "paid"

Invoiced(s) == \E r \in rows : r.s = s
CycleInv ==
    /\ \A s \in Subs : Invoiced(s) => Pending(s) \/ Turning(s)
    /\ \A s \in Subs : sub[s].status = "paid" => Invoiced(s)
    /\ \A r \in rows : r.end >= Period
    /\ \A p \in Procs : proc[p].pc \in {"st_sign", "st_req", "cv_flip"} => proc[p].end >= Period
    /\ \A p \in Procs : proc[p].pc \in {"st_sign", "st_req", "rf_row"} => Invoiced(proc[p].s)
    /\ \A p \in Procs : proc[p].op = "renew" => \A i \in proc[p].todo : Invoiced(i.s)
    /\ \A p \in Procs : proc[p].pc = "st_claim" => proc[p].v \in Vouchers /\ voucher[proc[p].v].st # "none"
    /\ \A p \in Procs : proc[p].pc \in {"rn_row", "rn_clear"} => proc[p].v \in Vouchers /\ NeverPaid(proc[p].v)
    /\ \A p \in Procs : proc[p].pc = "rn_clear" => \E r \in rows : r.v = proc[p].v /\ r.s = proc[p].s

\* How a row changes: it is added for the handler that records it, or it stays the same
\* invoice, whose status moves on.
Advances(r, q) ==
    /\ q.v = r.v /\ q.s = r.s /\ q.start = r.start /\ q.end = r.end
    /\ r.status = "voided" => q.status = "voided"
    /\ q.status = "voided" => r.status = "voided" \/ \E p \in Procs : Loops(p, "reconcile") \/ Loops(p, "panelcheck")
    /\ r.status = "open" /\ q.status = "paid" =>
          \E p \in Procs : /\ At(p, "st_claim") /\ proc[p].v = r.v
                           /\ proc'[p].pc = "st_sign" /\ proc'[p].s = r.s /\ proc'[p].end = r.end
    /\ r.status = "paid" => q.status # "open"
Recorded(q) ==
    \E p \in Procs :
       /\ q.s = proc[p].s /\ q.end \in Nat /\ q.end >= Period
       /\ \/ proc[p].pc \in {"ap_tx", "rn_row"} /\ q.v = proc[p].v /\ q.status = "open"
          \/ /\ q.v = NoVoucher /\ q.status = "paid"
             /\ proc[p].pc = "rf_row" \/ (sub'[q.s].status = "paid" /\ sub'[q.s].next # NULL)

\* Every row of billing_invoices comes and goes on in one of these two ways.
LEMMA RowsAdvance ==
  ASSUME TypeOK, [Next]_vars
  PROVE  /\ \A q \in rows' : Recorded(q) \/ \E r \in rows : Advances(r, q)
         /\ \A r \in rows : \E q \in rows' : Advances(r, q)
  <1> DEFINE Goal == /\ \A q \in rows' : Recorded(q) \/ \E r \in rows : Advances(r, q)
                     /\ \A r \in rows : \E q \in rows' : Advances(r, q)
  <1>0. proc \in [Procs -> Local] /\ rows \subseteq InvRow /\ now \in Nat /\ Period \in Nat
    BY PlanAssumption, BoundsAssumption DEF TypeOK
  <1>a. \A r \in rows : Advances(r, r)
    BY DEF Advances
  <1>b. ASSUME NEW q, rows' = rows \cup {q}, Recorded(q) PROVE Goal
    BY <1>a, <1>b
  <1>1. CASE UNCHANGED rows
    BY <1>a, <1>1
  <1>2. ASSUME NEW p \in Procs, ApproveCommit(p) PROVE Goal
    <2> DEFINE q == [v |-> proc[p].v, s |-> proc[p].s, start |-> now, end |-> now + Period,
                     status |-> "open", made |-> now, reminded |-> NULL]
    <2>1. rows' = rows \cup {q} /\ At(p, "ap_tx")
      BY <1>2 DEF ApproveCommit
    <2>2. q.s = proc[p].s /\ q.v = proc[p].v /\ q.status = "open" /\ q.end = now + Period
      OBVIOUS
    <2> HIDE DEF q
    <2>3. Recorded(q)
      BY <1>0, <2>1, <2>2 DEF Recorded, At
    <2> QED
      BY <1>b, <2>1, <2>3
  <1>3. ASSUME NEW p \in Procs, RenewRow(p) PROVE Goal
    <2> DEFINE q == [v |-> proc[p].v, s |-> proc[p].s, start |-> proc[p].end, end |-> proc[p].end + Period,
                     status |-> "open", made |-> now, reminded |-> NULL]
    <2>1. rows' = rows \cup {q} /\ At(p, "rn_row") /\ proc[p].end \in Nat
      BY <1>0, <1>3 DEF RenewRow, Local
    <2>2. q.s = proc[p].s /\ q.v = proc[p].v /\ q.status = "open" /\ q.end = proc[p].end + Period
      OBVIOUS
    <2> HIDE DEF q
    <2>3. Recorded(q)
      BY <1>0, <2>1, <2>2 DEF Recorded, At
    <2> QED
      BY <1>b, <2>1, <2>3
  <1>4. ASSUME NEW p \in Procs, NEW start \in Nat, FreePeriod(proc[p].s, start),
               proc[p].pc = "rf_row" \/ (sub'[proc[p].s].status = "paid" /\ sub'[proc[p].s].next # NULL)
        PROVE  Goal
    <2> DEFINE q == [v |-> NoVoucher, s |-> proc[p].s, start |-> start, end |-> start + Period,
                     status |-> "paid", made |-> now, reminded |-> NULL]
    <2>1. rows' = rows \cup {q}
      BY <1>4 DEF FreePeriod
    <2>2. q.s = proc[p].s /\ q.v = NoVoucher /\ q.status = "paid" /\ q.end = start + Period
      OBVIOUS
    <2> HIDE DEF q
    <2>3. Recorded(q)
      BY <1>0, <1>4, <2>2 DEF Recorded
    <2> QED
      BY <1>b, <2>1, <2>3
  <1>5. ASSUME NEW p \in Procs, FreeCommit(p) PROVE Goal
    <2>1. CASE FreeRefTaken(proc[p].s, now)
      BY <1>1, <1>5, <2>1 DEF FreeCommit
    <2>2. CASE ~FreeRefTaken(proc[p].s, now)
      <3>1. /\ FreePeriod(proc[p].s, now)
            /\ sub' = [sub EXCEPT ![proc[p].s].status = "paid", ![proc[p].s].next = (now + Period) - LeadDays]
        BY <1>5, <2>2 DEF FreeCommit, NextInvoiceAt
      <3>2. (now + Period) - LeadDays # NULL /\ proc[p].s \in Subs
        BY <1>0, PlanAssumption DEF NULL, Local
      <3>3. sub'[proc[p].s].status = "paid" /\ sub'[proc[p].s].next # NULL
        BY <3>1, <3>2 DEF TypeOK, SubRow
      <3> QED
        BY <1>0, <1>4, <3>1, <3>3
    <2> QED
      BY <2>1, <2>2
  <1>6. ASSUME NEW p \in Procs, RenewFreeRow(p) PROVE Goal
    <2>1. proc[p].end \in Nat
      BY <1>0 DEF Local
    <2> QED
      BY <1>0, <1>1, <1>4, <1>6, <2>1 DEF RenewFreeRow, At
  <1>7. ASSUME NEW p \in Procs, SettleClaim(p) PROVE Goal
    <2>1. CASE \A r \in rows : ~Claimable(r, proc[p].v)
      BY <1>1, <1>7, <2>1 DEF SettleClaim
    <2>2. ASSUME NEW r \in rows, Claimable(r, proc[p].v), rows' = (rows \ {r}) \cup {[r EXCEPT !.status = "paid"]},
                 Step(p, [proc[p] EXCEPT !.pc = "st_sign", !.s = r.s, !.end = r.end])
          PROVE  Goal
      <3> DEFINE q == [r EXCEPT !.status = "paid"]
      <3>1. q.v = r.v /\ q.s = r.s /\ q.start = r.start /\ q.end = r.end /\ q.status = "paid"
        BY <1>0 DEF InvRow
      <3>2. rows' = (rows \ {r}) \cup {q}
        BY <2>2
      <3> HIDE DEF q
      <3>3. proc'[p].pc = "st_sign" /\ proc'[p].s = r.s /\ proc'[p].end = r.end
        BY <1>0, <2>2 DEF Step, Local
      <3>4. Advances(r, q)
        BY <1>7, <2>2, <3>1, <3>3 DEF Advances, Claimable, SettleClaim
      <3> QED
        BY <1>a, <3>2, <3>4
    <2> QED
      BY <1>7, <2>1, <2>2 DEF SettleClaim
  <1>9. ASSUME NEW p \in Procs, NEW i, ReconcileVoid(p, i) PROVE Goal
    <2> DEFINE new(r) == IF r.v = i.v THEN Voided(r) ELSE r
    <2>1. rows' = {new(r) : r \in rows}
      BY <1>9 DEF ReconcileVoid
    <2>2. \A r \in rows : Advances(r, new(r))
      BY <1>0, <1>9 DEF InvRow, Advances, Voided, ReconcileVoid
    <2> HIDE DEF new
    <2> QED
      BY <2>1, <2>2
  <1>10. ASSUME NEW p \in Procs, NEW stored, RemindSend(p, stored) PROVE Goal
    <2> DEFINE new(r) == IF stored /\ r.v = proc[p].v THEN [r EXCEPT !.reminded = now] ELSE r
    <2>1. rows' = {new(r) : r \in rows}
      BY <1>10 DEF RemindSend
    <2>2. \A r \in rows : Advances(r, new(r))
      BY <1>0 DEF InvRow, Advances
    <2> HIDE DEF new
    <2> QED
      BY <2>1, <2>2
  <1> QED
    BY <1>1, <1>2, <1>3, <1>5, <1>6, <1>7, <1>9, <1>10, TableWriters DEF RowsWritten

\* An invoice, once recorded, stays recorded; its period is a whole one.
LEMMA InvoicedStays ==
  ASSUME TypeOK, [Next]_vars, NEW s, Invoiced(s)
  PROVE  Invoiced(s)'
  BY RowsAdvance DEF Invoiced, Advances

\* A voucher Lexware handed out is never forgotten, and one it holds as voided or open is
\* not booked as paid unless a payment is assigned to it after its mail has left.
LEMMA VoucherMoves ==
  ASSUME TypeOK, [Next]_vars, NEW v \in Vouchers
  PROVE  /\ voucher[v].st # "none" => voucher'[v].st # "none"
         /\ voucher[v].st \in {"open", "voided"} /\ Unmailed(v) => voucher'[v].st \in {"open", "voided"}
  <1> DEFINE Goal == /\ voucher[v].st # "none" => voucher'[v].st # "none"
                     /\ voucher[v].st \in {"open", "voided"} /\ Unmailed(v) => voucher'[v].st \in {"open", "voided"}
  <1>0. voucher \in [Vouchers -> Voucher] /\ voucher[v] \in Voucher
    BY DEF TypeOK
  <1>1. ASSUME NEW p \in Procs, NEW w \in Vouchers, ApproveInvoice(p, w) \/ RenewInvoice(p, w) PROVE Goal
    BY <1>0, <1>1 DEF ApproveInvoice, RenewInvoice, CreateInvoice
  <1>2. ASSUME NEW w \in Vouchers, CustomerPays(w) PROVE Goal
    <2>1. w # v \/ ~Unmailed(v)
      BY <1>2 DEF CustomerPays
    <2>2. voucher' = [voucher EXCEPT ![w].st = "paid"]
      BY <1>2 DEF CustomerPays
    <2> QED
      BY <1>0, <2>1, <2>2 DEF Voucher
  <1>3. ASSUME NEW w \in Vouchers, Storno(w) PROVE Goal
    BY <1>0, <1>3 DEF Storno, Voucher
  <1>4. CASE UNCHANGED voucher
    BY <1>4
  <1> QED
    BY <1>1, <1>2, <1>3, <1>4, TableWriters DEF VoucherWritten

\* Only a payment Lexware confirms is claimed.
LEMMA ClaimsPaid ==
  ASSUME TypeOK, [Next]_vars, NEW p \in Procs, proc'[p].pc = "st_claim"
  PROVE  \/ proc'[p] = proc[p]
         \/ proc'[p].v \in Vouchers /\ voucher[proc'[p].v].st = "paid"
  <1>0. proc \in [Procs -> Local]
    BY DEF TypeOK
  <1>1. ASSUME NEW v \in Vouchers, Webhook(p, v) PROVE proc'[p].v = v /\ voucher[v].st = "paid"
    BY <1>0, <1>1 DEF Webhook, Step, Idle
  <1>2. ASSUME NEW i \in proc[p].todo, PollItem(p, i)
        PROVE  proc'[p].v \in Vouchers /\ voucher[proc'[p].v].st = "paid"
    <2>1. i.v \in Vouchers /\ (voucher[i.v].st = "paid" \/ Skip(p, i))
      BY <1>2 DEF PollItem
    <2>2. ~Skip(p, i)
      <3>1. Skip(p, i) => proc'[p].pc \in Resting
        BY BeginRests DEF Skip
      <3> QED
        BY <3>1 DEF Resting
    <2>3. WorkOn(p, i, [Idle EXCEPT !.pc = "st_claim", !.v = i.v])
      BY <1>2, <2>1, <2>2 DEF PollItem
    <2>4. proc'[p].v = i.v
      BY <1>0, <2>3 DEF WorkOn, Step, Idle
    <2> QED
      BY <2>1, <2>2, <2>4
  <1> QED
    BY <1>1, <1>2, Arrivals DEF Arrives, Resting

\* The handlers' part of the invariant.
LEMMA CycleHandlers ==
  ASSUME TypeOK, OpsFit, CycleInv, [Next]_vars, NEW p \in Procs
  PROVE  /\ proc'[p].pc \in {"st_sign", "st_req", "cv_flip"} => proc'[p].end >= Period
         /\ proc'[p].pc \in {"st_sign", "st_req", "rf_row"} => Invoiced(proc'[p].s)
         /\ proc'[p].op = "renew" => \A i \in proc'[p].todo : Invoiced(i.s)
         /\ proc'[p].pc = "st_claim" => proc'[p].v \in Vouchers /\ voucher'[proc'[p].v].st # "none"
  <1> DEFINE h == proc'[p]
  <1>0. proc \in [Procs -> Local] /\ proc[p] \in Local
    BY DEF TypeOK
  <1>1. ASSUME SettleClaim(p), h.pc = "st_sign" PROVE h.end >= Period /\ Invoiced(h.s)
    <2>1. PICK r \in rows : Step(p, [proc[p] EXCEPT !.pc = "st_sign", !.s = r.s, !.end = r.end])
      BY <1>1, DoneRests DEF SettleClaim, Resting
    <2>2. h.s = r.s /\ h.end = r.end
      BY <1>0, <2>1 DEF Step, Local
    <2> QED
      BY <2>2 DEF CycleInv, Invoiced
  <1>2. ASSUME SettleSign(p), h.pc = "st_req" PROVE h.end >= Period /\ Invoiced(h.s)
    <2>1. h.s = proc[p].s /\ h.end = proc[p].end /\ proc[p].pc = "st_sign"
      BY <1>0, <1>2, DoneRests DEF SettleSign, Step, Local, At, Resting
    <2> QED
      BY <2>1 DEF CycleInv
  <1>3. ASSUME NEW s \in Subs, ConvertToPaid(p, s) PROVE h.end >= Period
    <2>1. \E r \in rows : h.end = r.end
      BY <1>0, <1>3 DEF ConvertToPaid, PaidRows, Step, Idle
    <2> QED
      BY <2>1 DEF CycleInv
  <1>4. ASSUME NEW i \in proc[p].todo, RenewItem(p, i) PROVE Invoiced(h.s)
    <2>1. h.s = i.s /\ proc[p].op = "renew"
      BY <1>0, <1>4 DEF RenewItem, WorkOn, Step, Loops, Idle
    <2> QED
      BY <2>1 DEF CycleInv
  <1>5. h.pc \in {"st_sign", "st_req", "cv_flip"} => h.end >= Period
    BY <1>1, <1>2, <1>3, Arrivals DEF Arrives, Resting, CycleInv
  <1>6. h.pc \in {"st_sign", "st_req", "rf_row"} => Invoiced(h.s)
    BY <1>1, <1>2, <1>4, Arrivals DEF Arrives, Resting, CycleInv
  <1>7. h.op = "renew" => \A i \in h.todo : Invoiced(i.s)
    BY SweepItems DEF CycleInv, Invoiced
  <1>8. h.pc = "st_claim" => h.v \in Vouchers /\ voucher'[h.v].st # "none"
    BY ClaimsPaid, VoucherMoves DEF CycleInv
  <1> QED
    BY <1>5, <1>6, <1>7, <1>8

\* The invoice a renewal has raised stays unpaid until its mail has left, and recorded.
LEMMA UnmailedStep ==
  ASSUME TypeOK, HoldingInv, CycleInv, [Next]_vars, NEW p \in Procs, proc'[p].pc \in {"rn_row", "rn_clear"}
  PROVE  /\ proc'[p].v \in Vouchers /\ NeverPaid(proc[p].v)' 
         /\ proc'[p].pc = "rn_clear" => \E r \in rows' : r.v = proc'[p].v /\ r.s = proc'[p].s
  <1> DEFINE h == proc'[p]
  <1>0. proc \in [Procs -> Local] /\ proc[p] \in Local /\ NoVoucher \notin Vouchers
    BY BoundsAssumption DEF TypeOK
  <1>1. PICK v : v = h.v
    OBVIOUS
  \* Before: the voucher is new, or this handler holds it already.
  <1>2. /\ v \in Vouchers
        /\ \/ NeverPaid(v) /\ Unmailed(v)
           \/ voucher[v].st = "none" /\ voucher'[v].st = "open"
    <2>1. ASSUME h.v = proc[p].v, proc[p].pc \in {"rn_row", "rn_clear"}
          PROVE  v \in Vouchers /\ NeverPaid(v) /\ Unmailed(v)
      BY <1>1, <2>1 DEF CycleInv, Unmailed
    <2>2. CASE h = proc[p]
      BY <2>1, <2>2
    <2>3. ASSUME NEW w \in Vouchers, RenewInvoice(p, w)
          PROVE  v \in Vouchers /\ voucher[v].st = "none" /\ voucher'[v].st = "open"
      <3>1. h.v = w
        BY <1>0, <2>3 DEF RenewInvoice, Step, Local
      <3>2. voucher[w].st = "none" /\ voucher'[w].st = "open"
        BY <2>3 DEF RenewInvoice, CreateInvoice, TypeOK
      <3> QED
        BY <1>1, <3>1, <3>2
    <2>4. ASSUME RenewRow(p) PROVE v \in Vouchers /\ NeverPaid(v) /\ Unmailed(v)
      <3>1. h.v = proc[p].v /\ proc[p].pc = "rn_row"
        BY <1>0, <2>4 DEF RenewRow, Step, Local, At
      <3> QED
        BY <2>1, <3>1
    <2> QED
      BY <2>2, <2>3, <2>4, Arrivals DEF Arrives, Resting
  <1>3. voucher'[v].st \in {"open", "voided"}
    BY <1>2, VoucherMoves DEF NeverPaid
  <1>4. ASSUME NEW q \in Procs, proc'[q].pc = "st_claim" PROVE proc'[q].v # v
    <2>1. CASE proc'[q] = proc[q]
      BY <1>2, <1>4, <2>1 DEF NeverPaid, At, CycleInv
    <2>2. CASE proc'[q].v \in Vouchers /\ voucher[proc'[q].v].st = "paid"
      BY <1>2, <2>2 DEF NeverPaid
    <2> QED
      BY <1>4, <2>1, <2>2, ClaimsPaid
  <1>5. ASSUME NEW q \in rows', q.v = v PROVE q.status # "paid"
    <2>1. CASE Recorded(q)
      BY <1>0, <1>2, <1>5, <2>1 DEF Recorded
    <2>2. ASSUME NEW r \in rows, Advances(r, q) PROVE q.status # "paid"
      <3>1. r.v = v /\ (r.status = "open" => q.status # "paid" \/ \E a \in Procs : At(a, "st_claim") /\ proc[a].v = v)
        BY <1>5, <2>2 DEF Advances
      <3>2. NeverPaid(v)
        BY <1>2, <3>1 DEF HoldingInv, RowsRaised
      <3>3. r.status \in {"open", "voided"}
        BY <3>1, <3>2 DEF NeverPaid, TypeOK, InvRow
      <3> QED
        BY <2>2, <3>1, <3>2, <3>3 DEF NeverPaid, Advances
    <2> QED
      BY <2>1, <2>2, RowsAdvance
  <1>6. NeverPaid(proc[p].v)'
    BY <1>1, <1>3, <1>4, <1>5 DEF NeverPaid, At
  <1>7. ASSUME h.pc = "rn_clear" PROVE \E r \in rows' : r.v = h.v /\ r.s = h.s
    <2>1. CASE h = proc[p]
      BY <1>7, <2>1, RowsAdvance DEF CycleInv, Advances
    <2>2. CASE RenewRow(p)
      <3> DEFINE row == [v |-> proc[p].v, s |-> proc[p].s, start |-> proc[p].end, end |-> proc[p].end + Period,
                         status |-> "open", made |-> now, reminded |-> NULL]
      <3>1. row \in rows'
        BY <2>2 DEF RenewRow
      <3>2. row.v = proc[p].v /\ row.s = proc[p].s
        OBVIOUS
      <3>3. h.v = proc[p].v /\ h.s = proc[p].s
        BY <1>0, <2>2 DEF RenewRow, Step, Local
      <3> HIDE DEF row
      <3> QED
        BY <3>1, <3>2, <3>3
    <2> QED
      BY <1>7, <2>1, <2>2, Arrivals DEF Arrives, Resting
  <1> QED
    BY <1>1, <1>2, <1>6, <1>7

\* A handler that settles goes on settling: nothing else happens to it while nothing fails.
LEMMA SettlesOn ==
  ASSUME Faults = FALSE, TypeOK, [Next]_vars, NEW p \in Procs, proc[p].pc \in {"st_sign", "st_req"}
  PROVE  \/ proc'[p] = proc[p]
         \/ proc[p].pc = "st_sign" /\ SettleSign(p)
         \/ proc[p].pc = "st_req" /\ SettleRequest(p, TRUE)
  <1>1. ~CallFails(p) /\ ~Restart
    BY DEF CallFails, Exhausted, Restart
  <1>2. ASSUME NEW stored \in BOOLEAN, SettleRequest(p, stored) PROVE stored = TRUE
    BY <1>2 DEF SettleRequest
  <1>3. ~At(p, "rc_rows")
    BY DEF At
  <1> QED
    BY <1>1, <1>2, <1>3, MovesOn DEF At

\* The subscriber's own first row exists, so the key of a paid invoice is signed.
LEMMA FirstLicExists ==
  ASSUME NEW s \in Subs, Anchored(s)
  PROVE  \E l \in Lics : FirstLic(s, l)
  <1> DEFINE R == OpToRel(<, Nat)
             T == {l \in Lics : Exists(l) /\ lic[l].s = s /\ lic[l].org = Company}
  <1>1. T \subseteq Nat /\ T # {} /\ T \subseteq Lics /\ Lics = 1..MaxLic /\ MaxLic \in Nat
    BY BoundsAssumption DEF Anchored, Lics
  <1>2. \E x \in T : \A y \in T : ~(<<y, x>> \in R)
    <2>1. IsWellFoundedOn(R, Nat)
      BY NatLessThanWellFounded
    <2> HIDE DEF R, T
    <2> QED
      BY <1>1, <2>1, WFMin
  <1>3. PICK x \in T : \A y \in T : ~(<<y, x>> \in R)
    BY <1>2
  <1>4. \A y \in T : ~(y < x)
    <2>1. \A y \in T : y < x => <<y, x>> \in R
      BY <1>1 DEF OpToRel
    <2> QED
      BY <1>3, <2>1
  <1>5. ASSUME NEW k \in 1..(x - 1) PROVE ~(Exists(k) /\ lic[k].s = s /\ lic[k].org = Company)
    <2>1. k \in Lics /\ k < x
      BY <1>1
    <2> QED
      BY <1>4, <2>1
  <1> QED
    BY <1>5 DEF FirstLic

\* An invoice somebody can act on stays one, until its settlement moves the cycle on.
LEMMA PendingStep ==
  ASSUME Faults = FALSE, TypeOK, AnchorInv, CycleInv, [Next]_vars, NEW s \in Subs, Pending(s)
  PROVE  Pending(s)' \/ Turning(s)'
  <1>0. proc \in [Procs -> Local] /\ \A p \in Procs : proc[p] \in Local
    BY DEF TypeOK
  <1>1. ASSUME NEW r \in rows, r.s = s, r.status \in {"open", "voided"} PROVE Pending(s)'
    <2>1. PICK q \in rows' : Advances(r, q)
      BY RowsAdvance
    <2>2. q.status \in {"open", "paid", "voided"} /\ q.s = s
      <3>1. rows' \subseteq InvRow
        BY TypeStep DEF TypeOK
      <3> QED
        BY <1>1, <2>1, <3>1 DEF Advances, InvRow
    <2> QED
      BY <1>1, <2>1, <2>2 DEF Advances, Pending
  <1>2. ASSUME NEW p \in Procs, proc[p].s = s, proc[p].pc \in {"st_sign", "st_req"}
        PROVE  Pending(s)' \/ Turning(s)'
    <2>1. CASE proc'[p] = proc[p]
      BY <1>2, <2>1 DEF Pending
    <2>2. CASE proc[p].pc = "st_sign" /\ SettleSign(p)
      <3>1. \E l \in Lics : FirstLic(s, l)
        BY <1>2, FirstLicExists DEF AnchorInv, Underway, AfterApproval
      <3>2. \E l \in Lics : Step(p, [proc[p] EXCEPT !.pc = "st_req", !.l = l, !.lim = EntitledTo(proc[p].end)])
        BY <1>2, <2>2, <3>1 DEF SettleSign
      <3>3. proc'[p].pc = "st_req" /\ proc'[p].s = s
        BY <1>0, <1>2, <3>2 DEF Step, Local
      <3> QED
        BY <3>3 DEF Pending
    <2>3. CASE proc[p].pc = "st_req" /\ SettleRequest(p, TRUE)
      <3>1. sub' = [sub EXCEPT ![s] = Advanced(@, proc[p].end)]
        BY <1>2, <2>3 DEF SettleRequest
      <3>2. proc[p].end >= Period /\ proc[p].end \in Nat
        BY <1>0, <2>3 DEF CycleInv, Local
      <3>3. NextInvoiceAt(proc[p].end) # NULL
        BY <3>2, PlanAssumption DEF NextInvoiceAt, NULL
      <3>4. sub'[s].status = "paid" /\ sub'[s].next = NextInvoiceAt(proc[p].end)
        BY <3>1 DEF TypeOK, SubRow, Advanced
      <3> QED
        BY <3>3, <3>4 DEF Turning
    <2> QED
      BY <1>2, <2>1, <2>2, <2>3, SettlesOn
  <1> QED
    BY <1>1, <1>2 DEF Pending

\* A cycle that turns goes on turning, or a new invoice is out.
LEMMA TurningStep ==
  ASSUME TypeOK, CycleInv, [Next]_vars, NEW s \in Subs, Turning(s)
  PROVE  Pending(s)' \/ Turning(s)'
  <1>0. /\ sub \in [Subs -> SubRow] /\ \A t \in Subs : sub[t] \in SubRow
        /\ \A p \in Procs : proc[p].s \in Subs /\ proc[p].end \in Nat
    BY DEF TypeOK, Local
  <1>1. ASSUME NEW t \in Subs, RequestQuote(t) \/ Cancel(t) PROVE Turning(s)'
    BY <1>0, <1>1 DEF RequestQuote, Cancel, SubRow, Turning
  <1>2. ASSUME NEW t \in Subs, NEW free \in BOOLEAN, CreateSubscription(t, free) PROVE Turning(s)'
    BY <1>0, <1>2 DEF CreateSubscription, SubRow, Turning
  <1>3. ASSUME NEW p \in Procs, ApproveCommit(p) PROVE Pending(s)' \/ Turning(s)'
    <2> DEFINE row == [v |-> proc[p].v, s |-> proc[p].s, start |-> now, end |-> now + Period,
                       status |-> "open", made |-> now, reminded |-> NULL]
    <2>1. row \in rows' /\ row.s = proc[p].s /\ row.status = "open"
      BY <1>3 DEF ApproveCommit
    <2> HIDE DEF row
    <2>2. CASE proc[p].s = s
      BY <2>1, <2>2 DEF Pending
    <2>3. CASE proc[p].s # s
      BY <1>0, <1>3, <2>3 DEF ApproveCommit, Turning, SubRow
    <2> QED
      BY <2>2, <2>3
  <1>4. ASSUME NEW n \in Nat, NEW t \in Subs, sub' = [sub EXCEPT ![t].status = "paid", ![t].next = n] PROVE Turning(s)'
    BY <1>0, <1>4 DEF Turning, SubRow, NULL
  <1>5. ASSUME NEW p \in Procs, FreeCommit(p) PROVE Turning(s)'
    <2>1. (now + Period) - LeadDays \in Nat
      BY PlanAssumption, BoundsAssumption DEF TypeOK
    <2>2. UNCHANGED sub \/ sub' = [sub EXCEPT ![proc[p].s].status = "paid", ![proc[p].s].next = (now + Period) - LeadDays]
      BY <1>5 DEF FreeCommit, NextInvoiceAt
    <2> QED
      BY <1>0, <1>4, <2>1, <2>2 DEF Turning
  <1>6. ASSUME NEW p \in Procs, RenewClear(p) PROVE Pending(s)' \/ Turning(s)'
    <2>1. CASE proc[p].s = s
      <3>1. PICK r \in rows : r.v = proc[p].v /\ r.s = s
        BY <1>6, <2>1 DEF RenewClear, At, CycleInv
      <3>2. r.status \in {"open", "voided"}
        BY <1>6, <3>1 DEF RenewClear, At, CycleInv, NeverPaid, TypeOK, InvRow
      <3>3. rows' = rows
        BY <1>6 DEF RenewClear
      <3> QED
        BY <3>1, <3>2, <3>3 DEF Pending
    <2>2. CASE proc[p].s # s
      BY <1>0, <1>6, <2>2 DEF RenewClear, Turning, SubRow
    <2> QED
      BY <2>1, <2>2
  <1>7. ASSUME NEW n \in Nat, NEW t \in Subs, sub'[s].status = sub[s].status, sub'[s].cancelled = sub[s].cancelled,
               sub'[s].next \in {n, sub[s].next}
        PROVE  Turning(s)'
    BY <1>7 DEF Turning, NULL
  <1>8. ASSUME NEW p \in Procs, RenewFreeNext(p) PROVE Turning(s)'
    <2>1. (proc[p].end + Period) - LeadDays \in Nat
      BY <1>0, PlanAssumption
    <2>2. sub' = [sub EXCEPT ![proc[p].s].next = (proc[p].end + Period) - LeadDays]
      BY <1>8 DEF RenewFreeNext, NextInvoiceAt
    <2> QED
      BY <1>0, <1>7, <2>1, <2>2 DEF SubRow
  <1>9. ASSUME NEW p \in Procs, NEW invoiceNow \in BOOLEAN, ConvertFlip(p, invoiceNow) PROVE Turning(s)'
    <2>1. proc[p].end - LeadDays \in Nat
      BY <1>0, <1>9, PlanAssumption DEF ConvertFlip, At, CycleInv
    <2>2. sub' = [sub EXCEPT ![proc[p].s].free = FALSE, ![proc[p].s].contact = TRUE,
                             ![proc[p].s].next = proc[p].end - LeadDays]
      BY <1>9 DEF ConvertFlip, NextInvoiceAt
    <2> QED
      BY <1>0, <1>7, <2>1, <2>2 DEF SubRow
  <1>10. ASSUME NEW p \in Procs, NEW stored \in BOOLEAN, SettleRequest(p, stored) PROVE Turning(s)'
    <2>1. proc[p].end - LeadDays \in Nat
      BY <1>0, <1>10, PlanAssumption DEF SettleRequest, At, CycleInv
    <2>2. UNCHANGED sub \/ sub' = [sub EXCEPT ![proc[p].s].status = "paid", ![proc[p].s].next = proc[p].end - LeadDays]
      BY <1>10 DEF SettleRequest, Advanced, NextInvoiceAt
    <2> QED
      BY <1>0, <1>4, <2>1, <2>2 DEF Turning
  <1>11. CASE UNCHANGED sub
    BY <1>11 DEF Turning
  <1> QED
    BY <1>1, <1>2, <1>3, <1>5, <1>6, <1>8, <1>9, <1>10, <1>11, TableWriters DEF SubWritten

\* A subscription is paid only once it has an invoice, or a free period, on record.
LEMMA PaidInvoicedStep ==
  ASSUME TypeOK, CycleInv, [Next]_vars, NEW s \in Subs, sub'[s].status = "paid"
  PROVE  Invoiced(s)'
  <1>0. /\ sub \in [Subs -> SubRow] /\ \A t \in Subs : sub[t] \in SubRow
    BY DEF TypeOK
  <1>1. CASE sub[s].status = "paid"
    BY <1>1, InvoicedStays DEF CycleInv
  <1>2. ASSUME NEW p \in Procs, FreeCommit(p), sub[s].status # "paid" PROVE Invoiced(s)'
    <2> DEFINE row == [v |-> NoVoucher, s |-> proc[p].s, start |-> now, end |-> now + Period,
                       status |-> "paid", made |-> now, reminded |-> NULL]
    <2>1. ~FreeRefTaken(proc[p].s, now) /\ proc[p].s = s
      BY <1>0, <1>2 DEF FreeCommit, SubRow
    <2>2. row \in rows' /\ row.s = s
      BY <1>2, <2>1 DEF FreeCommit, FreePeriod
    <2> HIDE DEF row
    <2> QED
      BY <2>2 DEF Invoiced
  <1>3. ASSUME NEW p \in Procs, NEW stored \in BOOLEAN, SettleRequest(p, stored), sub[s].status # "paid"
        PROVE  Invoiced(s)'
    <2>1. proc[p].s = s /\ proc[p].pc = "st_req"
      BY <1>0, <1>3 DEF SettleRequest, Advanced, SubRow, At
    <2> QED
      BY <2>1, InvoicedStays DEF CycleInv
  <1>4. ASSUME NEW t \in Subs, RequestQuote(t) \/ Cancel(t) PROVE sub[s].status = "paid"
    BY <1>0, <1>4 DEF RequestQuote, Cancel, SubRow
  <1>5. ASSUME NEW t \in Subs, NEW free \in BOOLEAN, CreateSubscription(t, free) PROVE sub[s].status = "paid"
    BY <1>0, <1>5 DEF CreateSubscription, SubRow
  <1>6. ASSUME NEW p \in Procs, ApproveCommit(p) \/ RenewClear(p) \/ RenewFreeNext(p) PROVE sub[s].status = "paid"
    BY <1>0, <1>6 DEF ApproveCommit, RenewClear, RenewFreeNext, SubRow
  <1>7. ASSUME NEW p \in Procs, NEW invoiceNow \in BOOLEAN, ConvertFlip(p, invoiceNow) PROVE sub[s].status = "paid"
    BY <1>0, <1>7 DEF ConvertFlip, SubRow
  <1> QED
    BY <1>1, <1>2, <1>3, <1>4, <1>5, <1>6, <1>7, TableWriters DEF SubWritten

\* Before any invoice.
LEMMA InitCycle == Init => CycleInv
  <1> SUFFICES ASSUME Init PROVE CycleInv
    OBVIOUS
  <1>1. rows = {} /\ \A p \in Procs : proc[p].pc = "idle" /\ proc[p].op = "none"
    BY DEF Init, Idle
  <1>2. \A s \in Subs : sub[s].status = "none"
    BY DEF Init
  <1> QED
    BY <1>1, <1>2 DEF CycleInv, Invoiced

\* A subscription's first invoice is open, or its free period runs.
LEMMA FirstInvoice ==
  ASSUME TypeOK, CycleInv, [Next]_vars, NEW s \in Subs, Invoiced(s)', ~Invoiced(s)
  PROVE  Pending(s)' \/ Turning(s)'
  <1>1. PICK q \in rows' : Recorded(q) /\ q.s = s
    BY RowsAdvance DEF Invoiced, Advances
  <1>2. CASE q.status = "open"
    BY <1>1, <1>2 DEF Pending
  <1>3. CASE q.status # "open"
    BY <1>1, <1>3 DEF Recorded, CycleInv, Turning
  <1> QED
    BY <1>2, <1>3

\* The cycle of every invoiced subscription goes on while nothing fails.
LEMMA CycleStep ==
  ASSUME Faults = FALSE, TypeOK, OpsFit, HoldingInv, AnchorInv, CycleInv, [Next]_vars
  PROVE  CycleInv'
  <1>1. ASSUME NEW s \in Subs, Invoiced(s)' PROVE Pending(s)' \/ Turning(s)'
    BY <1>1, FirstInvoice, PendingStep, TurningStep DEF CycleInv
  <1>2. ASSUME NEW s \in Subs, sub'[s].status = "paid" PROVE Invoiced(s)'
    BY <1>2, PaidInvoicedStep
  <1>3. ASSUME NEW r \in rows' PROVE r.end >= Period
    BY RowsAdvance DEF Recorded, Advances, CycleInv
  <1>4. ASSUME NEW p \in Procs
        PROVE  /\ proc'[p].pc \in {"st_sign", "st_req", "cv_flip"} => proc'[p].end >= Period
               /\ proc'[p].pc \in {"st_sign", "st_req", "rf_row"} => Invoiced(proc[p].s)'
               /\ proc'[p].op = "renew" => \A i \in proc'[p].todo : Invoiced(i.s)'
               /\ proc'[p].pc = "st_claim" => proc'[p].v \in Vouchers /\ voucher'[proc'[p].v].st # "none"
    BY CycleHandlers, InvoicedStays
  <1>5. ASSUME NEW p \in Procs, proc'[p].pc \in {"rn_row", "rn_clear"}
        PROVE  proc'[p].v \in Vouchers /\ NeverPaid(proc[p].v)'
    BY <1>5, UnmailedStep
  <1>6. ASSUME NEW p \in Procs, proc'[p].pc = "rn_clear" PROVE \E r \in rows' : r.v = proc'[p].v /\ r.s = proc'[p].s
    BY <1>6, UnmailedStep
  <1> QED
    BY <1>1, <1>2, <1>3, <1>4, <1>5, <1>6 DEF CycleInv

\* All that is known of a system in which nothing fails.
FaultlessInv == TypeOK /\ OpsFit /\ EntitlementInv /\ HoldingInv /\ AnchorInv /\ CycleInv
\* It holds throughout.
LEMMA Faultless ==
  ASSUME Faults = FALSE
  PROVE  Spec => []FaultlessInv
  <1>1. FaultlessInv /\ [Next]_vars => FaultlessInv'
    BY TypeStep, OpsFitStep, EntitlementStep, RefinementStep, AnchorStep, CycleStep DEF FaultlessInv
  <1>2. Init => FaultlessInv
    <2>1. Init => OpsFit
      BY DEF Init, OpsFit, Idle
    <2> QED
      BY <2>1, InitType, InitEntitlement, InitHolding, InitAnchor, InitCycle DEF FaultlessInv
  <1> QED
    BY <1>1, <1>2, PTL DEF Spec

\* CycleAlive, sharper: only the settlement of a paid invoice counts as work on the cycle.
StopsAtVoidedOnly ==
    \A s \in Subs :
       Live(s) /\ sub[s].next = NULL /\ (\A r \in rows : r.s = s => r.status # "voided") =>
          HasOpen(s) \/ \E p \in Procs : proc[p].s = s /\ proc[p].pc \in {"st_sign", "st_req"}

\* renewOnce and settle: while no call fails, only an invoice the bookkeeper voided can stop
\* the cycle of a paid, uncancelled subscription; otherwise there is an invoice somebody
\* can pay, a next date, or a handler at work on it.
THEOREM OnlyAVoidedInvoiceStopsACycle ==
  ASSUME Faults = FALSE
  PROVE  Spec => []StopsAtVoidedOnly
  <1>1. FaultlessInv => StopsAtVoidedOnly
    BY DEF FaultlessInv, CycleInv, Live, Turning, Pending, HasOpen, StopsAtVoidedOnly
  <1> QED
    BY <1>1, Faultless, PTL

\* Without a storno nothing is voided, and a reconciliation finds nothing to void.
NoneVoided ==
    /\ \A v \in Vouchers : voucher[v].st # "voided"
    /\ \A r \in rows : r.status # "voided"
    /\ \A p \in Procs : proc[p].op \in {"reconcile", "panelcheck"} =>
          At(p, "rc_rows") /\ \A i \in proc[p].todo : ~i.free
\* It stays that way.
LEMMA NoneVoidedStep ==
  ASSUME "storno" \notin Ops, TypeOK, NoneVoided, [Next]_vars
  PROVE  NoneVoided'
  <1>0. proc \in [Procs -> Local] /\ \A p \in Procs : proc[p] \in Local
    BY DEF TypeOK
  <1>1. ASSUME NEW v \in Vouchers PROVE voucher'[v].st # "voided"
    <2>1. ASSUME NEW p \in Procs, NEW w \in Vouchers, ApproveInvoice(p, w) \/ RenewInvoice(p, w)
          PROVE  voucher'[v].st # "voided"
      BY <2>1 DEF ApproveInvoice, RenewInvoice, CreateInvoice, TypeOK, NoneVoided
    <2>2. ASSUME NEW w \in Vouchers, CustomerPays(w) PROVE voucher'[v].st # "voided"
      BY <2>2 DEF CustomerPays, TypeOK, Voucher, NoneVoided
    <2>3. \A w \in Vouchers : ~Storno(w)
      BY DEF Storno
    <2> QED
      BY <2>1, <2>2, <2>3, TableWriters DEF VoucherWritten, NoneVoided
  <1>2. ASSUME NEW q \in rows' PROVE q.status # "voided"
    <2>1. \A p \in Procs : ~Loops(p, "reconcile") /\ ~Loops(p, "panelcheck")
      BY DEF Loops, At, NoneVoided
    <2> QED
      BY <2>1, RowsAdvance DEF Recorded, Advances, NoneVoided
  <1>3. ASSUME NEW p \in Procs, proc'[p].op \in {"reconcile", "panelcheck"}
        PROVE  proc'[p].pc = "rc_rows" /\ \A i \in proc'[p].todo : ~i.free
    <2>1. proc'[p] # Idle
      BY <1>3 DEF Idle
    <2>2. CASE HandlerStart(p)
      <3>1. PICK op \in {"reconcile", "panelcheck"} : Reconcile(p, op)
        BY <1>3, <2>2, Starters
      <3>2. /\ proc'[p].pc = "rc_rows"
            /\ proc'[p].todo = {[AnyItem EXCEPT !.v = v, !.free = (voucher[v].st = "voided")] :
                                v \in {w \in Vouchers : voucher[w].st # "none"}}
        BY <1>0, <3>1 DEF Reconcile, Step, Idle
      <3>3. \A i \in proc'[p].todo : ~i.free
        BY <3>2 DEF AnyItem, NoneVoided
      <3> QED
        BY <3>2, <3>3
    <2>3. ~ReconcileRows(p)
      <3> SUFFICES ASSUME ReconcileRows(p) PROVE FALSE
        OBVIOUS
      <3>1. proc[p].op = proc'[p].op
        BY <1>0, <1>3 DEF ReconcileRows, Step, Begin, Idle
      <3>2. {j \in proc[p].todo : j.free} = {}
        BY <1>3, <3>1 DEF NoneVoided
      <3>3. Step(p, Begin(proc[p].op, {}))
        BY <3>2 DEF ReconcileRows
      <3> QED
        BY <1>0, <2>1, <3>3 DEF Step, Begin
    <2>4. CASE proc[p].op = proc'[p].op
      <3>1. At(p, "rc_rows") /\ \A i \in proc[p].todo : ~i.free
        BY <1>3, <2>4 DEF NoneVoided
      <3>2. CallFails(p) => proc'[p] = Idle
        BY <1>0, <3>1 DEF CallFails, Step
      <3>3. proc'[p] = proc[p]
        BY <2>1, <2>3, <3>1, <3>2, MovesOn DEF At
      <3> QED
        BY <3>1, <3>3 DEF At
    <2> QED
      BY <2>1, <2>2, <2>3, <2>4, Agenda
  <1> QED
    BY <1>1, <1>2, <1>3 DEF NoneVoided, At

\* A system in which nothing fails and nothing is voided.
LEMMA NothingVoided ==
  ASSUME "storno" \notin Ops
  PROVE  Spec => []NoneVoided
  <1>1. TypeOK /\ NoneVoided /\ [Next]_vars => (TypeOK /\ NoneVoided)'
    BY TypeStep, NoneVoidedStep
  <1>2. Init => NoneVoided
    BY DEF Init, NoneVoided, Idle
  <1> QED
    BY <1>1, <1>2, InitType, PTL DEF Spec

\* settle: "Ohne next_invoice_at wird nie wieder eine Rechnung gestellt" - while no call
\* fails and no invoice is voided, the cycle of a paid subscription never stops silently,
\* whatever approvals, payments, renewals, conversions and cancellations interleave.
THEOREM CyclesNeverStop ==
  ASSUME Faults = FALSE, "storno" \notin Ops
  PROVE  Spec => []CycleAlive
  <1>1. FaultlessInv /\ NoneVoided => CycleAlive
    BY DEF FaultlessInv, CycleInv, CycleAlive, Live, Turning, Pending, HasOpen, NoneVoided
  <1> QED
    BY <1>1, Faultless, NothingVoided, PTL

\* licences.go, "the current period is settled. The key renews": while no call fails and no
\* invoice is voided, a licence shown as paid is one that is renewed.
THEOREM PaidLicencesRenew ==
  ASSUME Faults = FALSE, "storno" \notin Ops
  PROVE  Spec => []PaidStatusRenews
  <1>1. FaultlessInv /\ NoneVoided => PaidStatusRenews
    <2> SUFFICES ASSUME FaultlessInv, NoneVoided, NEW l \in Lics, Exists(l), LicenceStatus(l) = "bezahlt",
                        ~Settling(lic[l].s)
                 PROVE  Live(lic[l].s)
      BY DEF PaidStatusRenews
    <2> DEFINE s == lic[l].s
    <2>1. s \in Subs /\ ~sub[s].cancelled /\ PaidThrough(s) # {} /\ ~HasOpen(s)
      BY DEF LicenceStatus, FaultlessInv, TypeOK, LicRow
    <2>2. Invoiced(s)
      BY <2>1 DEF PaidThrough, PaidRows, Invoiced
    <2>3. ~Pending(s)
      BY <2>1 DEF Pending, HasOpen, NoneVoided, Settling
    <2> QED
      BY <2>1, <2>2, <2>3 DEF FaultlessInv, CycleInv, Turning, Live
  <1> QED
    BY <1>1, Faultless, NothingVoided, PTL
=============================================================================
