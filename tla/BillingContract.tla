-------------------------- MODULE BillingContract --------------------------
(***************************************************************************)
(* What the billing service promises its customers and its bookkeeper,     *)
(* without handlers, sweeps, restarts or Lexware: an invoice goes from     *)
(* open to paid once and may be voided, paying it earns one licence key,   *)
(* and no key outlives what was paid for.  Every promise is one atomic     *)
(* step.  Billing implements this module (Billing!ImplementsContract).     *)
(***************************************************************************)
EXTENDS Integers

CONSTANTS
    Subs,       \* subscriptions
    Vouchers,   \* invoices
    GraceDays   \* days a key outlives the paid period

VARIABLES
    invoice,    \* [Vouchers -> {"none", "open", "paid", "voided"}], our books
    owed,       \* invoices just booked as paid, whose key is not signed yet
    keys,       \* [Vouchers -> number of keys signed on account of the invoice]
    paid,       \* [Subs -> latest period end booked as paid]
    key         \* [Subs -> latest expiry of a key signed]

vars == <<invoice, owed, keys, paid, key>>

Init ==
    /\ invoice = [v \in Vouchers |-> "none"]
    /\ owed = {}
    /\ keys = [v \in Vouchers |-> 0]
    /\ paid = [s \in Subs |-> 0]
    /\ key = [s \in Subs |-> 0]

\* A period of s is booked as paid: what was paid for never shrinks.
Book(s) == paid' = [paid EXCEPT ![s] = paid'[s]] /\ paid[s] <= paid'[s]

\* A key of s is signed, no longer than what was paid for.
Sign(s) == /\ key' = [key EXCEPT ![s] = key'[s]] /\ key[s] <= key'[s]
           /\ key'[s] <= paid'[s] + GraceDays

Raise(v) ==
    /\ invoice[v] = "none" /\ invoice' = [invoice EXCEPT ![v] = "open"]
    /\ UNCHANGED <<owed, keys, paid, key>>

\* The invoice is booked as paid: exactly once, and one key is now owed for it.
Settle(v, s) ==
    /\ invoice[v] = "open" /\ invoice' = [invoice EXCEPT ![v] = "paid"]
    /\ owed' = owed \cup {v}
    /\ Book(s)
    /\ UNCHANGED <<keys, key>>

DeliverKey(v, s) ==
    /\ v \in owed /\ owed' = owed \ {v}
    /\ keys' = [keys EXCEPT ![v] = @ + 1]
    /\ Sign(s)
    /\ UNCHANGED <<invoice, paid>>

\* A crash or a failed call between booking and signing: the key comes from a later sweep.
Abandon(lost) ==
    /\ owed' = owed \ lost
    /\ UNCHANGED <<invoice, keys, paid, key>>

\* The bookkeeper voids it; nothing that was voided or paid is ever open again.
Void(v) ==
    /\ invoice[v] \in {"open", "paid"} /\ invoice' = [invoice EXCEPT ![v] = "voided"]
    /\ UNCHANGED <<owed, keys, paid, key>>

\* An invoice-free period, with or without its key.
Grant(s) == Book(s) /\ (Sign(s) \/ key' = key) /\ UNCHANGED <<invoice, owed, keys>>

\* A key for what was paid already: auto-renewal, the mail sweep, a seat.
Resign(s) == Sign(s) /\ UNCHANGED <<invoice, owed, keys, paid>>

Next ==
    \/ \E v \in Vouchers : Raise(v) \/ Void(v)
    \/ \E v \in Vouchers, s \in Subs : Settle(v, s) \/ DeliverKey(v, s)
    \/ \E lost \in SUBSET owed : Abandon(lost)
    \/ \E s \in Subs : Grant(s) \/ Resign(s)

Spec == Init /\ [][Next]_vars
=============================================================================
