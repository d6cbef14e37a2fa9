----------------------------- MODULE MCBilling -----------------------------
(* Billing instantiated for TLC.                                           *)
EXTENDS Billing, TLC

Interchangeable ==
    Permutations(Vouchers) \cup Permutations(Procs) \cup Permutations(Orgs \ {Company})
=============================================================================
