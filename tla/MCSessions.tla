----------------------------- MODULE MCSessions -----------------------------
(* Instances of Sessions for TLC: sessions and requests are interchangeable. *)
EXTENDS Sessions, TLC

Symmetry == Permutations(Tokens) \cup Permutations(Requests)
=============================================================================
