---------------------------- MODULE MCMembership ----------------------------
(* Membership instantiated for TLC.                                        *)
EXTENDS Membership, TLC

Interchangeable == Permutations(Users \ {FirstAdmin}) \cup Permutations(Requests)
=============================================================================
