--------------------------- MODULE MCOffboarding ---------------------------
(* Instances of Offboarding for TLC.  Liveness is checked, so no symmetry. *)
EXTENDS Offboarding, TLC
=============================================================================
