--------------------------- MODULE MCDataSubjects ---------------------------
EXTENDS DataSubjects, TLC

CONSTANTS d1, p1, p2

Interchangeable == Permutations(Procs)
=============================================================================
