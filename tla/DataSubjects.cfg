\* Two handlers at one request, with the other modules' inserts and deletions.
SPECIFICATION Spec
CONSTANTS
    d1 = d1
    p1 = p1
    p2 = p2
    Dsrs = {d1}
    Procs = {p1, p2}
    Term = 1
SYMMETRY Interchangeable
INVARIANTS
    CompletedIsErased
    EvidenceSurvives
CHECK_DEADLOCK FALSE
