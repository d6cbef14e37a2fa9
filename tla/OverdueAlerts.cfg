\* One request and one handler under the daily alert.
SPECIFICATION AlertSpec
CONSTANTS
    d1 = d1
    p1 = p1
    Dsrs = {d1}
    Procs = {p1}
    Term = 2
    Forgotten = 3
INVARIANTS
    MarkMeansTold
    SilenceBounded
