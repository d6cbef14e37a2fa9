\* Two writers on lagging clocks, retention, two years, and the forwarder.
SPECIFICATION FairSpec
CONSTANTS
    w1 = w1
    w2 = w2
    k1 = k1
    Writers = {w1, w2}
    Workers = {k1}
    MaxTime = 4
    YearLength = 2
    RetentionYears = 1
    RetentionTime = 1
    Batch = 2
    MaxSkew = 1
    MaxFaults = 1
INVARIANTS
    TypeOK
    NoFalseAlarm
    ReplayIsHistory
    MarkedIsReceived
PROPERTIES
    EventuallyReceived
CHECK_DEADLOCK FALSE
