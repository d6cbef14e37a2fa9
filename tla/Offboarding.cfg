\* Two handlers, a sign-in, an API key and user management at once, with a failing call.
SPECIFICATION FairSpec
CONSTANTS
    t1 = t1
    k1 = k1
    x1 = x1
    s1 = s1
    s2 = s2
    r1 = r1
    r2 = r2
    NoRun = NoRun
    Tokens = {t1}
    ApiKeys = {k1}
    Runs = {x1}
    Steps = {s1}
    Required = {s1}
    Sent = {{}, {s1}}
    Removals = TRUE
    Requests = {r1, r2}
    MaxFaults = 1
INVARIANTS
    TypeOK
    EvidenceIsTrue
    HandleKept
    ClosedMeansOut
PROPERTIES
    RetryCompletes
