\* Two requests over both stores, with an outage and evictions.
SPECIFICATION Spec
CONSTANTS
    t1 = t1
    t2 = t2
    r1 = r1
    r2 = r2
    None = None
    Tokens = {t1, t2}
    Requests = {r1, r2}
    MaxVersion = 2
    MaxOutages = 1
    MaxEvictions = 1
SYMMETRY Symmetry
INVARIANTS
    TypeOK
    RevokedStaysRejected
    RevocationIsDurable
    EveryKeyIsListed
    SignInIsHonoured
