SPECIFICATION FairSpec
CONSTANTS
  Nodes = {n1}
  Orgs = {o1}
  Readers = {r1}
  Admins = {a1}
  Wallet <- TwoKeys
  EnvKeys <- SoldEnv
  listed = listed
  legacy = legacy
  other = other
  Features <- MCFeatures
  LegacyProFeatures <- MCLegacy
  TTL = 0
  ReqLife = 0
  MaxWindow = 3
  MaxTick = 2
  MaxCrashes = 1
  Faults = {"db", "redis", "net"}
INVARIANTS TypeOK FreshLicence ExpiryRespected
PROPERTIES FailingHeals Renewed
