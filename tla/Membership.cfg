SPECIFICATION Spec
CONSTANTS
  Users = {u1, u2}
  FirstAdmin = u1
  Requests = {r1, r2}
  None = none
  MaxTokens = 2
SYMMETRY Interchangeable
INVARIANTS TypeOK AdminRemains ClaimsAreCurrent
