SPECIFICATION Spec
CONSTANTS
  Subs = {s1}
  Vouchers = {v1}
  NoVoucher = none
  MaxLic = 4
  Orgs = {company, o2, o3, o4}
  Company = company
  Procs = {p1, p2}
  Ops = {"grant", "approve", "issue", "revoke", "mail"}
  Faults = TRUE
  MaxDay = 0
  PollWindow = 9
  Period = 2
  GraceDays = 1
  LeadDays = 1
  TrialDays = 2
  RenewBelow = 3
  MailBelow = 3
  Quantity = 2
SYMMETRY Interchangeable
INVARIANT SeatOverrunBounded
