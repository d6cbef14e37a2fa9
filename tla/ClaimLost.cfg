SPECIFICATION Spec
CONSTANTS
  Subs = {s1}
  Vouchers = {v1}
  NoVoucher = none
  MaxLic = 1
  Orgs = {company}
  Company = company
  Procs = {p1, p2}
  Ops = {"quote", "approve", "webhook"}
  Faults = TRUE
  MaxDay = 0
  PollWindow = 9
  Period = 2
  GraceDays = 1
  LeadDays = 1
  TrialDays = 2
  RenewBelow = 3
  MailBelow = 3
  Quantity = 1
SYMMETRY Interchangeable
INVARIANTS PaidStatusRenews
