SPECIFICATION Spec
CONSTANTS
  Subs = {s1}
  Vouchers = {v1, v2}
  NoVoucher = none
  MaxLic = 2
  Orgs = {company}
  Company = company
  Procs = {p1, p2}
  Ops = {"quote", "grant", "approve", "webhook", "renew", "fetch", "convert"}
  Faults = TRUE
  MaxDay = 2
  PollWindow = 9
  Period = 2
  GraceDays = 1
  LeadDays = 1
  TrialDays = 2
  RenewBelow = 3
  MailBelow = 3
  Quantity = 1
SYMMETRY Interchangeable
INVARIANTS KeyWithinPaid OneKeyPerInvoice RenewalFollowsPayment FreeNeverInvoiced
