SPECIFICATION FairSpec
CONSTANTS
  Subs = {s1}
  Vouchers = {v1, v2}
  NoVoucher = none
  MaxLic = 2
  Orgs = {company}
  Company = company
  Procs = {p1, p2}
  Ops = {"quote", "panel", "grant", "approve", "webhook", "poll", "renew", "mail", "fetch"}
  Faults = FALSE
  MaxDay = 3
  PollWindow = 9
  Period = 2
  GraceDays = 1
  LeadDays = 1
  TrialDays = 2
  RenewBelow = 3
  MailBelow = 3
  Quantity = 1
INVARIANT CycleAlive
PROPERTIES PaidIsSettled KeyCatchesUp DueIsBilled
