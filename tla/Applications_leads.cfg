SPECIFICATION Spec
CONSTANTS
  l1 = l1
  l2 = l2
  r1 = r1
  r2 = r2
  a1 = a1
  NoLead = NoLead
  Leads = {l1, l2}
  Requests = {r1}
  Addresses = {a1}
  Contact <- OneAddress
  DailyLimit = 2
  MaxPrepareAttempts = 1
  MaxClaimAttempts = 1
  MailOn = TRUE
  MaxAsks = 1
  MaxAttempts = 0
  MaxFaults = 0
SYMMETRY LeadSymmetry
INVARIANTS
  ColdEmailCooldown
  NothingLeftPreparing
