SPECIFICATION FairSpec
CONSTANTS
  l1 = l1
  l2 = l2
  r1 = r1
  r2 = r2
  a1 = a1
  NoLead = NoLead
  Leads = {l1}
  Requests = {r1}
  Addresses = {a1}
  Contact <- OneAddress
  DailyLimit = 1
  MaxPrepareAttempts = 2
  MaxClaimAttempts = 1
  MailOn = FALSE
  MaxAsks = 2
  MaxAttempts = 3
  MaxFaults = 1
INVARIANTS
  HandedOutIsPrepared
  ClaimsCanExpire
  AbandonedClaimsAreBounded
  EmailsNeedAsking
PROPERTIES
  PreparingEnds
  ClaimsEnd
