CONSTANTS
  m1 = m1
  m2 = m2
  k1 = k1
  k2 = k2
  Mailbox = {m1}
  Evaluation = {k1, k2}
  MailboxPercent = 30
  MailboxSample = 2
  CampaignPercent = 40
  CampaignSample = 2
  Measured <- Windows
  WarmupDays = {0, 14}
  MaxRows = 3
  Faults = {"api", "log", "write"}
  MaxFaults = 1
SPECIFICATION Spec
INVARIANTS
  StopHolds
  BreakerCatches
  CampaignCaught
CHECK_DEADLOCK FALSE
