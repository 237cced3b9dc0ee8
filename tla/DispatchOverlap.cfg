CONSTANTS
  l1 = l1
  l2 = l2
  m1 = m1
  m2 = m2
  e1 = e1
  t1 = t1
  t2 = t2
  f1 = f1
  f2 = f2
  Lead = {l1}
  Mailbox = {m1, m2}
  Slot = {1}
  NoJob = NoJob
  NoMailbox = NoMailbox
  FollowUps = 1
  MaxRetryAttempts = 1
  Tick = {t1, t2}
  Flight = {f1}
  Email = {e1}
  EmailOf <- OneAddress
  Senders = {m1, m2}
  MaxUnknownRetries = 1
  Faults = {}
  MaxFaults = 0
  Slow = TRUE
  Events = {}
SPECIFICATION Spec
INVARIANTS
  OneSender
CHECK_DEADLOCK FALSE
