CONSTANTS
  l1 = l1
  l2 = l2
  m1 = m1
  m2 = m2
  e1 = e1
  t1 = t1
  t2 = t2
  f1 = f1
  f2 = f2
  Lead = {l1}
  Mailbox = {m1}
  Slot = {1, 2}
  NoJob = NoJob
  NoMailbox = NoMailbox
  FollowUps = 1
  MaxRetryAttempts = 1
  Tick = {t1}
  Flight = {f1, f2}
  Email = {e1}
  EmailOf <- OneAddress
  Senders = {m1}
  MaxUnknownRetries = 1
  Faults = {"crash"}
  MaxFaults = 1
  Slow = FALSE
  Events = {"campaign"}
SPECIFICATION FairSpec
INVARIANTS
  NoLeadForgotten
PROPERTIES
  BookingsResolve
CHECK_DEADLOCK FALSE
