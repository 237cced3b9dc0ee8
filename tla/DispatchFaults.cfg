CONSTANTS
  l1 = l1
  l2 = l2
  m1 = m1
  m2 = m2
  e1 = e1
  t1 = t1
  t2 = t2
  f1 = f1
  f2 = f2
  Lead = {l1}
  Mailbox = {m1, m2, m3}
  Slot = {1, 2}
  NoJob = NoJob
  NoMailbox = NoMailbox
  FollowUps = 2
  MaxRetryAttempts = 2
  Tick = {t1}
  Flight = {f1, f2}
  Email = {e1}
  EmailOf <- OneAddress
  Senders = {m1, m2, m3}
  MaxUnknownRetries = 1
  Faults = {"crash", "tick", "fetch", "api", "db"}
  MaxFaults = 1
  Slow = FALSE
  Events = {"optout", "reply"}
SPECIFICATION Spec
SYMMETRY Mailboxes
INVARIANTS
  EveryMailCounted
  ThreadBounded
  OptOutHolds
  ReplyCrossedOnce
CHECK_DEADLOCK FALSE
