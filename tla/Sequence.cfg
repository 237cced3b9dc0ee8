CONSTANTS
  Lead = {l1}
  Mailbox = {m1}
  NoMailbox = none
  MaxFollowUps = 2
  Plans <- SomePlans
  Lookback = 1
  Holds = {2}
  MaxRetryAttempts = 1
  MaxReplies = 2
  MaxActs = 3
SPECIFICATION Spec
INVARIANTS
  WaitKept
  AwayHeld
  AnswerStops
  FollowUpsOwed
  OwnerStops
CHECK_DEADLOCK FALSE
PROPERTIES
  SendingEnds
