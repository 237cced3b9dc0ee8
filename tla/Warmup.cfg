CONSTANTS
  Mailboxes = {m1, m2}
  Seeds = {s}
  SameDomain <- OneDomain
  Target <- Targets
  SendWindow = 2
  Day = 3
  CheckAfter = 1
  GiveUp = 2
  UncheckedAfter = 3
  RecipientGap = 1
  MaxMails = 2
  MaxManual = 1
  MaxFaults = 1
SPECIFICATION Spec
INVARIANTS
  VolumeKept
  OneInboxPerGap
  AnswersTrue
PROPERTIES
  EveryMailJudged
CHECK_DEADLOCK FALSE
