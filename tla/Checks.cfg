CONSTANTS
  Parts = {"domains", "name", "seeds", "addresses"}
  Host = {h1}
  NoHost = none
  MaxDomains = 1
  Recheck = 1
  MaxDies = 1
  SeedInbox = {"seed1", "seed2"}
  CheckBatch = 1
  MaxSampled = 1
  MaxFlips = 1
  Address = {a1}
  MAX_UNKNOWN_RETRIES = 3
  MaxEdits = 0
  MaxReleases = 0
  MaxExpiries = 1
SPECIFICATION ChecksSpec
PROPERTIES
  LinkFails
  NameFollowsDns
  EveryCopyJudged
  NotBlocked
CHECK_DEADLOCK FALSE
