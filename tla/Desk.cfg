CONSTANTS
  Parts = {"ingest", "connect", "domains", "lookalikes", "addresses", "writing", "forecast"}
  Campaign = {c1}
  Email = {e1, e2}
  Erased = erased
  Call = {r1, r2}
  MaxLeads = 2
  MaxStarts = 4
  Tab = {t1}
  MaxGrants = 2
  MaxRows = 1
  Host = {h1, h2}
  NoHost = none
  MaxDomains = 1
  Candidate = {d1, d2}
  Scan = {s1, s2}
  MaxAlerts = 2
  Address = {a1, a2}
  MAX_UNKNOWN_RETRIES = 3
  MaxEdits = 1
  MaxReleases = 1
  MaxExpiries = 1
  Providers = 2
  m1 = m1
  m2 = m2
  g1 = g1
  g2 = g2
  ForecastMailbox = {m1, m2}
  ForecastCampaign = {g1, g2}
  MailboxIds <- MC_MailboxIds
  MaxNewLeads <- MC_MaxNewLeads
  FirstWait <- MC_FirstWait
  FirstLeft <- MC_FirstLeft
  Bookings <- MC_Bookings
  ForecastDays = 1
  MaxCap = 2
SPECIFICATION DeskSpec
INVARIANTS
  ListAgrees
  ErasedStays
  OneGrant
  LinkProven
  AlertedOnce
  DeadIsDead
  OfferKept
  EveryKeyAsked
  PlanFits
PROPERTIES
  SignInKept
CHECK_DEADLOCK FALSE
