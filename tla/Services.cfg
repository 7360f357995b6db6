SPECIFICATION FairSpec
CONSTANTS
  kA = kA  kB = kB  s1 = s1  s2 = s2  r1 = r1  r2 = r2  ip1 = ip1  ip2 = ip2
  d1 = d1  d2 = d2  e1 = e1  e2 = e2  m1 = m1  m2 = m2  x1 = x1  x2 = x2  b1 = b1  b2 = b2  b3 = b3
  None = None  Broken = Broken
  Followed = {"access", "intel", "selectors", "retention", "digest", "extract", "readiness"}
  MaxMishaps = 1
  KeyLists <- MCKeyLists  Requests <- MCRequests  Burst = 1  MaxNow = 1
  Reports = {r1, r2}  IPs = {ip1, ip2}  RecordsOf <- MCRecordsOf
  MinMsgs = 2  QueueSize = 1  Enrichers = {1}  SweepBatch = 1  BackfillStep = 1  MaxFills = 1
  Entries = {1, 2}  Unparsable = {2}  Page = 1  MaxRebuilds = 1
  Mails = {m1, m2}  Raws = {x1, x2}  PurgeBatch = 1
  Subscribers <- MCSubscribers  Subscribed <- MCSubscribed
  LastDay = 1  DigestDays = {0}  MaxForced = 1  MaxEdits = 1
  Parts <- MCParts  MaxParts = 4
  Sources = {b1, b2, b3}  Volumes = {0, 1, 2}  Totals <- MCTotals
  Percents = {None, 5, 50, 100}  Counts = {0, 1, 3, 7}  Days = {0, 13, 14}
  LoudLimit = 1  TopLimit = 2
INVARIANTS TypeOK AuditTellsAccess SourcesAddUp SenderTold SelectorsKept PurgeIsTrue DigestOnce DigestServed WalkIsRight EnforceIsSafe HealthIsMonotone
PROPERTIES TakesOnlyOld SeededAreEnriched
CHECK_DEADLOCK FALSE
