SPECIFICATION MCSpec
CONSTANTS
  Sources = {d1}
  Calls = {k1, k2}
  ConnJobs = {j1}
  MaxRefs = 3
  MaxConfig = 1
  MaxDeaths = 1
  s1 = s1
  t1 = t1
  Scripts = {s1}
  Relations = {t1, t2}
  Mentions <- MentionsOf
  SchemaOf <- SchemaOfEach
  Analyses = {k1, k2}
  LineageJobs = {j1}
  MaxRuns = 2
  MaxSyncTables = 1
  Reviewers = {k1, k2}
  Schedulers = {k1, k2}
  Periods = {2}
  Interval = 1
  Cooldown = 1
  MaxClock = 3
  MaxEdits = 1
  MaxChecks = 2
  MaxManual = 1
  TableSizes = {2, 4, 6}
  UserLimits <- RowLimits
  UserOffsets = {1}
  PageSize = 3
  MaxResultRows = 4
  SpoolMax = 5
  MaxRetries = 1
  MaxPullDeaths = 1
  Pagers = {k1, k2}
  Exports = {1}
  PerHour = 1
SYMMETRY Symmetry
INVARIANTS WorkerFindsActive
CHECK_DEADLOCK FALSE
