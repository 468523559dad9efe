SPECIFICATION MCSpec
CONSTANTS
  Jobs = {n1, r1}
  Runs = {r1}
  Nodes = {n1}
  Writes = {}
  Workers = {wa, wb}
  NoWorker = NoWorker
  MaxRetries = 0
  NodeRetries = 0
  MaxUps = 2
  MaxStops = 2
  MaxKills = 1
  Dialects = {"mysql", "postgresql", "oracle", "dm", "db2", "oceanbase"}
  MaxCalls = 3
  Releases = {"v1", "v2"}
  Builds = {"x", "y"}
  MaxCrashes = 2
  Processes = {wa, wb}
  Refs = {s1}
  MaxCommands = 4
  MaxReveals = 1
INVARIANTS LauncherInv AdapterInv UpdaterInv BootstrapInv
PROPERTIES PgOutlivesChildren JobsFinish StopReturns CancelEndsStatement
CHECK_DEADLOCK FALSE
