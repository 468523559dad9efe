SPECIFICATION MCSpec
CONSTANTS
  Jobs = {w1, n1}
  Runs = {}
  Nodes = {n1}
  Writes = {w1}
  Workers = {wa, wb}
  NoWorker = NoWorker
  MaxRetries = 1
  NodeRetries = 1
  Callers = {wa, wb}
  Uploads = {wa, wb}
  Kinds = {"public", "write", "restore"}
  Files = {"good", "bad"}
  CacheTtl = 1
  Window = 1
  RateLimit = 1
  GraceDays = 1
  TrialDays = 2
  Expiry = 1
  MaxNow = 2
  MaxStarts = 2
SYMMETRY Symmetry
INVARIANTS QueueInv GateInv
PROPERTIES OutcomesStand ImplementsLifecycle
CHECK_DEADLOCK FALSE
