SPECIFICATION MCSpec
CONSTANTS
  Tasks = {k1, k2}
  UploadIds = {u1}
  Handlers = {h1, h2, h3}
  CompareRuns = {r1}
  MaxCopies = 1
  Webhooks = {w1}
  Mails = {m1}
  Clients = {h1, h2, h3}
  Runs = {r1}
  MaxRefs = 3
  MaxNodeRetries = 1
  Users = {k1, k2}
  Projects = {p1}
  Requests = {h1, h2, h3}
  MaxSeeds = 2
  MaxTime = 1
  AiRequests = {r1}
  Admins = {k1, k2}
  EgressLimits = {2}
  MaxPuts = 2
  Owners = {k1, k2}
  Documents = {d1, d2, d3}
  Editors = {h1, h2, h3}
  Readers = {r1}
  SqlTexts = {"s", "t"}
  ConsoleLimit = 1
  HistoryWindow = 1
  MaxLimit = 2
  MaxExecutions = 2
SYMMETRY Symmetry
INVARIANTS TasksInv AdministrationInv AiInv WorkbenchInv
CHECK_DEADLOCK FALSE
