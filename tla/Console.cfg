SPECIFICATION MCSpec
CONSTANTS
  Consoles = {c1, c2}
  Windows = {w1, w2}
  Datasources = {d1, d2}
  Requests = {r1}
  MaxSessions = 2
  MaxEpoch = 2
  MaxBoots = 2
  GlobalTotal = 2
  PerDatasource = 1
  ResultSetIds = {1, 2}
  Keep = 1
  MaxRows = 3
  Limit = 2
  SpoolMax = 2
  Dialects = {"mysql", "dm"}
  Limits = {0, 1}
  DefaultLimit = 1
  Margin = 1
  MaxLogins = 3
  MaxStatements = 2
  ResultSizes = {0, 2, 4}
  ReadLimit = 3
  SpoolRowCap = 3
  BatchSize = 2
  PageSize = 1
SYMMETRY Symmetry
INVARIANTS RegistryInv ResultsInv SeamInv ReadsInv
 
CHECK_DEADLOCK FALSE
