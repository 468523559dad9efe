SPECIFICATION MCSpec
CONSTANTS
  ColumnNames <- ColumnNameSet
  Types = {"integer", "string"}
  MaxColumns = 2
  PreviewLimit = 3
  MaxTableRows = 2
  LastKey = 3
  CellValues = {a, b}
  Factor = 2
  Threshold = 1
  MaxDepth = 1
  BatchRows = 2
  RowCap = 3
  DefaultCap = 5
  TraceTables = {"a", "b", "c"}
  RootTable = "a"
  TraceColumns = {1, 2}
  MaxEdges = 2
  TraceDepths = {1, 2}
  t1 = t1
  t2 = t2
  t3 = t3
  Tables = {t1, t2, t3}
  Focus = t1
  MaxDepths = {1, 2}
  HopCaps = {2}
  V1Users = {u1, u2}
  V1Projects = {p1}
  V1Sources = {d1}
  V1Flows = {f1}
  V1Jobs = {j1}
  V1States = {"pending", "running", "cancelled"}
  Global = Global
  MaxRuns = 2
  Appliers = {k1, k2}
  ImportTables = {"s", "t"}
  DidaTasks = {"d", "e"}
  Predicates = {"p", "q"}
  MaxIds = 3
  Archives <- ArchiveSet
  Undecodable = {"garbled"}
  NamedRoles <- RolesByName
  MaxFiles = 2
  MaxFileBytes = 3
  MaxTotalBytes = 2
  RowsPerFile = 1
  TotalRows = 3
  BatchWorkers = {wa, wb}
  MaxTries = 1
SYMMETRY Symmetry
INVARIANTS DraftInv CompareInv TraceInv WalkInv MigrateInv ImportInv BatchInv
CHECK_DEADLOCK FALSE
