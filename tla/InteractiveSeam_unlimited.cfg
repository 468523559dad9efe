SPECIFICATION SeamSpec
CONSTANTS
  Dialects = {"mysql"}
  Limits = {0, 1}
  DefaultLimit = 1
  Margin = 1
  MaxLogins = 2
  MaxStatements = 1
INVARIANTS UnlimitedRunsOn
CHECK_DEADLOCK FALSE
