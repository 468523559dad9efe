SPECIFICATION FairSpec
CONSTANTS
    Nodes = {"a", "b", "c"}
    Specs <- MCSpecs
    Workers = {wa}
    NoWorker = NoWorker
    ReaperRetries = 0
    MaxFaults = 1
PROPERTY RunFinishes
CHECK_DEADLOCK FALSE
