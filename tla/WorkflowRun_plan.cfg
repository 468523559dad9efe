SPECIFICATION Spec
CONSTANTS
    Nodes = {"a", "b", "c"}
    Specs <- MCSpecs
    Workers = {wa, wb}
    NoWorker = NoWorker
    ReaperRetries = 0
    MaxFaults = 1
SYMMETRY Symmetry
INVARIANTS PlanInv
PROPERTIES DecisionsStand
CHECK_DEADLOCK FALSE
