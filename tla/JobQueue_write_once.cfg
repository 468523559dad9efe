SPECIFICATION Spec
CONSTANTS
    Jobs = {n1}
    Runs = {}
    Nodes = {n1}
    Writes = {n1}
    Workers = {wa, wb}
    NoWorker = NoWorker
    MaxRetries = 0
    NodeRetries = 1
INVARIANT WriteOnce
