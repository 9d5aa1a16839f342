\* Two workers, four transactions; a run may outlive the lock's 4 h timeout.
CONSTANTS
    Workers = {w1, w2}
    None = None
    MaxTxs = 4
    MaxFaults = 2
    RunsOutliveLock = TRUE
SPECIFICATION Spec
INVARIANT NoDuplicateHistory
