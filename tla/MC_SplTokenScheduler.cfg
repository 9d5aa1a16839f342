\* Two workers, four transactions, two runs that raise or are killed; runs end
\* well within the lock's 4 h timeout.
CONSTANTS
    Workers = {w1, w2}
    None = None
    MaxTxs = 4
    MaxFaults = 2
    RunsOutliveLock = FALSE
SPECIFICATION Spec
INVARIANT TypeOK
PROPERTY AllEventuallyIndexed
