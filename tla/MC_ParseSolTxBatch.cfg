CONSTANTS
    None = None
    Raise = Raise
    N = 2
    BatchShapes <- MCBatchShapes
SPECIFICATION Spec
\* A single batch ends, committed or failed.
CHECK_DEADLOCK FALSE
INVARIANT TypeOK
INVARIANT CheckpointImpliesRows
INVARIANT ParserMatchesReferenceOnListed
