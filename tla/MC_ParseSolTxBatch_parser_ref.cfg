CONSTANTS
    None = None
    Raise = Raise
    N = 1
    BatchShapes <- MCShapesAll
SPECIFICATION Spec
\* A single batch ends, committed or failed.
CHECK_DEADLOCK FALSE
INVARIANT ParserMatchesReference
