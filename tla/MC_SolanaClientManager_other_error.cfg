\* Endpoints may also answer error bodies other than -32015.
CONSTANTS
    NumEndpoints = 3
    Retries = 3
    Ops <- MCOps
    Answers <- MCAnswersWithOtherErrors
SPECIFICATION Spec
CHECK_DEADLOCK FALSE
INVARIANT UnsupportedOnlyForVersionError
