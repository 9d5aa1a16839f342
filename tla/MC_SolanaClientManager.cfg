\* One call of each kind against three endpoints, three retries each.
\* A call is finite: it returns or raises, after which nothing is enabled.
CONSTANTS
    NumEndpoints = 3
    Retries = 3
    Ops <- MCOps
    Answers <- MCAnswers
SPECIFICATION Spec
CHECK_DEADLOCK FALSE
INVARIANT TypeOK
INVARIANT FailsOnlyWhenExhausted
PROPERTY CallTerminates
PROPERTY FailoverRefinement
