CONSTANTS
    Notifs <- MCNotifs
    Groups <- MCGroups
    Times <- MCTimes
    Null = Null
    RequestLimit = 2
    MaxNow = 5
    MaxPages = 4
SPECIFICATION Spec
\* The caller stops after its last page.
CHECK_DEADLOCK FALSE

INVARIANT EachListedOnce
