\* Three cases, two kills.  The runner stops at the end of the report.
SPECIFICATION Spec
CONSTANTS
    Cases <- MCCases
    Codes <- MCCodes
    MaxKills = 2
INVARIANTS OwnDatabase VerdictIsEarned ClosedInOrder LeavesOnlyFailures
CHECK_DEADLOCK FALSE
