SPECIFICATION GoldenSpec
CONSTANTS
    Nothing = Nothing
    MaxTurns = 3
    Suites <- MCSuites
    Calls <- MCCalls
    Others <- MCOthers
INVARIANTS
    RefusalsHold
    AttemptsAlike
    VerdictIsOfTheWork
    FailureAttested
    PipelineKept
CHECK_DEADLOCK FALSE
