SPECIFICATION FairSpec
CONSTANTS
    NumNodes = 4
    MaxConcurrent = 3
    k1 = k1
    k2 = k2
    Key = {k1, k2}
    Plans <- MCPlans
INVARIANT
    WritersSerialized
PROPERTIES
    ImplementsContract
    RunReturns
CHECK_DEADLOCK FALSE
