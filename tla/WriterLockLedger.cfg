SPECIFICATION LedgerSpec
CONSTANTS
    Writer = {w1, w2, w3}
    Reader = {r1}
    MaxTime = 4
INVARIANT
    AnswerTrue
CHECK_DEADLOCK FALSE
