SPECIFICATION Spec
CONSTANTS
    w2 = w2
    x1 = x1
    Writer = {w1, w2}
    Reader = {r1}
    CliReader = {x1}
    Lacking <- MCLacking
    Path = {p}
    Content = {c0, c1}
    Original = c0
    MaxAttempts = 2
    MaxEdits = 1
    ReadersWrite = TRUE
    WritersCommit = TRUE
    None = None
INVARIANTS
    ReadUnlessOutOfSight
    RuleBWasRead
