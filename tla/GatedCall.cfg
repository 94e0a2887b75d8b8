SPECIFICATION FairSpec
CONSTANTS
    a = a
    b = b
    c = c
    Call = {a, b, c}
    i1 = i1
    i2 = i2
    Id = {i1, i2}
    h1 = h1
    h2 = h2
    Hash = {h1, h2}
    IdOf <- MCIdOf
    HashOf <- MCHashOf
    MaxLines = 1
    MaxChanged = 1
    None = None
INVARIANTS
    OnlyPermittedRun
    ApprovedAsShown
    BundleComplete
PROPERTY
    EscalationAnswered
CHECK_DEADLOCK FALSE
