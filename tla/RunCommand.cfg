SPECIFICATION Spec
CONSTANTS
    Contents = {"new"}
    Layouts <- MCLayouts
    MaxCommits = 1
    None = None
    Configs <- MCConfigs
    RoleSets <- MCRoleSets
    Policies <- MCPolicies
    Queries = {q1}
    Statements = 2
    MaxCallAttempts = 2
INVARIANTS
    NothingSkipped
    OfferIsWhole
    RefusedLeavesNothing
    ExitTellsTruth
    ReleasedWhenIdle
PROPERTIES
    VerifiedIsSigned
    UserUntouched
    EndsReleased
CHECK_DEADLOCK FALSE
