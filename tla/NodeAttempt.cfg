SPECIFICATION FairSpec
CONSTANTS
  Nodes <- MCNodes
  Contents = {"start", "changed"}
  Start = "start"
  MaxAttempts = 2
  MaxTurns = 2
  MaxRepairs = 1
  MaxCalls = 1
INVARIANTS ReadOncePerAttempt SuccessHolds RefusalStands
PROPERTY NodeEnds
CHECK_DEADLOCK FALSE
