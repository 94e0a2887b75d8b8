SPECIFICATION CycleSpec
CONSTANTS
  Path <- MCPath
  Content = {"v0", "v1"}
  LinkTo <- MCLinkTo
  MaxSymlinkHops = 2
  Trees <- MCTrees
  Calls <- MCCalls
  Diffs <- MCDiffs
  Meddling <- MCMeddling
  MaxIterations = 2
  MaxAttempts = 4
  MaxErrors = 2
  Breakers <- MCBreakers
  Nothing = Nothing
INVARIANTS SuccessTested CycleUndone
PROPERTIES WritesLand AllOrNothing
CHECK_DEADLOCK FALSE
