SPECIFICATION Spec
CONSTANTS
  Roles = {"coder", "security"}
  Sensitive = {"security"}
  Tools = {"t", "u", "x"}
  KnownTools = {"t", "u"}
  KnownProcessors = {"known"}
  KnownModels = {}
  Prompts = {"p", "q", "bad"}
  Screened = {"p", "q"}
  Tasks = {"t1", "t2", "t3"}
  JudgeOnly = {"t3"}
  Rows <- MCRows
  Firsts <- MCFirsts
  Manifests <- MCManifests
  MaxRounds = 3
  Patience = 2
  None = None
INVARIANTS NothingUnsolved ShippedAsExamined
CHECK_DEADLOCK FALSE
