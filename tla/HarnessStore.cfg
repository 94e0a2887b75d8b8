SPECIFICATION Spec
CONSTANTS
  Procs = {p1, p2}
  Harnesses = {"l1", "l2", "d1", "d2"}
  Ids = {"legacy", "d"}
  IdOf <- MCIdOf
  LegacyId = "legacy"
  Committed = {"d1"}
  Files = {"d1", "d2"}
  Evolved = {"d2"}
INVARIANTS NamesResolve LoneCommandTakesEffect NamesKept
SYMMETRY Symmetry
