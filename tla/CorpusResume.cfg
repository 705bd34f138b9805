SPECIFICATION Spec
CONSTANTS
  Worker = {w1, w2}
  Plan = {"both", "first", "other"}
  CasesOf <- MCCasesOf
  SeedOf <- MCSeedOf
  FullPlan = {"both"}
  MaxCommands = 2
CHECK_DEADLOCK FALSE
INVARIANT Resumable
