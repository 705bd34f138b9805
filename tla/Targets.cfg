SPECIFICATION Spec
CONSTANTS
  Call = {first, second}
  Staged = TRUE
  MaxOutput = 2
  Name <- MCName
  Under <- MCUnder
  Kinds <- MCKinds
  Root = "root"
  Files = "files"
  Copy = "copy"
  Input = "input"
  Output = "out"
  Chunks = 2
  MaxEdits = 3
  MaxCreated = 1
INVARIANTS ReturnedIsClean StagedIsASnapshot ExitedWithinBudget
  ScanTellsTheTruth
PROPERTIES KillsOnlyItsOwn CallsEnd
CHECK_DEADLOCK FALSE
