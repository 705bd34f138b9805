SPECIFICATION FairSpec
CONSTANTS
  Doc <- MCDoc
  Seed = "seed"
  Candidates <- MCCandidates
  Reduce <- MCReduce
  Importers <- MCImporters
  Edits <- MCEdits
  BatchSize = 2
  Reproductions = 2
INVARIANT OneMinimalIsMinimal
CHECK_DEADLOCK FALSE
