SPECIFICATION FairSpec
CONSTANTS
  MinimalCharacter = "A"
  Doc <- TextDocs
  Reduce <- TextReduce
  Original = 1
  Answers <- Truthful
INVARIANT ShrinkReachesMinimal
CHECK_DEADLOCK FALSE
