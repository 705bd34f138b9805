SPECIFICATION FairSpec
CONSTANTS
  MinimalCharacter = "A"
  Doc <- TextDocs
  Reduce <- TextReduce
  Original = 1
  Answers <- Flaky
INVARIANTS OnlyValidShown AcceptedIsAPath
  MinimalIsVerified VerdictIsTrue
PROPERTIES RejectionNeedsFlakiness NeverAskedTwice Terminates ImplementsMinimization
CHECK_DEADLOCK FALSE
