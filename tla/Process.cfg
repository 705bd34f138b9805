SPECIFICATION FairSpec
CONSTANTS
  MaxOutput = 2
  MaxWritten = 2
  PipeSize = 2
  SampledLimits = {"memory_limit"}
  LeavesGroup = FALSE
INVARIANTS OutputBounded NothingHidden LimitIsExact ExitIsTheChilds
  NoGroupMemberLeft
PROPERTIES Returns
CHECK_DEADLOCK FALSE
