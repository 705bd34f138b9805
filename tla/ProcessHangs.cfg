SPECIFICATION FairSpec
CONSTANTS
  MaxOutput = 1
  MaxWritten = 1
  PipeSize = 1
  SampledLimits = {"memory_limit"}
  LeavesGroup = TRUE
PROPERTIES Returns
CHECK_DEADLOCK FALSE
