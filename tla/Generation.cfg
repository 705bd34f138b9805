SPECIFICATION Spec
CONSTANTS
  MinimalCharacter = "A"
  Seed <- SeedInvoice
  Counts = {12, 399, 400}
  CampaignSeeds = {3}
  Shards <- GateAndShard
  Periods = {1, 97}
  Stride = 512
  Rejections <- AnyRejected
  FileNames <- SomeNames
  Archives <- SmallArchives
  LowerCase <- InLowerCase
  Operations <- UpToTwelve
INVARIANTS EveryCandidateIsNew CoverageIsExact PassedMeansAccepted TotalsAgree
  RoundTrips ReductionsAreSmallerInvoices FailureLeavesNothing
CHECK_DEADLOCK FALSE
