SPECIFICATION Spec
CONSTANTS
  Doc = {"invoice", "other invoice", "no invoice"}
  NoInvoice = {"no invoice"}
  Command = {"import", "other import"}
  Own = "own import"
  Policy = {"small", "large", "excessive"}
  Predicate = {"output-invalid", "timeout", "declared-field-loss"}
  Excessive = {"excessive"}
  Nothing = Nothing
INVARIANTS NothingRunsUnauthorized VerdictIsAboutTheFinding
  OwnCapsulesVerify
CHECK_DEADLOCK FALSE
