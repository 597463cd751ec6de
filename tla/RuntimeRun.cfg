SPECIFICATION Spec
CONSTANTS
  Prints <- MCPrints
  Window = 2
  MaxHops = 1
  MaxRuns = 4
INVARIANTS
  TypeOK
  AuthorityPrecedesExecution
  FlagIsExact
  ReportHasItsReceipts
  FailureAfterSuccessIsReconsidered
