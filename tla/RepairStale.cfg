SPECIFICATION Spec
CONSTANTS
  Files <- MCFiles
  Names <- MCNames
  Resolves <- MCResolves
  Labels <- MCLabels
  Snippets = {"a", "b", "c"}
  Requests <- MCRequests
  InitialFiles <- MCInitialFiles
  TheirTexts <- MCTheirTexts
  MaxAttempts = 2
  MaxResponses = 3
  MaxEdits = 1
  MaxRuns = 2
INVARIANT StalePatchDoesNotExecute
CHECK_DEADLOCK FALSE
