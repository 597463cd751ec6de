SPECIFICATION Spec
CONSTANTS
  Prints <- MCPrints
  Window = 2
  MaxHops = 1
  MaxRuns = 1
INVARIANTS
  MissingStatusDoesNotCount
