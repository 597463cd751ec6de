SPECIFICATION Spec
CONSTANTS
  stepA = stepA
  stepB = stepB
  Steps = {stepA, stepB}
  DependsOn <- PairDependsOn
  Preconditions <- PairPreconditions
  Cost <- StepCost
  Facts = {}
  MaxAttempts = 2
  MaxCost = 4
  Expiry = 1
  Window = 1
  Workers = {w1}
  None = None
  MaxEpoch = 2
  MaxTime = 0
  MaxPolicy = 0
INVARIANT TransportStateOfAttempted
CHECK_DEADLOCK FALSE
