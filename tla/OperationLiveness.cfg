SPECIFICATION FairSpec
CONSTANTS
  stepA = stepA
  stepB = stepB
  Steps = {stepA, stepB}
  DependsOn <- PairDependsOn
  Preconditions <- PairPreconditions
  Cost <- StepCost
  Facts = {}
  MaxAttempts = 2
  MaxCost = 4
  Expiry = 1
  Window = 1
  Workers = {w1, w2}
  None = None
  MaxEpoch = 1
  MaxTime = 0
  MaxPolicy = 1
PROPERTY DispatchEnds
CHECK_DEADLOCK FALSE
