SPECIFICATION Spec
CONSTANTS
  stepA = stepA
  stepB = stepB
  Steps = {stepA, stepB}
  DependsOn <- ChainDependsOn
  Preconditions <- PairPreconditions
  Cost <- StepCost
  Facts = {}
  MaxAttempts = 2
  MaxCost = 4
  Expiry = 2
  Window = 1
  Workers = {w1}
  None = None
  MaxEpoch = 2
  MaxTime = 2
  MaxPolicy = 0
INVARIANTS
  TypeOK
  VerifiedClosure
  ReceiptsBracketCall
PROPERTIES
  CallUnderApproval
  ObservationRetained
  ClosedIsFinal
CHECK_DEADLOCK FALSE
