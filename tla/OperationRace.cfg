SPECIFICATION Spec
CONSTANTS
  stepA = stepA
  stepB = stepB
  Steps = {stepA, stepB}
  DependsOn <- PairDependsOn
  Preconditions <- ChainPreconditions
  Cost <- StepCost
  Facts = {"f"}
  MaxAttempts = 2
  MaxCost = 3
  Expiry = 1
  Window = 1
  Workers = {w1, w2}
  None = None
  MaxEpoch = 2
  MaxTime = 0
  MaxPolicy = 0
INVARIANTS
  AtMostOneCallPerStep
  OneUnreconciledAttempt
  PhaseIsTruthful
  ReservationOwned
  DispatchInvariant
PROPERTY ImplementsProviderEffects
SYMMETRY WorkerSymmetry
CHECK_DEADLOCK FALSE
