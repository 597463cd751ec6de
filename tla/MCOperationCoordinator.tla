----------------------- MODULE MCOperationCoordinator -----------------------
(***************************************************************************)
(* Small instances of OperationCoordinator for TLC.                        *)
(***************************************************************************)
EXTENDS OperationCoordinator, TLC

CONSTANTS stepA, stepB

\* stepB depends on stepA; stepB alone has a precondition, which the fact "f" meets.
ChainDependsOn == (stepA :> {}) @@ (stepB :> {stepA})
ChainPreconditions == (stepA :> {}) @@ (stepB :> {"f"})

\* No dependency: the two steps compete for the same outstanding slot.
PairDependsOn == (stepA :> {}) @@ (stepB :> {})
PairPreconditions == (stepA :> {}) @@ (stepB :> {})

StepCost == (stepA :> 1) @@ (stepB :> 2)

\* Workers are interchangeable threads.
WorkerSymmetry == Permutations(Workers)
=============================================================================
