----------------------- MODULE OperationEvidence_proofs -----------------------
(***************************************************************************)
(* Theorems about OperationCoordinator: what the recorded observations     *)
(* and the close of an operation guarantee.                                *)
(***************************************************************************)
EXTENDS OperationEffects_proofs, FiniteSetTheorems

-----------------------------------------------------------------------------
(***************************************************************************)
(* Closing.                                                                *)
(***************************************************************************)
ClosedDropped == op.closed => op.approval = None

\* What a closed operation still allows.
LEMMA ClosedStep ==
  ASSUME TypeOK, ClosedDropped, op.closed, [Next]_vars
  PROVE  op' = op
<1>1. ASSUME NEW w \in Workers, NEW s \in Steps, Reserve(w, s) PROVE FALSE
  BY <1>1 DEF Reserve, Ready, WindowOpen
<1>2. ASSUME NEW facts, NEW until, NEW closed, NextEpoch(facts, until, closed) PROVE FALSE
  BY <1>2 DEF NextEpoch
<1>3. CASE Operator
  BY <1>2, <1>3 DEF Operator, Conditions, Suspend, Close, Approve, WindowOpen, Observe
<1>4. ASSUME NEW w \in Workers, Proceed(w) PROVE op' = op
  BY <1>4 DEF Proceed, GatewayRefuses, MeshReserve, CommitAuthorization, LedgerAuthorized,
      RecordAuthorization, ProofUnavailable, EnterGuard, GuardRefuses, ProviderCall,
      CommitAttempt, RollbackAttempt, OutcomeReceipt, OutcomeReceiptFails,
      LedgerComplete, CompletionFails, Finish
<1>5. QED
  BY <1>1, <1>3, <1>4 DEF Next, Crash, Redeploy, Tick, vars

\* The approval falls with the close, and none is given afterwards.
LEMMA DroppedStep ==
  ASSUME TypeOK, ClosedDropped, [Next]_vars
  PROVE  ClosedDropped'
<1>1. CASE op.closed
  BY <1>1, ClosedStep DEF ClosedDropped
<1>2. CASE ~op.closed
  <2>1. ASSUME NEW facts, NEW until, NEW closed, NextEpoch(facts, until, closed)
        PROVE  op'.approval = None
    BY <2>1 DEF NextEpoch, TypeOK, Operations
  <2>2. ASSUME NEW w \in Workers, NEW s \in Steps, Reserve(w, s) PROVE op'.closed = op.closed
    <3> DEFINE n == op.attempts + 1
               spent == op.spent + Cost[s]
    <3>1. op' = [op EXCEPT !.attempts = n, !.spent = spent]
      BY <2>2 DEF Reserve
    <3> HIDE DEF n, spent
    <3>2. QED
      BY <3>1 DEF TypeOK, Operations
  <2>3. CASE Approve
    BY <2>3, <1>2 DEF Approve, TypeOK, Operations, ClosedDropped
  <2>4. CASE Operator
    BY <1>2, <2>1, <2>3, <2>4 DEF Operator, Conditions, Suspend, Close, Observe, ClosedDropped
  <2>5. ASSUME NEW w \in Workers, Proceed(w) PROVE op' = op
    BY <2>5 DEF Proceed, GatewayRefuses, MeshReserve, CommitAuthorization, LedgerAuthorized,
        RecordAuthorization, ProofUnavailable, EnterGuard, GuardRefuses, ProviderCall,
        CommitAttempt, RollbackAttempt, OutcomeReceipt, OutcomeReceiptFails,
        LedgerComplete, CompletionFails, Finish
  <2>6. QED
    BY <1>2, <2>2, <2>4, <2>5 DEF Next, Crash, Redeploy, Tick, vars, ClosedDropped
<1>3. QED
  BY <1>1, <1>2

\* Closing cannot be taken back: a closed operation reserves nothing, calls
\* nobody and is approved by nobody (_operator).
THEOREM ClosedForGood == Spec => ClosedIsFinal
<1>1. Init => ClosedDropped
  BY DEF Init, ClosedDropped
<1>2. TypeOK /\ ClosedDropped /\ [Next]_vars => ClosedDropped'
  BY DroppedStep
<1>3. Init => Guarded
  BY GuardedInit
<1>4. TypeOK /\ Guarded /\ [Next]_vars => Guarded'
  BY GuardedStep
<1> DEFINE Final == op.closed => /\ op'.closed
                                 /\ calls' = calls
                                 /\ op'.attempts = op.attempts
                                 /\ op'.approval = None
<1>5. ASSUME TypeOK, DispatchInvariant, Guarded, ClosedDropped, [Next]_vars, op.closed
      PROVE  op'.closed /\ calls' = calls /\ op'.attempts = op.attempts /\ op'.approval = None
  <2>1. op' = op
    BY <1>5, ClosedStep
  <2>2. calls' = calls
    BY <1>5, NoEffectSteps
    DEF NoEffect, Reserve, CommitAttempt, Finish, ProviderCall, Guarded, Approved
  <2>3. QED
    BY <1>5, <2>1, <2>2 DEF ClosedDropped
<1>6. TypeOK /\ DispatchInvariant /\ Guarded /\ ClosedDropped /\ [Next]_vars => [Final]_vars
  BY <1>5
<1>7. QED
  BY <1>1, <1>2, <1>3, <1>4, <1>6, TypeCorrect, DispatchCorrect, PTL DEF Spec, ClosedIsFinal

-----------------------------------------------------------------------------
(***************************************************************************)
(* Recorded observations.                                                  *)
(***************************************************************************)
Retains(phase) == phase \in {"reserved", "attempted"}

\* Only a retained attempt has an observation, of a target that the present
\* epoch and policy have reached.
ObservationInvariant ==
  \A s \in Steps : steps[s].observation # None =>
    /\ Retains(steps[s].phase)
    /\ steps[s].observation.target.epoch <= op.epoch
    /\ steps[s].observation.target.policy <= policy

\* Steps that leave every observation, and mark or free a reservation at most.
SameEvidence ==
  /\ \A s \in Steps :
       /\ steps'[s].observation = steps[s].observation
       /\ Retains(steps'[s].phase) => Retains(steps[s].phase)
       /\ Retains(steps[s].phase) => Retains(steps'[s].phase) \/ steps[s].observation = None
  /\ Snapshot' = Snapshot /\ op'.epoch = op.epoch /\ policy' = policy

\* Steps that change what evidence must be about, by a new epoch or policy.
NewTarget ==
  /\ steps' = steps
  /\ \/ op'.epoch = op.epoch + 1 /\ policy' = policy
     \/ op' = op /\ policy' = policy + 1

\* Nothing else happens to the evidence in a step of the operation.
LEMMA EvidenceSteps ==
  ASSUME TypeOK, DispatchInvariant, ObservationInvariant, [Next]_vars
  PROVE  \/ SameEvidence \/ NewTarget
         \/ \E s \in Steps : Observe(s)
         \/ \E w \in Workers, s \in Steps : Reserve(w, s)
<1>a. op \in Operations /\ steps \in [Steps -> Entries] /\ \A s \in Steps : steps[s] \in Entries
  BY DEF TypeOK
<1>1. ASSUME steps' = steps, op' = op, policy' = policy PROVE SameEvidence
  BY <1>1 DEF SameEvidence, Snapshot
<1>2. ASSUME NEW w \in Workers, RecordAuthorization(w) PROVE SameEvidence
  <2>1. steps' = [steps EXCEPT ![StepOf(w)] = [steps[StepOf(w)] EXCEPT !.authorized = TRUE]]
        /\ op' = op /\ policy' = policy
    BY <1>2 DEF RecordAuthorization
  <2>2. \A s \in Steps : /\ steps'[s].observation = steps[s].observation
                         /\ steps'[s].phase = steps[s].phase
    BY <1>a, <2>1 DEF Entries
  <2>3. QED
    BY <2>1, <2>2 DEF SameEvidence, Snapshot
<1>3. ASSUME NEW w \in Workers, CommitAttempt(w) PROVE SameEvidence
  <2>1. steps' = [steps EXCEPT ![StepOf(w)] = [steps[StepOf(w)] EXCEPT !.phase = "attempted"]]
        /\ op' = op /\ policy' = policy
    BY <1>3 DEF CommitAttempt
  <2>2. steps[StepOf(w)].phase = "reserved"
    BY <1>3 DEF CommitAttempt, DispatchInvariant, Standing
  <2>3. \A s \in Steps : /\ steps'[s].observation = steps[s].observation
                         /\ s # StepOf(w) => steps'[s].phase = steps[s].phase
                         /\ s = StepOf(w) => steps'[s].phase = "attempted"
    BY <1>a, <2>1 DEF Entries
  <2>4. QED
    BY <2>1, <2>2, <2>3 DEF SameEvidence, Snapshot, Retains
<1>4. ASSUME NEW w \in Workers, Finish(w) PROVE SameEvidence
  <2>1. steps' = [steps EXCEPT ![StepOf(w)] =
                    [steps[StepOf(w)] EXCEPT !.phase = SettledPhase(w),
                                             !.transport = ReportedTransport(w)]]
        /\ op' = op /\ policy' = policy
    BY <1>4 DEF Finish
  <2>2. \/ SettledPhase(w) = steps[StepOf(w)].phase
        \/ /\ SettledPhase(w) = "not_attempted" /\ steps[StepOf(w)].observation = None
    BY DEF SettledPhase
  <2>3. \A s \in Steps : /\ steps'[s].observation = steps[s].observation
                         /\ s # StepOf(w) => steps'[s].phase = steps[s].phase
                         /\ s = StepOf(w) => steps'[s].phase = SettledPhase(w)
    BY <1>a, <2>1 DEF Entries
  <2>4. QED
    BY <2>1, <2>2, <2>3 DEF SameEvidence, Snapshot, Retains
<1>5. ASSUME NEW facts, NEW until, NEW closed, NextEpoch(facts, until, closed) PROVE NewTarget
  BY <1>5, <1>a DEF NextEpoch, Operations, NewTarget
<1>6. CASE Approve
  <2>1. op' = [op EXCEPT !.approval = Snapshot] /\ steps' = steps /\ policy' = policy
    BY <1>6 DEF Approve
  <2>2. op'.epoch = op.epoch /\ op'.facts = op.facts /\ op'.until = op.until
    BY <1>a, <2>1 DEF Operations
  <2>3. SameEvidence
    BY <2>1, <2>2 DEF SameEvidence, Snapshot
  <2>4. QED
    BY <2>3
<1>7. CASE Operator
  BY <1>5, <1>6, <1>7 DEF Operator, Conditions, Suspend, Close
<1>8. ASSUME NEW w \in Workers, Proceed(w) PROVE SameEvidence
  <2>1. CASE \/ GatewayRefuses(w) \/ MeshReserve(w) \/ CommitAuthorization(w)
             \/ LedgerAuthorized(w) \/ ProofUnavailable(w) \/ EnterGuard(w)
             \/ GuardRefuses(w) \/ ProviderCall(w) \/ RollbackAttempt(w) \/ OutcomeReceipt(w)
             \/ OutcomeReceiptFails(w) \/ LedgerComplete(w) \/ CompletionFails(w)
    <3>1. steps' = steps /\ op' = op /\ policy' = policy
      BY <2>1 DEF GatewayRefuses, MeshReserve, CommitAuthorization, LedgerAuthorized,
          ProofUnavailable, EnterGuard, GuardRefuses, ProviderCall, RollbackAttempt,
          OutcomeReceipt, OutcomeReceiptFails, LedgerComplete, CompletionFails
    <3>2. QED
      BY <1>1, <3>1
  <2>2. QED
    BY <1>2, <1>3, <1>4, <1>8, <2>1 DEF Proceed
<1>9. CASE Redeploy
  BY <1>9 DEF Redeploy, NewTarget
<1>10. CASE Tick \/ UNCHANGED vars \/ \E w \in Workers : Crash(w)
  <2>1. steps' = steps /\ op' = op /\ policy' = policy
    BY <1>10 DEF Tick, vars, Crash
  <2>2. QED
    BY <1>1, <2>1
<1>11. QED
  BY <1>7, <1>8, <1>9, <1>10 DEF Next

\* What an observation does to its step.
LEMMA ObserveFacts ==
  ASSUME TypeOK, NEW s \in Steps, Observe(s)
  PROVE  /\ UNCHANGED <<op, policy>> /\ Snapshot' = Snapshot
         /\ Retains(steps[s].phase)
         /\ \A t \in Steps : /\ steps'[t].phase = steps[t].phase
                             /\ t # s => steps'[t].observation = steps[t].observation
         /\ steps'[s].observation # None
         /\ steps'[s].observation.target = Snapshot
         /\ Recordable(s, steps'[s].observation.disposition)
<1>1. PICK produced \in steps[s].reservedAt..now, disposition \in Dispositions :
        /\ Recordable(s, disposition)
        /\ steps' = [steps EXCEPT ![s] = [steps[s] EXCEPT !.observation =
                       [disposition |-> disposition, target |-> Snapshot,
                        produced |-> produced]]]
  BY DEF Observe
<1> DEFINE obs == [disposition |-> disposition, target |-> Snapshot, produced |-> produced]
<1>2. steps[s] \in Entries /\ steps \in [Steps -> Entries]
  BY DEF TypeOK
<1>3. obs \in Observations
  <2>1. steps[s].reservedAt \in Nat /\ now \in Nat
    BY <1>2 DEF Entries, TypeOK
  <2>2. produced \in Nat
    BY <2>1
  <2>3. QED
    BY <2>2, SnapshotType DEF Observations
<1>4. obs.disposition = disposition /\ obs.target = Snapshot /\ obs # None
  BY <1>3, NoneAssumption
<1> HIDE DEF obs
<1>5. steps' = [steps EXCEPT ![s] = [steps[s] EXCEPT !.observation = obs]]
  BY <1>1 DEF obs
<1>6. /\ \A t \in Steps : /\ steps'[t].phase = steps[t].phase
                          /\ t # s => steps'[t].observation = steps[t].observation
      /\ steps'[s].observation = obs
  BY <1>2, <1>5 DEF Entries
<1>7. UNCHANGED <<op, policy>> /\ Snapshot' = Snapshot /\ Retains(steps[s].phase)
  BY DEF Observe, Snapshot, Observable, Retains
<1>8. QED
  BY <1>1, <1>4, <1>6, <1>7

\* What a reservation does to its step: nothing was observed of it.
LEMMA ReserveFacts ==
  ASSUME TypeOK, NEW w \in Workers, NEW s \in Steps, Reserve(w, s)
  PROVE  /\ policy' = policy /\ Snapshot' = Snapshot /\ op'.epoch = op.epoch
         /\ ~Retains(steps[s].phase)
         /\ \A t \in Steps : t # s => steps'[t] = steps[t]
         /\ steps'[s].observation = None /\ Retains(steps'[s].phase)
         /\ \A t \in Steps : ~Outstanding(t)
<1> DEFINE n == op.attempts + 1
           spent == op.spent + Cost[s]
           entry == [phase |-> "reserved", request |-> n, reservedAt |-> now,
                     authorized |-> FALSE, transport |-> "", observation |-> None]
<1>1. /\ op' = [op EXCEPT !.attempts = n, !.spent = spent]
      /\ steps' = [steps EXCEPT ![s] = entry]
      /\ policy' = policy /\ ~Retains(steps[s].phase)
      /\ \A t \in Steps : ~Outstanding(t)
  BY DEF Reserve, Reservable, Ready, Retains
<1>2. entry.phase = "reserved" /\ entry.observation = None
  OBVIOUS
<1> HIDE DEF n, spent, entry
<1>3. op'.epoch = op.epoch /\ op'.facts = op.facts /\ op'.until = op.until
  BY <1>1 DEF TypeOK, Operations
<1>4. steps'[s] = entry /\ \A t \in Steps : t # s => steps'[t] = steps[t]
  BY <1>1 DEF TypeOK
<1>5. QED
  BY <1>1, <1>2, <1>3, <1>4 DEF Snapshot, Retains

\* Evidence stays within what the epoch and the policy have reached.
LEMMA ObservationStep ==
  ASSUME TypeOK, DispatchInvariant, ObservationInvariant, [Next]_vars
  PROVE  ObservationInvariant'
<1>a. /\ op.epoch \in Nat /\ policy \in Nat
      /\ \A s \in Steps : steps[s].observation # None =>
           steps[s].observation.target.epoch \in Nat /\ steps[s].observation.target.policy \in Nat
  BY LimitAssumption DEF TypeOK, Operations, Entries, Observations, Snapshots
<1>1. CASE SameEvidence
  BY <1>1 DEF SameEvidence, ObservationInvariant
<1>2. CASE NewTarget
  <2>1. op.epoch <= op'.epoch /\ policy <= policy' /\ op'.epoch \in Nat /\ policy' \in Nat
    BY <1>a, <1>2 DEF NewTarget
  <2>2. steps' = steps
    BY <1>2 DEF NewTarget
  <2>3. QED
    BY <1>a, <2>1, <2>2 DEF ObservationInvariant
<1>3. ASSUME NEW s \in Steps, Observe(s) PROVE ObservationInvariant'
  <2>1. Snapshot.epoch = op.epoch /\ Snapshot.policy = policy
    BY DEF Snapshot
  <2>2. QED
    BY <1>a, <1>3, <2>1, ObserveFacts DEF ObservationInvariant, Retains
<1>4. ASSUME NEW w \in Workers, NEW s \in Steps, Reserve(w, s) PROVE ObservationInvariant'
  BY <1>4, ReserveFacts DEF ObservationInvariant
<1>5. QED
  BY <1>1, <1>2, <1>3, <1>4, EvidenceSteps

\* No step has an observation at first.
LEMMA NothingObserved ==
  Init => \A s \in Steps : steps[s].phase = "pending" /\ steps[s].observation = None
<1> SUFFICES ASSUME Init, NEW s \in Steps
             PROVE  steps[s].phase = "pending" /\ steps[s].observation = None
  OBVIOUS
<1>1. steps[s] = Pending
  BY DEF Init
<1>2. Pending.phase = "pending" /\ Pending.observation = None
  BY DEF Pending
<1>3. QED
  BY <1>1, <1>2

\* Every reachable observation is of a retained attempt, and of no later epoch
\* or policy than the present ones.
LEMMA ObservationCorrect == Spec => []ObservationInvariant
<1>1. Init => ObservationInvariant
  BY NothingObserved DEF ObservationInvariant
<1>2. QED
  BY <1>1, ObservationStep, TypeCorrect, DispatchCorrect, PTL DEF Spec

\* Recorded evidence is kept within its epoch, but for a mismatch that a
\* recovery replaces; a reservation discards none (_observe, _dispatch).
THEOREM EvidenceKept == Spec => ObservationRetained
<1> DEFINE Kept(s) ==
      LET before == steps[s].observation
          after == steps'[s].observation
      IN  (before # None /\ after # before) =>
            /\ after # None
            /\ \/ op.epoch > before.target.epoch
               \/ before.disposition = "mismatch" /\ after.disposition = "recovered"
<1>1. ASSUME TypeOK, DispatchInvariant, ObservationInvariant, [Next]_vars, NEW s \in Steps
      PROVE  Kept(s)
  <2>1. CASE SameEvidence \/ NewTarget
    BY <2>1 DEF SameEvidence, NewTarget
  <2>2. ASSUME NEW t \in Steps, Observe(t) PROVE Kept(s)
    <3>1. CASE t # s
      BY <1>1, <2>2, <3>1, ObserveFacts
    <3>2. CASE t = s
      <4>1. /\ steps'[s].observation # None
            /\ Recordable(s, steps'[s].observation.disposition)
        BY <1>1, <2>2, <3>2, ObserveFacts
      <4>2. steps[s].observation # None =>
              /\ steps[s].observation.target.epoch \in Nat /\ op.epoch \in Nat
              /\ steps[s].observation.target.epoch <= op.epoch
        BY <1>1, LimitAssumption
        DEF ObservationInvariant, TypeOK, Operations, Entries, Observations, Snapshots
      <4>3. QED
        BY <4>1, <4>2 DEF Recordable
    <3>3. QED
      BY <3>1, <3>2
  <2>3. ASSUME NEW w \in Workers, NEW t \in Steps, Reserve(w, t) PROVE Kept(s)
    <3>1. CASE t # s
      BY <1>1, <2>3, <3>1, ReserveFacts
    <3>2. CASE t = s
      <4>1. steps[s].observation = None
        BY <1>1, <2>3, <3>2, ReserveFacts DEF ObservationInvariant
      <4>2. QED
        BY <4>1
    <3>3. QED
      BY <3>1, <3>2
  <2>4. QED
    BY <1>1, <2>1, <2>2, <2>3, EvidenceSteps
<1>2. TypeOK /\ DispatchInvariant /\ ObservationInvariant /\ [Next]_vars
        => [\A s \in Steps : Kept(s)]_vars
  BY <1>1
<1>3. QED
  BY <1>2, TypeCorrect, DispatchCorrect, ObservationCorrect, PTL DEF Spec, ObservationRetained

-----------------------------------------------------------------------------
(***************************************************************************)
(* Unreconciled attempts.                                                  *)
(***************************************************************************)
Unobserved(s) == Retains(steps[s].phase) /\ steps[s].observation = None

SingleUnobserved == \A s, t \in Steps : Unobserved(s) /\ Unobserved(t) => s = t

\* A reservation finds no unobserved attempt, and nothing else makes one.
LEMMA SingleStep ==
  ASSUME TypeOK, DispatchInvariant, ObservationInvariant, SingleUnobserved, [Next]_vars
  PROVE  SingleUnobserved'
<1>1. CASE SameEvidence \/ NewTarget
  BY <1>1 DEF SameEvidence, NewTarget, SingleUnobserved, Unobserved
<1>2. ASSUME NEW s \in Steps, Observe(s) PROVE SingleUnobserved'
  <2>1. \A t \in Steps : Unobserved(t)' => Unobserved(t)
    BY <1>2, ObserveFacts DEF Unobserved
  <2>2. QED
    BY <2>1 DEF SingleUnobserved
<1>3. ASSUME NEW w \in Workers, NEW s \in Steps, Reserve(w, s) PROVE SingleUnobserved'
  <2>1. \A t \in Steps : ~Unobserved(t)
    BY <1>3, ReserveFacts DEF Unobserved, Retains, Outstanding, Current
  <2>2. \A t \in Steps : t # s => ~Unobserved(t)'
    BY <1>3, <2>1, ReserveFacts DEF Unobserved
  <2>3. QED
    BY <2>2 DEF SingleUnobserved
<1>4. QED
  BY <1>1, <1>2, <1>3, EvidenceSteps

\* At most one retained attempt was never observed: the next effect is
\* reserved only when every earlier one is reconciled (_check_ready).
THEOREM OneUnreconciled == Spec => []OneUnreconciledAttempt
<1>1. Init => SingleUnobserved
  BY NothingObserved DEF SingleUnobserved, Unobserved, Retains
<1>2. TypeOK /\ DispatchInvariant /\ ObservationInvariant /\ SingleUnobserved /\ [Next]_vars
        => SingleUnobserved'
  BY SingleStep
<1>3. ASSUME SingleUnobserved PROVE OneUnreconciledAttempt
  <2> DEFINE S == {s \in Steps : /\ steps[s].phase \in {"reserved", "attempted"}
                                 /\ steps[s].observation = None}
  <2>1. \A s, t \in S : s = t
    BY <1>3 DEF SingleUnobserved, Unobserved, Retains
  <2>2. CASE S = {}
    <3>1. Cardinality(S) = 0
      BY <2>2, FS_EmptySet
    <3>2. QED
      BY <3>1 DEF OneUnreconciledAttempt
  <2>3. CASE S # {}
    <3>1. PICK x \in S : TRUE
      BY <2>3
    <3>2. S = {x}
      BY <2>1, <3>1
    <3>3. Cardinality(S) = 1
      BY <3>2, FS_Singleton
    <3>4. QED
      BY <3>3 DEF OneUnreconciledAttempt
  <2>4. QED
    BY <2>2, <2>3
<1>4. QED
  BY <1>1, <1>2, <1>3, TypeCorrect, DispatchCorrect, ObservationCorrect, PTL DEF Spec

-----------------------------------------------------------------------------
(***************************************************************************)
(* Verified outcomes.                                                      *)
(***************************************************************************)
VerifiedNow(s) ==
  /\ steps[s].observation # None
  /\ steps[s].observation.target = Snapshot
  /\ steps[s].observation.disposition = "verified"

RestsOnVerified == \A s \in Steps : VerifiedNow(s) => \A d \in Dependencies(s) : VerifiedNow(d)

\* A new target verifies nothing, and nothing verified is replaced under it.
LEMMA RestsStep ==
  ASSUME TypeOK, DispatchInvariant, ObservationInvariant, RestsOnVerified, [Next]_vars
  PROVE  RestsOnVerified'
<1>a. \A s \in Steps : Dependencies(s) \subseteq Steps
  BY DEF Dependencies
<1> SUFFICES ASSUME NEW s \in Steps, VerifiedNow(s)', NEW d \in Dependencies(s)
             PROVE  VerifiedNow(d)'
  BY DEF RestsOnVerified, Dependencies
<1>b. d \in Steps
  BY <1>a
<1>1. CASE SameEvidence
  <2>1. VerifiedNow(s)
    BY <1>1 DEF SameEvidence, VerifiedNow
  <2>2. VerifiedNow(d)
    BY <2>1 DEF RestsOnVerified
  <2>3. QED
    BY <1>1, <1>b, <2>2 DEF SameEvidence, VerifiedNow
<1>2. CASE NewTarget
  <2>1. /\ steps[s].observation # None /\ steps[s].observation.target = Snapshot'
    BY <1>2 DEF NewTarget, VerifiedNow
  <2>2. /\ steps[s].observation.target.epoch <= op.epoch
        /\ steps[s].observation.target.policy <= policy
    BY <2>1 DEF ObservationInvariant
  <2>3. Snapshot'.epoch = op'.epoch /\ Snapshot'.policy = policy'
    BY DEF Snapshot
  <2>4. op'.epoch <= op.epoch /\ policy' <= policy
    BY <2>1, <2>2, <2>3
  <2>5. op.epoch \in Nat /\ policy \in Nat
    BY LimitAssumption DEF TypeOK, Operations
  <2>6. QED
    BY <1>2, <2>4, <2>5 DEF NewTarget
<1>3. ASSUME NEW t \in Steps, Observe(t) PROVE VerifiedNow(d)'
  <2>1. ~VerifiedNow(t)
    <3>1. SUFFICES ASSUME VerifiedNow(t) PROVE FALSE
      OBVIOUS
    <3>2. Recordable(t, steps'[t].observation.disposition)
      BY <1>3, ObserveFacts
    <3>3. steps[t].observation.target.epoch = op.epoch
      BY <3>1 DEF VerifiedNow, Snapshot
    <3>4. QED
      BY <3>1, <3>2, <3>3 DEF Recordable, VerifiedNow
  <2>2. CASE t # s
    <3>1. VerifiedNow(s)
      BY <1>3, <2>2, ObserveFacts DEF VerifiedNow
    <3>2. VerifiedNow(d)
      BY <3>1 DEF RestsOnVerified
    <3>3. d # t
      BY <2>1, <3>2
    <3>4. QED
      BY <1>3, <1>b, <3>2, <3>3, ObserveFacts DEF VerifiedNow
  <2>3. CASE t = s
    <3>1. Recordable(s, "verified")
      BY <1>3, <2>3, ObserveFacts DEF VerifiedNow
    <3>2. Verified(d)
      BY <3>1 DEF Recordable
    <3>3. VerifiedNow(d)
      BY <3>2 DEF Verified, Current, VerifiedNow
    <3>4. CASE d = s
      BY <3>4
    <3>5. CASE d # s
      BY <1>3, <1>b, <2>3, <3>3, <3>5, ObserveFacts DEF VerifiedNow
    <3>6. QED
      BY <3>4, <3>5
  <2>4. QED
    BY <2>2, <2>3
<1>4. ASSUME NEW w \in Workers, NEW t \in Steps, Reserve(w, t) PROVE VerifiedNow(d)'
  <2>1. s # t /\ VerifiedNow(s)
    BY <1>4, ReserveFacts DEF VerifiedNow
  <2>2. VerifiedNow(d)
    BY <2>1 DEF RestsOnVerified
  <2>3. d # t
    BY <1>4, <1>b, <2>2, ReserveFacts DEF VerifiedNow, ObservationInvariant
  <2>4. QED
    BY <1>4, <1>b, <2>2, <2>3, ReserveFacts DEF VerifiedNow
<1>5. QED
  BY <1>1, <1>2, <1>3, <1>4, EvidenceSteps

\* A step verified in this epoch rests on dependencies verified in this epoch:
\* no later observation or reservation takes them away (_observe).
THEOREM VerifiedRestsOnVerified == Spec => []VerifiedClosure
<1>1. Init => RestsOnVerified
  BY NothingObserved DEF RestsOnVerified, VerifiedNow
<1>2. TypeOK /\ DispatchInvariant /\ ObservationInvariant /\ RestsOnVerified /\ [Next]_vars
        => RestsOnVerified'
  BY RestsStep
<1>3. RestsOnVerified => VerifiedClosure
  BY DEF RestsOnVerified, VerifiedClosure, VerifiedNow
<1>4. QED
  BY <1>1, <1>2, <1>3, TypeCorrect, DispatchCorrect, ObservationCorrect, PTL DEF Spec
=============================================================================
