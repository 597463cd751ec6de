--------------------- MODULE OperationCoordinator_proofs ---------------------
(***************************************************************************)
(* Theorems about OperationCoordinator, for every plan, every set of       *)
(* workers and all bounds.                                                 *)
(***************************************************************************)
EXTENDS OperationCoordinator, TLAPS

USE DEF Requests

\* What _snapshot computes has the type approvals and targets have.
LEMMA SnapshotType == TypeOK => Snapshot \in Snapshots
  BY DEF TypeOK, Operations, Snapshot, Snapshots

\* Binding a reservation to the evidence of its dependencies is well typed.
LEMMA EvidenceType ==
  ASSUME TypeOK, NEW s \in Steps
  PROVE  DependencyEvidence(s) \in [Steps -> Observations \union {None}]
  BY DEF TypeOK, DependencyEvidence, Entries

\* A reply and a move of the program counter keep the type of the workers.
LEMMA MoveType ==
  ASSUME TypeOK, NEW w \in Workers, NEW pc \in PCs, Goto(w, pc)
  PROVE  worker' \in [Workers -> WorkerStates]
  BY DEF TypeOK, Goto, WorkerStates

LEMMA RespondType ==
  ASSUME TypeOK, NEW w \in Workers, NEW execution \in Executions,
         NEW unavailable \in BOOLEAN, Respond(w, execution, unavailable)
  PROVE  worker' \in [Workers -> WorkerStates]
  BY DEF TypeOK, Respond, Reply, Responses, WorkerStates, PCs

\* The initial row, workers, ledger and receipts are well typed.
LEMMA TypeInit == Init => TypeOK
<1> SUFFICES ASSUME Init PROVE TypeOK
  OBVIOUS
<1>1. Pending \in Entries
  BY LimitAssumption DEF Pending, Entries, Phases, Executions
<1>2. Idle \in WorkerStates
  BY LimitAssumption DEF Idle, Reply, WorkerStates, PCs, Responses, Executions
<1>3. QED
  BY <1>1, <1>2, LimitAssumption DEF Init, TypeOK, Operations, Rows, Receipts

\* Every action keeps the types of the variables it changes.
LEMMA TypeStep == TypeOK /\ [Next]_vars => TypeOK'
<1> SUFFICES ASSUME TypeOK, [Next]_vars PROVE TypeOK'
  OBVIOUS
<1> USE LimitAssumption, PlanAssumption
<1>1. ASSUME NEW w \in Workers, NEW s \in Steps, Reserve(w, s)
      PROVE  TypeOK'
  <2> DEFINE n == op.attempts + 1
  <2>1. n \in Requests
    <3>1. op.attempts < MaxAttempts
      BY <1>1 DEF Reserve, Reservable
    <3>2. QED
      BY <3>1 DEF TypeOK, Operations
  <2>2. op' \in Operations
    <3> DEFINE c == op.spent + Cost[s]
    <3>1. op' = [op EXCEPT !.attempts = n, !.spent = c]
      BY <1>1 DEF Reserve, Reservable
    <3>2. n \in 0..MaxAttempts /\ c \in Nat /\ op \in Operations
      BY <2>1 DEF TypeOK, Operations
    <3> HIDE DEF n, c
    <3>3. QED
      BY <3>1, <3>2 DEF Operations
  <2>3. steps' \in [Steps -> Entries]
    <3> DEFINE entry == [phase |-> "reserved", request |-> n, reservedAt |-> now,
                         authorized |-> FALSE, transport |-> "", observation |-> None]
    <3>1. steps' = [steps EXCEPT ![s] = entry]
      BY <1>1 DEF Reserve, Reservable
    <3>2. n \in 0..MaxAttempts /\ now \in Nat
      BY <2>1 DEF TypeOK
    <3>3. entry \in Entries
      <4> HIDE DEF n
      <4> QED BY <3>2 DEF Entries, Phases, Executions
    <3>4. QED
      BY <3>1, <3>3 DEF TypeOK
  <2>4. binding' \in [Requests -> Bindings \union {None}]
    <3> DEFINE b == [step |-> s, snapshot |-> op.approval,
                     dependencies |-> DependencyEvidence(s)]
    <3>1. binding' = [binding EXCEPT ![n] = b]
      BY <1>1 DEF Reserve, Reservable
    <3>2. op.approval = Snapshot
      BY <1>1 DEF Reserve, Reservable, Ready
    <3>3. b \in Bindings
      BY <3>2, SnapshotType, EvidenceType DEF Bindings
    <3>4. QED
      BY <3>1, <3>3 DEF TypeOK
  <2>5. worker' \in [Workers -> WorkerStates]
    <3> DEFINE state == [pc |-> "gateway", request |-> n, response |-> Reply("", FALSE)]
    <3>1. worker' = [worker EXCEPT ![w] = state]
      BY <1>1 DEF Reserve, Reservable
    <3>2. state \in WorkerStates
      BY <2>1 DEF WorkerStates, PCs, Responses, Executions, Reply
    <3>3. QED
      BY <3>1, <3>2 DEF TypeOK
  <2>6. QED
    BY <1>1, <2>2, <2>3, <2>4, <2>5 DEF Reserve, Reservable, TypeOK
<1>2. ASSUME NEW w \in Workers, Proceed(w)
      PROVE  TypeOK'
  <2>1. CASE GatewayRefuses(w)
    BY <2>1, RespondType DEF GatewayRefuses, TypeOK, Executions
  <2>2. CASE MeshReserve(w)
    <3>1. worker' \in [Workers -> WorkerStates]
      BY <2>2, MoveType DEF MeshReserve, PCs
    <3>2. QED
      BY <2>2, <3>1 DEF MeshReserve, TypeOK, Rows
  <2>3. CASE CommitAuthorization(w)
    <3>1. worker' \in [Workers -> WorkerStates]
      BY <2>3, MoveType DEF CommitAuthorization, PCs
    <3>2. receipts' \in [Requests -> SUBSET Receipts]
      BY <2>3 DEF CommitAuthorization, TypeOK, Receipts
    <3>3. QED
      BY <2>3, <3>1, <3>2 DEF CommitAuthorization, TypeOK
  <2>4. CASE LedgerAuthorized(w)
    <3>1. worker' \in [Workers -> WorkerStates]
      BY <2>4, MoveType DEF LedgerAuthorized, PCs
    <3>2. QED
      BY <2>4, <3>1 DEF LedgerAuthorized, TypeOK, Rows
  <2>5. CASE RecordAuthorization(w)
    <3>1. worker' \in [Workers -> WorkerStates]
      BY <2>5, MoveType DEF RecordAuthorization, PCs
    <3>2. steps' \in [Steps -> Entries]
      BY <2>5 DEF RecordAuthorization, TypeOK, Entries
    <3>3. QED
      BY <2>5, <3>1, <3>2 DEF RecordAuthorization, TypeOK
  <2>6. CASE ProofUnavailable(w)
    BY <2>6, RespondType DEF ProofUnavailable, TypeOK, Executions
  <2>7. CASE EnterGuard(w)
    <3>1. worker' \in [Workers -> WorkerStates]
      BY <2>7, MoveType DEF EnterGuard, PCs
    <3>2. QED
      BY <2>7, <3>1 DEF EnterGuard, TypeOK
  <2>8. CASE GuardRefuses(w)
    BY <2>8, RespondType DEF GuardRefuses, TypeOK, Executions
  <2>9. CASE ProviderCall(w)
    <3>1. worker' \in [Workers -> WorkerStates]
      BY <2>9, MoveType DEF ProviderCall, PCs
    <3>2. calls' \in [Requests -> Nat]
      <4>1. Request(w) \in Requests => calls[Request(w)] + 1 \in Nat
        BY DEF TypeOK
      <4>2. calls' = [calls EXCEPT ![Request(w)] = calls[Request(w)] + 1]
        BY <2>9 DEF ProviderCall
      <4> QED BY <4>1, <4>2 DEF TypeOK
    <3>3. QED
      BY <2>9, <3>1, <3>2 DEF ProviderCall, TypeOK
  <2>10. CASE CommitAttempt(w)
    <3>1. worker' \in [Workers -> WorkerStates]
      BY <2>10, MoveType DEF CommitAttempt, PCs
    <3>2. steps' \in [Steps -> Entries]
      BY <2>10 DEF CommitAttempt, TypeOK, Entries, Phases
    <3>3. QED
      BY <2>10, <3>1, <3>2 DEF CommitAttempt, TypeOK
  <2>11. CASE RollbackAttempt(w)
    <3>1. worker' \in [Workers -> WorkerStates]
      BY <2>11, RespondType DEF RollbackAttempt, Executions
    <3>2. QED
      BY <2>11, <3>1 DEF RollbackAttempt, TypeOK
  <2>12. CASE OutcomeReceipt(w)
    <3>1. worker' \in [Workers -> WorkerStates]
      BY <2>12, MoveType, RespondType DEF OutcomeReceipt, PCs, Executions
    <3>2. receipts' \in [Requests -> SUBSET Receipts]
      BY <2>12 DEF OutcomeReceipt, TypeOK, Receipts
    <3>3. QED
      BY <2>12, <3>1, <3>2 DEF OutcomeReceipt, TypeOK
  <2>13. CASE OutcomeReceiptFails(w)
    BY <2>13, RespondType DEF OutcomeReceiptFails, TypeOK, Executions
  <2>14. CASE LedgerComplete(w)
    <3>1. worker' \in [Workers -> WorkerStates]
      BY <2>14, RespondType DEF LedgerComplete, Executions
    <3>2. QED
      BY <2>14, <3>1 DEF LedgerComplete, TypeOK, Rows
  <2>15. CASE CompletionFails(w)
    BY <2>15, RespondType DEF CompletionFails, TypeOK, Executions
  <2>16. CASE Finish(w)
    <3>1. Idle \in WorkerStates
      BY DEF Idle, Reply, WorkerStates, PCs, Responses, Executions
    <3>2. worker' \in [Workers -> WorkerStates]
      BY <2>16, <3>1 DEF Finish, TypeOK
    <3>3. worker[w].response.execution \in Executions
      BY DEF TypeOK, WorkerStates, Responses
    <3>4. steps' \in [Steps -> Entries]
      <4> DEFINE entry == [steps[StepOf(w)] EXCEPT !.phase = SettledPhase(w),
                                                   !.transport = ReportedTransport(w)]
      <4>1. steps' = [steps EXCEPT ![StepOf(w)] = entry]
        BY <2>16 DEF Finish
      <4>2. StepOf(w) \in Steps => SettledPhase(w) \in Phases
        BY DEF TypeOK, Entries, Phases, SettledPhase
      <4>3. ReportedTransport(w) \in Executions
        BY <3>3 DEF ReportedTransport, Executions
      <4>4. StepOf(w) \in Steps => entry \in Entries
        BY <4>2, <4>3 DEF TypeOK, Entries
      <4>5. QED
        BY <4>1, <4>4 DEF TypeOK
    <3>5. QED
      BY <2>16, <3>2, <3>4 DEF Finish, TypeOK
  <2>17. QED
    BY <1>2, <2>1, <2>2, <2>3, <2>4, <2>5, <2>6, <2>7, <2>8, <2>9, <2>10, <2>11,
       <2>12, <2>13, <2>14, <2>15, <2>16 DEF Proceed
<1>3. ASSUME NEW w \in Workers, Crash(w)
      PROVE  TypeOK'
  <2>1. Idle \in WorkerStates
    BY DEF Idle, Reply, WorkerStates, PCs, Responses, Executions
  <2>2. QED
    BY <1>3, <2>1 DEF Crash, TypeOK
<1>4. CASE Operator
  <2>1. ASSUME NEW facts \in SUBSET Facts, NEW until \in Nat, NEW closed \in BOOLEAN,
               NextEpoch(facts, until, closed)
        PROVE  TypeOK'
    <3>1. op' \in Operations
      <4>1. op.epoch + 1 \in 0..MaxEpoch
        BY <2>1 DEF NextEpoch, TypeOK, Operations
      <4>2. op' = [op EXCEPT !.epoch = op.epoch + 1, !.facts = facts, !.until = until,
                             !.approval = None, !.closed = closed]
        BY <2>1 DEF NextEpoch
      <4>3. QED
        BY <4>1, <4>2 DEF TypeOK, Operations
    <3>2. QED
      BY <2>1, <3>1 DEF NextEpoch, TypeOK
  <2>2. CASE Conditions
    <3>1. PICK facts \in SUBSET Facts, until \in (now + 1)..(now + Window) :
            NextEpoch(facts, until, FALSE)
      BY <2>2 DEF Conditions
    <3>2. until \in Nat
      BY <3>1 DEF TypeOK
    <3>3. QED
      BY <2>1, <3>1, <3>2
  <2>3. CASE Suspend
    BY <2>1, <2>3 DEF Suspend, TypeOK, Operations
  <2>4. CASE Close
    BY <2>1, <2>4 DEF Close, TypeOK, Operations
  <2>5. CASE Approve
    BY <2>5, SnapshotType DEF Approve, TypeOK, Operations
  <2>6. ASSUME NEW s \in Steps, Observe(s)
        PROVE  TypeOK'
    <3>1. PICK produced \in steps[s].reservedAt..now, disposition \in Dispositions :
            steps' = [steps EXCEPT ![s] = [steps[s] EXCEPT !.observation =
                        [disposition |-> disposition, target |-> Snapshot,
                         produced |-> produced]]]
      BY <2>6 DEF Observe
    <3>2. [disposition |-> disposition, target |-> Snapshot, produced |-> produced]
            \in Observations
      BY <3>1, SnapshotType DEF Observations, TypeOK, Entries
    <3>3. steps' \in [Steps -> Entries]
      BY <3>1, <3>2 DEF TypeOK, Entries
    <3>4. QED
      BY <2>6, <3>3 DEF Observe, TypeOK
  <2>7. QED
    BY <1>4, <2>2, <2>3, <2>4, <2>5, <2>6 DEF Operator
<1>5. CASE Redeploy
  <2>1. Idle \in WorkerStates
    BY DEF Idle, Reply, WorkerStates, PCs, Responses, Executions
  <2>2. QED
    BY <1>5, <2>1 DEF Redeploy, TypeOK
<1>6. CASE Tick
  BY <1>6 DEF Tick, TypeOK
<1>7. CASE UNCHANGED vars
  BY <1>7 DEF vars, TypeOK
<1>8. QED
  BY <1>1, <1>2, <1>3, <1>4, <1>5, <1>6, <1>7 DEF Next

\* Every reachable state of an operation is well typed: budgets within the
\* sealed plan, replies and phases from the code's vocabulary.
THEOREM TypeCorrect == Spec => []TypeOK
  BY TypeInit, TypeStep, PTL DEF Spec

-----------------------------------------------------------------------------
(***************************************************************************)
(* The dispatch invariant.                                                 *)
(***************************************************************************)
\* No dispatch is running and no request is numbered at first.
LEMMA DispatchInit == Init => DispatchInvariant
<1> SUFFICES ASSUME Init PROVE DispatchInvariant
  OBVIOUS
<1>1. /\ \A w \in Workers : worker[w].pc = "idle"
      /\ op.attempts = 0
      /\ \A s \in Steps : steps[s].request = 0 /\ steps[s].phase = "pending"
      /\ \A n \in Requests : /\ binding[n] = None /\ calls[n] = 0
                             /\ receipts[n] = {} /\ ledger[n].state = "absent"
  BY DEF Init, Idle, Pending
<1>2. Ownership
  BY <1>1 DEF Ownership, Busy
<1>3. Numbering
  BY <1>1, LimitAssumption DEF Numbering
<1>4. Sending
  BY <1>1 DEF Sending
<1>5. Standing
  BY <1>1 DEF Standing
<1>6. QED
  BY <1>2, <1>3, <1>4, <1>5 DEF DispatchInvariant

\* A step of worker w that only moves it on, and may write the ledger and the
\* receipts of its own request.
LEMMA MoveOn ==
  ASSUME TypeOK, DispatchInvariant, NEW w \in Workers, Busy(w),
         NEW state, state.request = Request(w), state.pc # "idle", state.pc # "gateway",
         worker' = [worker EXCEPT ![w] = state],
         UNCHANGED <<op, steps, binding, calls>>,
         \A n \in Requests \ {Request(w)} :
           ledger'[n] = ledger[n] /\ receipts'[n] = receipts[n],
         state.pc \in {"sign", "ledger", "record", "guard", "call"} =>
           steps[StepOf(w)].phase = "reserved" /\ calls[Request(w)] = 0,
         state.pc \notin {"answered", "lost"},
         state.pc \in {"outcome", "unknown", "complete"} =>
           steps[StepOf(w)].phase = "attempted",
         (state.pc = "finish" /\ state.response = Reply("not_attempted", FALSE))
           => calls[Request(w)] = 0
  PROVE  DispatchInvariant'
<1>1. Request(w) \in Requests /\ Request(w) <= op.attempts
  BY DEF DispatchInvariant, Ownership
<1>2. \A v \in Workers : /\ Request(v)' = Request(v) /\ StepOf(v)' = StepOf(v)
                         /\ Busy(v)' <=> Busy(v)
                         /\ v # w => worker'[v] = worker[v]
  BY DEF TypeOK, Request, StepOf, Busy
<1>3. worker'[w] = state
  BY DEF TypeOK
<1>4. Ownership'
  BY <1>2 DEF DispatchInvariant, Ownership
<1>5. Numbering'
  BY <1>1 DEF DispatchInvariant, Numbering, TypeOK, Operations
<1>6. Sending'
  BY DEF DispatchInvariant, Sending
<1>7. Standing'
  <2> SUFFICES ASSUME NEW v \in Workers
               PROVE  Standing!(v)'
    BY DEF Standing
  <2>1. CASE v = w
    BY <2>1, <1>2, <1>3 DEF Reply
  <2>2. CASE v # w
    <3>1. Busy(v) => Request(v) \in Requests \ {Request(w)}
      BY <2>2 DEF DispatchInvariant, Ownership
    <3>2. worker[v].pc = "gateway" => ledger'[Request(v)] = ledger[Request(v)]
      BY <3>1 DEF Busy
    <3>3. QED
      BY <2>2, <1>2, <3>2 DEF DispatchInvariant, Standing
  <2>3. QED
    BY <2>1, <2>2
<1>8. QED
  BY <1>4, <1>5, <1>6, <1>7 DEF DispatchInvariant

\* The step a dispatch works on is a step of the plan, and no other dispatch
\* works on it.
LEMMA OwnStep ==
  ASSUME TypeOK, DispatchInvariant, NEW w \in Workers, Busy(w)
  PROVE  /\ Request(w) \in Requests /\ Request(w) <= op.attempts
         /\ binding[Request(w)] \in Bindings
         /\ StepOf(w) \in Steps
         /\ steps[StepOf(w)].request = Request(w)
         /\ \A v \in Workers \ {w} : Busy(v) =>
              Request(v) # Request(w) /\ StepOf(v) # StepOf(w)
<1>1. /\ Request(w) \in Requests /\ Request(w) <= op.attempts
      /\ steps[StepOf(w)].request = Request(w)
      /\ \A v \in Workers \ {w} : Busy(v) =>
           Request(v) # Request(w) /\ steps[StepOf(v)].request = Request(v)
  BY DEF DispatchInvariant, Ownership
<1>2. binding[Request(w)] \in Bindings
  BY <1>1 DEF DispatchInvariant, Numbering, TypeOK
<1>3. StepOf(w) \in Steps
  BY <1>2 DEF Bindings, StepOf
<1>4. \A v \in Workers \ {w} : Busy(v) => StepOf(v) # StepOf(w)
  BY <1>1
<1>5. QED
  BY <1>1, <1>2, <1>3, <1>4

\* A worker that rewrites its own attempt, as _record_authorization and the
\* end of _guard do, keeps the invariant.
LEMMA MarkAttempt ==
  ASSUME TypeOK, DispatchInvariant, NEW w \in Workers, Busy(w),
         NEW pc, NEW entry,
         worker' = [worker EXCEPT ![w].pc = pc],
         steps' = [steps EXCEPT ![StepOf(w)] = entry],
         entry.request = Request(w),
         UNCHANGED <<op, binding, calls, ledger, receipts>>,
         \/ pc = "guard" /\ entry.phase = "reserved" /\ calls[Request(w)] = 0
         \/ /\ pc \in {"outcome", "unknown"} /\ entry.phase = "attempted"
            /\ calls[Request(w)] = 1
  PROVE  DispatchInvariant'
<1>1. \A v \in Workers : /\ Request(v)' = Request(v) /\ StepOf(v)' = StepOf(v)
                         /\ Busy(v)' <=> Busy(v)
                         /\ v # w => worker'[v] = worker[v]
  BY DEF TypeOK, WorkerStates, Request, StepOf, Busy
<1>2. worker'[w].pc = pc
  BY DEF TypeOK, WorkerStates
<1>3. /\ StepOf(w) \in Steps /\ Request(w) \in Requests
      /\ steps'[StepOf(w)] = entry
      /\ \A s \in Steps \ {StepOf(w)} : steps'[s] = steps[s]
  BY OwnStep DEF TypeOK
<1>4. \A s \in Steps : steps'[s].request = steps[s].request
  BY <1>3, OwnStep
<1>5. \A s \in Steps : s # StepOf(w) => steps'[s].phase = steps[s].phase
  BY <1>3
<1>6. \A v \in Workers : Busy(v) => StepOf(v) \in Steps
  BY OwnStep
<1>7. Ownership'
  BY <1>1, <1>3, <1>4, <1>5, <1>6 DEF DispatchInvariant, Ownership
<1>8. Numbering'
  <2>1. entry.phase # "pending" /\ steps[StepOf(w)].phase # "pending"
    BY DEF DispatchInvariant, Ownership
  <2>2. QED
    BY <2>1, <1>3, <1>4, <1>5 DEF DispatchInvariant, Numbering
<1>9. Sending'
  <2>1. \A n \in Requests : calls[n] > 0 => binding[n].step \in Steps
    BY DEF DispatchInvariant, Numbering, TypeOK, Bindings, Operations
  <2>2. QED
    BY <2>1, <1>3, <1>4, <1>5 DEF DispatchInvariant, Sending
<1>10. Standing'
  <2> SUFFICES ASSUME NEW v \in Workers
               PROVE  Standing!(v)'
    BY DEF Standing
  <2>1. CASE v = w
    BY <2>1, <1>1, <1>2, <1>3
  <2>2. CASE v # w
    <3>1. Busy(v) => StepOf(v) \in Steps \ {StepOf(w)}
      BY <2>2, OwnStep
    <3>2. Busy(v) => (steps[StepOf(v)])' = steps[StepOf(v)]
      BY <3>1, <1>1, <1>3
    <3>3. worker'[v] = worker[v] /\ (ledger[Request(v)])' = ledger[Request(v)]
          /\ (calls[Request(v)])' = calls[Request(v)]
      BY <2>2, <1>1
    <3>4. Standing!(v)
      BY DEF DispatchInvariant, Standing
    <3>5. CASE Busy(v)
      BY <3>2, <3>3, <3>4, <3>5
    <3>6. CASE ~Busy(v)
      BY <3>3, <3>6 DEF Busy
    <3>7. QED
      BY <3>5, <3>6
  <2>3. QED
    BY <2>1, <2>2
<1>11. QED
  BY <1>7, <1>8, <1>9, <1>10 DEF DispatchInvariant

\* The provider call of worker w is the first one of its request.
LEMMA CallStep ==
  ASSUME TypeOK, DispatchInvariant, NEW w \in Workers, ProviderCall(w)
  PROVE  DispatchInvariant'
<1>1. PICK pc \in {"answered", "lost"} : worker' = [worker EXCEPT ![w].pc = pc]
  BY DEF ProviderCall, Goto
<1>2. Busy(w) /\ steps[StepOf(w)].phase = "reserved" /\ calls[Request(w)] = 0
  BY DEF ProviderCall, Busy, DispatchInvariant, Standing
<1>3. UNCHANGED <<op, steps, binding, ledger, receipts>>
  BY DEF ProviderCall
<1>4. \A v \in Workers : /\ Request(v)' = Request(v) /\ StepOf(v)' = StepOf(v)
                         /\ Busy(v)' <=> Busy(v)
                         /\ v # w => worker'[v] = worker[v]
  BY <1>1, <1>2, <1>3 DEF TypeOK, WorkerStates, Request, StepOf, Busy
<1>5. worker'[w].pc = pc
  BY <1>1 DEF TypeOK, WorkerStates
<1>6. /\ calls'[Request(w)] = 1
      /\ \A n \in Requests \ {Request(w)} : calls'[n] = calls[n]
  BY <1>2, OwnStep DEF ProviderCall, TypeOK
<1>7. Ownership'
  BY <1>3, <1>4 DEF DispatchInvariant, Ownership
<1>8. Numbering'
  BY <1>2, <1>3, <1>6, OwnStep DEF DispatchInvariant, Numbering, TypeOK, Operations
<1>9. Sending'
  <2>1. StepOf(w) = binding[Request(w)].step
    BY DEF StepOf
  <2>2. ASSUME NEW n \in Requests, calls'[n] > 0
        PROVE  /\ calls'[n] = 1
               /\ steps[binding[n].step].request = n
               /\ steps[binding[n].step].phase \in {"reserved", "attempted"}
    <3>1. CASE n = Request(w)
      BY <3>1, <1>2, <1>6, <2>1, OwnStep
    <3>2. CASE n # Request(w)
      BY <3>2, <2>2, <1>6 DEF DispatchInvariant, Sending
    <3>3. QED
      BY <3>1, <3>2
  <2>3. ASSUME NEW s \in Steps, steps[s].phase = "attempted"
        PROVE  calls'[steps[s].request] = 1
    <3>1. steps[s].request \in Requests
      BY <2>3 DEF DispatchInvariant, Numbering
    <3>2. QED
      BY <3>1, <2>3, <1>6 DEF DispatchInvariant, Sending
  <2>4. QED
    BY <2>2, <2>3, <1>3 DEF Sending
<1>10. Standing'
  <2> SUFFICES ASSUME NEW v \in Workers
               PROVE  Standing!(v)'
    BY DEF Standing
  <2>1. CASE v = w
    BY <2>1, <1>2, <1>3, <1>4, <1>5, <1>6
  <2>2. CASE v # w
    <3>1. Busy(v) => Request(v) \in Requests \ {Request(w)}
      BY <2>2, <1>2, OwnStep
    <3>2. Busy(v) => (calls[Request(v)])' = calls[Request(v)]
      BY <3>1, <1>4, <1>6
    <3>3. worker'[v] = worker[v] /\ (ledger[Request(v)])' = ledger[Request(v)]
          /\ (steps[StepOf(v)])' = steps[StepOf(v)]
      BY <2>2, <1>3, <1>4
    <3>4. Standing!(v)
      BY DEF DispatchInvariant, Standing
    <3>5. CASE Busy(v)
      BY <3>2, <3>3, <3>4, <3>5
    <3>6. CASE ~Busy(v)
      BY <3>3, <3>6 DEF Busy
    <3>7. QED
      BY <3>5, <3>6
  <2>3. QED
    BY <2>1, <2>2
<1>11. QED
  BY <1>7, <1>8, <1>9, <1>10 DEF DispatchInvariant

\* Workers that stop, by crash, redeployment or storage fault, leave the rows
\* as they are.
LEMMA StopStep ==
  ASSUME TypeOK, DispatchInvariant, NEW Stopped \in SUBSET Workers,
         worker' = [w \in Workers |-> IF w \in Stopped THEN Idle ELSE worker[w]],
         UNCHANGED <<op, steps, binding, ledger, receipts, calls>>
  PROVE  DispatchInvariant'
<1>1. \A w \in Workers :
        /\ w \in Stopped => worker'[w].pc = "idle"
        /\ w \notin Stopped => worker'[w] = worker[w]
  BY DEF Idle
<1>2. \A w \in Workers \ Stopped :
        Request(w)' = Request(w) /\ StepOf(w)' = StepOf(w) /\ Busy(w)' = Busy(w)
  BY <1>1 DEF Request, StepOf, Busy
<1>3. \A w \in Stopped : ~Busy(w)'
  BY <1>1 DEF Busy
<1>4. Ownership'
  BY <1>2, <1>3 DEF DispatchInvariant, Ownership
<1>5. Numbering' /\ Sending'
  BY DEF DispatchInvariant, Numbering, Sending
<1>6. Standing'
  <2> SUFFICES ASSUME NEW v \in Workers
               PROVE  Standing!(v)'
    BY DEF Standing
  <2>1. CASE v \in Stopped
    BY <2>1, <1>1
  <2>2. CASE v \notin Stopped
    <3>1. Standing!(v)
      BY DEF DispatchInvariant, Standing
    <3>2. /\ worker'[v] = worker[v] /\ (ledger[Request(v)])' = ledger[Request(v)]
          /\ (steps[StepOf(v)])' = steps[StepOf(v)]
          /\ (calls[Request(v)])' = calls[Request(v)]
      BY <2>2, <1>1, <1>2
    <3>3. QED
      BY <3>1, <3>2
  <2>3. QED
    BY <2>1, <2>2
<1>7. QED
  BY <1>4, <1>5, <1>6 DEF DispatchInvariant

\* Reporting a dispatch frees the step only if its request was not sent.
LEMMA FinishStep ==
  ASSUME TypeOK, DispatchInvariant, NEW w \in Workers, Finish(w)
  PROVE  DispatchInvariant'
<1> DEFINE entry == [steps[StepOf(w)] EXCEPT !.phase = SettledPhase(w),
                                             !.transport = ReportedTransport(w)]
<1>1. /\ Busy(w)
      /\ steps' = [steps EXCEPT ![StepOf(w)] = entry]
      /\ worker' = [worker EXCEPT ![w] = Idle]
      /\ UNCHANGED <<op, binding, ledger, receipts, calls>>
  BY DEF Finish, Busy
<1>2. /\ StepOf(w) \in Steps /\ Request(w) \in Requests
      /\ entry.request = Request(w)
      /\ steps[StepOf(w)].phase \in {"reserved", "attempted"}
  BY <1>1, OwnStep DEF TypeOK, Entries, DispatchInvariant, Ownership
<1>3. entry.phase = SettledPhase(w)
  BY <1>2 DEF TypeOK, Entries
<1>4. \/ entry.phase = steps[StepOf(w)].phase
      \/ /\ entry.phase = "not_attempted" /\ steps[StepOf(w)].phase = "reserved"
         /\ worker[w].response.execution = "not_attempted"
         /\ ~worker[w].response.unavailable
  BY <1>3 DEF SettledPhase
<1>5. entry.phase = "not_attempted" => calls[Request(w)] = 0
  <2>1. worker[w].response \in Responses /\ worker[w].pc = "finish"
    BY DEF TypeOK, WorkerStates, Finish
  <2>2. (worker[w].response.execution = "not_attempted" /\ ~worker[w].response.unavailable)
          => worker[w].response = Reply("not_attempted", FALSE)
    BY <2>1 DEF Responses, Reply
  <2>3. QED
    BY <1>2, <1>4, <2>1, <2>2 DEF DispatchInvariant, Standing
<1> HIDE DEF entry
<1>6. /\ steps'[StepOf(w)] = entry
      /\ \A s \in Steps \ {StepOf(w)} : steps'[s] = steps[s]
      /\ \A s \in Steps : steps'[s].request = steps[s].request
  BY <1>1, <1>2, OwnStep DEF TypeOK
<1>7. /\ ~Busy(w)'
      /\ \A v \in Workers \ {w} :
           /\ worker'[v] = worker[v] /\ Busy(v)' = Busy(v)
           /\ Request(v)' = Request(v) /\ StepOf(v)' = StepOf(v)
  BY <1>1 DEF Busy, Idle, Request, StepOf, TypeOK
<1>8. \A v \in Workers \ {w} : Busy(v) =>
        StepOf(v) \in Steps \ {StepOf(w)} /\ (steps[StepOf(v)])' = steps[StepOf(v)]
  BY <1>1, <1>6, <1>7, OwnStep
<1>9. Ownership'
  BY <1>1, <1>7, <1>8 DEF DispatchInvariant, Ownership
<1>10. Numbering'
  <2>1. ASSUME NEW s \in Steps
        PROVE  /\ steps'[s].request <= op.attempts
               /\ steps'[s].phase # "pending" =>
                    steps'[s].request \in Requests /\ binding[steps'[s].request].step = s
    <3>1. steps'[s].phase # "pending" => steps[s].phase # "pending"
      BY <1>2, <1>6
    <3>2. QED
      BY <3>1, <1>6 DEF DispatchInvariant, Numbering
  <2>2. QED
    BY <2>1, <1>1 DEF DispatchInvariant, Numbering
<1>11. Sending'
  <2>1. ASSUME NEW n \in Requests, calls[n] > 0
        PROVE  /\ calls[n] = 1
               /\ steps'[binding[n].step].request = n
               /\ steps'[binding[n].step].phase \in {"reserved", "attempted"}
    <3>1. /\ calls[n] = 1 /\ steps[binding[n].step].request = n
          /\ steps[binding[n].step].phase \in {"reserved", "attempted"}
      BY <2>1 DEF DispatchInvariant, Sending
    <3>2. binding[n].step \in Steps
      BY <2>1 DEF DispatchInvariant, Numbering, TypeOK, Bindings, Operations
    <3>3. CASE binding[n].step = StepOf(w)
      <4>1. n = Request(w)
        BY <3>1, <3>3, OwnStep, <1>1
      <4>2. QED
        BY <4>1, <3>1, <3>3, <1>2, <1>4, <1>5, <1>6
    <3>4. CASE binding[n].step # StepOf(w)
      BY <3>1, <3>2, <3>4, <1>6
    <3>5. QED
      BY <3>3, <3>4
  <2>2. ASSUME NEW s \in Steps, steps'[s].phase = "attempted"
        PROVE  calls[steps'[s].request] = 1
    <3>1. steps[s].phase = "attempted"
      BY <2>2, <1>4, <1>6
    <3>2. QED
      BY <3>1, <1>6 DEF DispatchInvariant, Sending
  <2>3. QED
    BY <2>1, <2>2, <1>1 DEF Sending
<1>12. Standing'
  <2> SUFFICES ASSUME NEW v \in Workers
               PROVE  Standing!(v)'
    BY DEF Standing
  <2>1. CASE ~Busy(v)'
    BY <2>1 DEF Busy
  <2>2. CASE Busy(v)'
    <3>1. v # w /\ Busy(v) /\ Standing!(v)
      BY <2>2, <1>7 DEF DispatchInvariant, Standing
    <3>2. /\ worker'[v] = worker[v] /\ (ledger[Request(v)])' = ledger[Request(v)]
          /\ (steps[StepOf(v)])' = steps[StepOf(v)]
          /\ (calls[Request(v)])' = calls[Request(v)]
      BY <3>1, <1>1, <1>7, <1>8
    <3>3. QED
      BY <3>1, <3>2
  <2>3. QED
    BY <2>1, <2>2
<1>13. QED
  BY <1>9, <1>10, <1>11, <1>12 DEF DispatchInvariant

\* A reservation takes the next request number, which nobody has used.
LEMMA ReserveStep ==
  ASSUME TypeOK, DispatchInvariant, NEW w \in Workers, NEW s \in Steps, Reserve(w, s)
  PROVE  DispatchInvariant'
<1> USE LimitAssumption
<1> DEFINE n == op.attempts + 1
           entry == [phase |-> "reserved", request |-> n, reservedAt |-> now,
                     authorized |-> FALSE, transport |-> "", observation |-> None]
           b == [step |-> s, snapshot |-> op.approval,
                 dependencies |-> DependencyEvidence(s)]
           state == [pc |-> "gateway", request |-> n, response |-> Reply("", FALSE)]
<1>1. /\ worker[w].pc = "idle" /\ op.attempts < MaxAttempts
      /\ steps[s].phase \in {"pending", "not_attempted"}
      /\ op.approval = Snapshot
      /\ steps' = [steps EXCEPT ![s] = entry]
      /\ op' = [op EXCEPT !.attempts = n, !.spent = op.spent + Cost[s]]
      /\ binding' = [binding EXCEPT ![n] = b]
      /\ worker' = [worker EXCEPT ![w] = state]
      /\ UNCHANGED <<ledger, receipts, calls>>
  BY DEF Reserve, Reservable, Ready
<1>2. n \in Requests /\ op.attempts \in Nat /\ op'.attempts = n
  <2>1. op.attempts \in 0..MaxAttempts /\ op \in Operations
    BY DEF TypeOK, Operations
  <2>2. n \in Requests
    <3>1. op.attempts < MaxAttempts
      BY <1>1
    <3>2. QED
      BY <2>1, <3>1
  <2>3. op'.attempts = n
    <3> HIDE DEF n
    <3> QED BY <2>1, <1>1 DEF Operations
  <2>4. QED
    BY <2>1, <2>2, <2>3
<1>3. b # None
  <2>1. b \in Bindings
    BY <1>1, SnapshotType, EvidenceType DEF Bindings
  <2>2. QED
    BY <2>1, NoneAssumption
<1>4. /\ binding[n] = None /\ calls[n] = 0 /\ receipts[n] = {}
      /\ ledger[n].state = "absent"
      /\ \A t \in Steps : steps[t].request # n
  BY <1>2 DEF DispatchInvariant, Numbering, TypeOK, Entries
<1>5. /\ binding'[n].step = s /\ binding'[n] # None
      /\ \A m \in Requests \ {n} : binding'[m] = binding[m]
  BY <1>1, <1>2, <1>3 DEF TypeOK
<1>6. /\ steps'[s].phase = "reserved" /\ steps'[s].request = n
      /\ \A t \in Steps \ {s} : steps'[t] = steps[t]
  BY <1>1 DEF TypeOK
<1>7. /\ worker'[w].request = n /\ worker'[w].pc = "gateway"
      /\ \A v \in Workers \ {w} : worker'[v] = worker[v]
  <2>1. worker \in [Workers -> WorkerStates]
    BY DEF TypeOK
  <2>2. worker' = [worker EXCEPT ![w] = state]
    BY <1>1
  <2>3. worker'[w] = state /\ \A v \in Workers \ {w} : worker'[v] = worker[v]
    BY <2>1, <2>2
  <2>4. state.request = n /\ state.pc = "gateway"
    OBVIOUS
  <2>5. QED
    <3> HIDE DEF state
    <3> QED BY <2>3, <2>4
<1> HIDE DEF n, entry, b
<1>8. Request(w)' = n /\ StepOf(w)' = s
  <2>1. Request(w)' = n
    BY <1>7 DEF Request
  <2>2. StepOf(w)' = (binding[Request(w)])'.step
    BY DEF StepOf
  <2>3. (binding[Request(w)])' = binding'[n]
    BY <2>1
  <2>4. QED
    BY <2>1, <2>2, <2>3, <1>5
<1>9. \A v \in Workers \ {w} : Busy(v) =>
        /\ Request(v) \in Requests \ {n} /\ Request(v) <= op.attempts
        /\ StepOf(v) \in Steps \ {s}
        /\ steps[StepOf(v)].phase \in {"reserved", "attempted"}
        /\ steps[StepOf(v)].request = Request(v)
  <2>1. \A v \in Workers \ {w} : Busy(v) =>
          steps[StepOf(v)].phase \in {"reserved", "attempted"}
    BY DEF DispatchInvariant, Ownership
  <2>2. \A v \in Workers \ {w} : Busy(v) => StepOf(v) # s
    BY <2>1, <1>1
  <2>3. QED
    BY <2>1, <2>2, <1>4, OwnStep
<1>10. \A v \in Workers \ {w} :
         /\ Busy(v)' = Busy(v) /\ Request(v)' = Request(v)
         /\ Busy(v) => /\ StepOf(v)' = StepOf(v)
                       /\ (steps[StepOf(v)])' = steps[StepOf(v)]
  <2> SUFFICES ASSUME NEW v \in Workers \ {w}
               PROVE  /\ Busy(v)' = Busy(v) /\ Request(v)' = Request(v)
                      /\ Busy(v) => /\ StepOf(v)' = StepOf(v)
                                    /\ (steps[StepOf(v)])' = steps[StepOf(v)]
    OBVIOUS
  <2>1. Busy(v)' = Busy(v) /\ Request(v)' = Request(v)
    BY <1>7 DEF Busy, Request
  <2>2. StepOf(v)' = binding'[Request(v)].step
    BY <2>1 DEF StepOf
  <2>3. Busy(v) => StepOf(v)' = StepOf(v)
    BY <2>2, <1>5, <1>9 DEF StepOf
  <2>4. Busy(v) => (steps[StepOf(v)])' = steps[StepOf(v)]
    BY <2>3, <1>6, <1>9
  <2>5. QED
    BY <2>1, <2>3, <2>4
<1>11. n > op.attempts /\ n = op.attempts + 1
  BY <1>2 DEF n
<1>12. Ownership'
  <2>1. ASSUME NEW v \in Workers, Busy(v)'
        PROVE  /\ Request(v)' \in Requests
               /\ Request(v)' <= op'.attempts
               /\ steps'[StepOf(v)'].request = Request(v)'
               /\ steps'[StepOf(v)'].phase \in {"reserved", "attempted"}
    <3>1. CASE v = w
      BY <3>1, <1>2, <1>6, <1>8
    <3>2. CASE v # w
      <4>1. Request(v) <= n
        BY <2>1, <3>2, <1>9, <1>10, <1>11, <1>2
      <4>2. QED
        BY <4>1, <2>1, <3>2, <1>9, <1>10, <1>2
    <3>3. QED
      BY <3>1, <3>2
  <2>2. ASSUME NEW u \in Workers, NEW v \in Workers, Busy(u)', Busy(v)', u # v
        PROVE  Request(u)' # Request(v)'
    BY <2>2, <1>8, <1>9, <1>10 DEF DispatchInvariant, Ownership
  <2>3. QED
    BY <2>1, <2>2 DEF Ownership
<1>13. Numbering'
  <2>1. ASSUME NEW m \in Requests
        PROVE  /\ binding'[m] # None <=> m <= op'.attempts
               /\ m > op'.attempts =>
                    calls[m] = 0 /\ receipts[m] = {} /\ ledger[m].state = "absent"
    <3>1. CASE m = n
      BY <3>1, <1>2, <1>5
    <3>2. CASE m # n
      <4>1. m <= n <=> m <= op.attempts
        BY <3>2, <1>2, <1>11
      <4>2. m > n => m > op.attempts
        BY <1>2, <1>11
      <4>3. QED
        BY <3>2, <4>1, <4>2, <1>2, <1>5 DEF DispatchInvariant, Numbering
    <3>3. QED
      BY <3>1, <3>2
  <2>2. ASSUME NEW t \in Steps
        PROVE  /\ steps'[t].request <= op'.attempts
               /\ steps'[t].phase # "pending" =>
                    steps'[t].request \in Requests /\ binding'[steps'[t].request].step = t
    <3>1. CASE t = s
      BY <3>1, <1>2, <1>5, <1>6
    <3>2. CASE t # s
      <4>1. steps'[t] = steps[t] /\ steps[t].request # n
        BY <3>2, <1>4, <1>6
      <4>2. steps[t].request <= op.attempts /\ steps[t].request \in Nat
        BY DEF DispatchInvariant, Numbering, TypeOK, Entries
      <4>3. steps[t].request <= n
        BY <4>2, <1>2, <1>11
      <4>4. steps[t].phase # "pending" =>
              steps[t].request \in Requests /\ binding[steps[t].request].step = t
        BY DEF DispatchInvariant, Numbering
      <4>5. QED
        BY <4>1, <4>3, <4>4, <1>2, <1>5
    <3>3. QED
      BY <3>1, <3>2
  <2>3. QED
    BY <2>1, <2>2, <1>1 DEF Numbering
<1>14. Sending'
  <2>1. ASSUME NEW m \in Requests, calls[m] > 0
        PROVE  /\ calls[m] = 1
               /\ steps'[binding'[m].step].request = m
               /\ steps'[binding'[m].step].phase \in {"reserved", "attempted"}
    <3>1. m # n
      BY <2>1, <1>4
    <3>2. /\ calls[m] = 1 /\ steps[binding[m].step].request = m
          /\ steps[binding[m].step].phase \in {"reserved", "attempted"}
      BY <2>1 DEF DispatchInvariant, Sending
    <3>3. binding[m].step \in Steps
      BY <2>1 DEF DispatchInvariant, Numbering, TypeOK, Bindings, Operations
    <3>4. binding[m].step # s
      BY <3>2, <1>1
    <3>5. QED
      BY <3>1, <3>2, <3>3, <3>4, <1>5, <1>6
  <2>2. ASSUME NEW t \in Steps, steps'[t].phase = "attempted"
        PROVE  calls[steps'[t].request] = 1
    BY <2>2, <1>6 DEF DispatchInvariant, Sending
  <2>3. QED
    BY <2>1, <2>2, <1>1 DEF Sending
<1>15. Standing'
  <2> SUFFICES ASSUME NEW v \in Workers
               PROVE  Standing!(v)'
    BY DEF Standing
  <2>1. CASE v = w
    <3>1. /\ (ledger[Request(w)])' = ledger[n] /\ (calls[Request(w)])' = calls[n]
          /\ (steps[StepOf(w)])' = steps'[s]
      <4>1. UNCHANGED <<ledger, calls>>
        BY <1>1
      <4>2. QED
        BY <4>1, <1>8
    <3>2. QED
      BY <2>1, <3>1, <1>4, <1>6, <1>7
  <2>2. CASE v # w /\ Busy(v)
    <3>1. Standing!(v)
      BY DEF DispatchInvariant, Standing
    <3>2. /\ worker'[v] = worker[v] /\ (ledger[Request(v)])' = ledger[Request(v)]
          /\ (steps[StepOf(v)])' = steps[StepOf(v)]
          /\ (calls[Request(v)])' = calls[Request(v)]
      BY <2>2, <1>1, <1>7, <1>10
    <3>3. QED
      BY <3>1, <3>2
  <2>3. CASE v # w /\ ~Busy(v)
    BY <2>3, <1>7 DEF Busy
  <2>4. QED
    BY <2>1, <2>2, <2>3
<1>16. QED
  BY <1>12, <1>13, <1>14, <1>15 DEF DispatchInvariant

\* An observation changes no attempt.
LEMMA ObserveStep ==
  ASSUME TypeOK, DispatchInvariant, NEW s \in Steps, Observe(s)
  PROVE  DispatchInvariant'
<1>1. PICK obs : steps' = [steps EXCEPT ![s] = [steps[s] EXCEPT !.observation = obs]]
  BY DEF Observe
<1>2. UNCHANGED <<op, binding, worker, gate, ledger, receipts, calls, policy, now>>
  BY DEF Observe
<1>3. \A t \in Steps : /\ steps'[t].phase = steps[t].phase
                       /\ steps'[t].request = steps[t].request
  BY <1>1 DEF TypeOK, Entries
<1>4. \A w \in Workers : /\ Busy(w)' = Busy(w) /\ Request(w)' = Request(w)
                         /\ StepOf(w)' = StepOf(w)
                         /\ Busy(w) => StepOf(w) \in Steps
  BY <1>2, OwnStep DEF Busy, Request, StepOf
<1>5. \A w \in Workers : Busy(w) =>
        /\ (steps[StepOf(w)].phase)' = steps[StepOf(w)].phase
        /\ (steps[StepOf(w)].request)' = steps[StepOf(w)].request
  BY <1>3, <1>4
<1>6. Ownership'
  BY <1>2, <1>4, <1>5 DEF DispatchInvariant, Ownership
<1>7. Numbering'
  BY <1>2, <1>3 DEF DispatchInvariant, Numbering
<1>8. Sending'
  <2>1. \A n \in Requests : calls[n] > 0 => binding[n].step \in Steps
    BY DEF DispatchInvariant, Numbering, TypeOK, Bindings, Operations
  <2>2. QED
    BY <2>1, <1>2, <1>3 DEF DispatchInvariant, Sending
<1>9. Standing'
  <2> SUFFICES ASSUME NEW v \in Workers
               PROVE  Standing!(v)'
    BY DEF Standing
  <2>1. CASE Busy(v)
    <3>1. Standing!(v)
      BY DEF DispatchInvariant, Standing
    <3>2. QED
      BY <2>1, <3>1, <1>2, <1>4, <1>5
  <2>2. CASE ~Busy(v)
    BY <2>2, <1>2 DEF Busy
  <2>3. QED
    BY <2>1, <2>2
<1>10. QED
  BY <1>6, <1>7, <1>8, <1>9 DEF DispatchInvariant

\* Neither the operator's epoch and approval nor the clock touch a dispatch.
LEMMA FrameStep ==
  ASSUME TypeOK, DispatchInvariant, op'.attempts = op.attempts,
         UNCHANGED <<steps, binding, worker, ledger, receipts, calls>>
  PROVE  DispatchInvariant'
<1>1. \A w \in Workers : /\ Busy(w)' = Busy(w) /\ Request(w)' = Request(w)
                         /\ StepOf(w)' = StepOf(w)
  BY DEF Busy, Request, StepOf
<1>2. Ownership'
  BY <1>1 DEF DispatchInvariant, Ownership
<1>3. Numbering' /\ Sending'
  BY DEF DispatchInvariant, Numbering, Sending
<1>4. Standing'
  BY <1>1 DEF DispatchInvariant, Standing
<1>5. QED
  BY <1>2, <1>3, <1>4 DEF DispatchInvariant

\* Every action keeps the dispatch invariant.
LEMMA DispatchStep ==
  TypeOK /\ DispatchInvariant /\ [Next]_vars => DispatchInvariant'
<1> SUFFICES ASSUME TypeOK, DispatchInvariant, [Next]_vars PROVE DispatchInvariant'
  OBVIOUS
<1>1. ASSUME NEW w \in Workers, NEW pc \in {"sign", "ledger", "record", "guard", "call"},
             Busy(w), worker[w].pc \in {"gateway", "sign", "ledger", "record", "guard"},
             Goto(w, pc), UNCHANGED <<op, steps, binding, calls>>,
             \A n \in Requests \ {Request(w)} :
               ledger'[n] = ledger[n] /\ receipts'[n] = receipts[n]
      PROVE  DispatchInvariant'
  <2> DEFINE state == [worker[w] EXCEPT !.pc = pc]
  <2>1. worker' = [worker EXCEPT ![w] = state]
    BY <1>1 DEF Goto, TypeOK
  <2>2. state.request = Request(w) /\ state.pc = pc
    BY DEF TypeOK, WorkerStates, Request
  <2>3. steps[StepOf(w)].phase = "reserved" /\ calls[Request(w)] = 0
    BY <1>1 DEF DispatchInvariant, Standing
  <2> HIDE DEF state
  <2>4. QED
    BY <1>1, <2>1, <2>2, <2>3, MoveOn
<1>2. ASSUME NEW w \in Workers, NEW execution \in Executions, NEW unavailable \in BOOLEAN,
             Busy(w), Respond(w, execution, unavailable),
             execution # "not_attempted" \/ unavailable \/ calls[Request(w)] = 0,
             UNCHANGED <<op, steps, binding, calls>>,
             \A n \in Requests \ {Request(w)} :
               ledger'[n] = ledger[n] /\ receipts'[n] = receipts[n]
      PROVE  DispatchInvariant'
  <2> DEFINE state == [pc |-> "finish", request |-> worker[w].request,
                       response |-> Reply(execution, unavailable)]
  <2>1. worker' = [worker EXCEPT ![w] = state]
    BY <1>2 DEF Respond
  <2>2. state.request = Request(w) /\ state.pc = "finish"
        /\ state.response = Reply(execution, unavailable)
    BY DEF Request
  <2>3. Reply(execution, unavailable) = Reply("not_attempted", FALSE)
          => calls[Request(w)] = 0
    BY <1>2 DEF Reply
  <2> HIDE DEF state
  <2>4. QED
    BY <1>2, <2>1, <2>2, <2>3, MoveOn
<1>3. ASSUME NEW w \in Workers, Proceed(w)
      PROVE  DispatchInvariant'
  <2>0. /\ worker[w].pc \in {"gateway", "sign", "ledger", "record", "guard"} =>
             /\ Busy(w) /\ calls[Request(w)] = 0
             /\ steps[StepOf(w)].phase = "reserved"
        /\ worker[w].pc \in PCs \ {"idle"} => Busy(w)
    BY DEF DispatchInvariant, Standing, Busy
  <2>1. CASE GatewayRefuses(w)
    BY <2>0, <2>1, <1>2 DEF GatewayRefuses, Executions
  <2>2. CASE MeshReserve(w)
    BY <2>0, <2>2, <1>1 DEF MeshReserve, TypeOK
  <2>3. CASE CommitAuthorization(w)
    BY <2>0, <2>3, <1>1 DEF CommitAuthorization, TypeOK
  <2>4. CASE LedgerAuthorized(w)
    BY <2>0, <2>4, <1>1 DEF LedgerAuthorized, TypeOK
  <2>5. CASE RecordAuthorization(w)
    <3> DEFINE entry == [steps[StepOf(w)] EXCEPT !.authorized = TRUE]
    <3>1. /\ Busy(w) /\ calls[Request(w)] = 0
          /\ worker' = [worker EXCEPT ![w].pc = "guard"]
          /\ steps' = [steps EXCEPT ![StepOf(w)] = entry]
          /\ UNCHANGED <<op, binding, calls, ledger, receipts>>
      BY <2>0, <2>5 DEF RecordAuthorization, Goto
    <3>2. StepOf(w) \in Steps /\ steps[StepOf(w)].request = Request(w)
          /\ steps[StepOf(w)].phase = "reserved"
      BY <2>0, <2>5, OwnStep DEF RecordAuthorization
    <3>3. entry.request = Request(w) /\ entry.phase = "reserved"
      BY <3>2 DEF TypeOK, Entries
    <3> HIDE DEF entry
    <3>4. QED
      BY <3>1, <3>3, MarkAttempt
  <2>6. CASE ProofUnavailable(w)
    BY <2>0, <2>6, <1>2 DEF ProofUnavailable, Executions
  <2>7. CASE EnterGuard(w)
    BY <2>0, <2>7, <1>1 DEF EnterGuard
  <2>8. CASE GuardRefuses(w)
    BY <2>0, <2>8, <1>2 DEF GuardRefuses, Executions
  <2>9. CASE ProviderCall(w)
    BY <2>9, CallStep
  <2>10. CASE CommitAttempt(w)
    <3> DEFINE entry == [steps[StepOf(w)] EXCEPT !.phase = "attempted"]
               pc == IF worker[w].pc = "lost" THEN "unknown" ELSE "outcome"
    <3>1. /\ worker[w].pc \in {"answered", "lost"}
          /\ worker' = [worker EXCEPT ![w].pc = pc]
          /\ steps' = [steps EXCEPT ![StepOf(w)] = entry]
          /\ UNCHANGED <<op, binding, calls, ledger, receipts>>
      BY <2>10 DEF CommitAttempt, Goto
    <3>2. Busy(w) /\ calls[Request(w)] = 1
      BY <3>1 DEF DispatchInvariant, Standing, Busy
    <3>3. StepOf(w) \in Steps /\ steps[StepOf(w)].request = Request(w)
      BY <3>2, OwnStep
    <3>4. /\ entry.request = Request(w) /\ entry.phase = "attempted"
          /\ pc \in {"outcome", "unknown"}
      BY <3>3 DEF TypeOK, Entries
    <3> HIDE DEF entry, pc
    <3>5. QED
      BY <3>1, <3>2, <3>4, MarkAttempt
  <2>11. CASE RollbackAttempt(w)
    BY <2>0, <2>11, <1>2 DEF RollbackAttempt, Executions, PCs
  <2>12. CASE OutcomeReceipt(w)
    <3>1. CASE worker[w].pc = "unknown"
      BY <2>0, <2>12, <3>1, <1>2 DEF OutcomeReceipt, Executions, PCs, TypeOK
    <3>2. CASE worker[w].pc = "outcome"
      <4> DEFINE state == [worker[w] EXCEPT !.pc = "complete"]
      <4>1. worker' = [worker EXCEPT ![w] = state]
        BY <2>12, <3>2 DEF OutcomeReceipt, Goto, TypeOK
      <4>2. state.request = Request(w) /\ state.pc = "complete"
        BY DEF TypeOK, WorkerStates, Request
      <4>3. steps[StepOf(w)].phase = "attempted" /\ Busy(w)
        BY <3>2 DEF DispatchInvariant, Standing, Busy
      <4>4. /\ UNCHANGED <<op, steps, binding, calls, ledger>>
            /\ \A n \in Requests \ {Request(w)} : receipts'[n] = receipts[n]
        BY <2>12 DEF OutcomeReceipt, TypeOK
      <4> HIDE DEF state
      <4>5. QED
        BY <4>1, <4>2, <4>3, <4>4, MoveOn
    <3>3. QED
      BY <2>12, <3>1, <3>2 DEF OutcomeReceipt
  <2>13. CASE OutcomeReceiptFails(w)
    BY <2>0, <2>13, <1>2 DEF OutcomeReceiptFails, Executions, PCs
  <2>14. CASE LedgerComplete(w)
    BY <2>0, <2>14, <1>2 DEF LedgerComplete, Executions, PCs, TypeOK
  <2>15. CASE CompletionFails(w)
    BY <2>0, <2>15, <1>2 DEF CompletionFails, Executions, PCs
  <2>16. CASE Finish(w)
    BY <2>16, FinishStep
  <2>17. QED
    BY <1>3, <2>1, <2>2, <2>3, <2>4, <2>5, <2>6, <2>7, <2>8, <2>9, <2>10, <2>11,
       <2>12, <2>13, <2>14, <2>15, <2>16 DEF Proceed
<1>4. ASSUME NEW w \in Workers, Crash(w)
      PROVE  DispatchInvariant'
  <2>1. worker' = [v \in Workers |-> IF v \in {w} THEN Idle ELSE worker[v]]
    BY <1>4 DEF Crash, TypeOK
  <2>2. QED
    BY <1>4, <2>1, StopStep DEF Crash
<1>5. CASE Redeploy
  <2>1. worker' = [v \in Workers |-> IF v \in Workers THEN Idle ELSE worker[v]]
    BY <1>5 DEF Redeploy
  <2>2. QED
    BY <1>5, <2>1, StopStep DEF Redeploy
<1>6. CASE Operator
  <2>1. ASSUME NEW facts, NEW until, NEW closed, NextEpoch(facts, until, closed)
        PROVE  DispatchInvariant'
    BY <2>1, FrameStep DEF NextEpoch, TypeOK, Operations
  <2>2. CASE Approve
    BY <2>2, FrameStep DEF Approve, TypeOK, Operations
  <2>3. QED
    BY <1>6, <2>1, <2>2, ObserveStep DEF Operator, Conditions, Suspend, Close
<1>7. CASE Tick
  BY <1>7, FrameStep DEF Tick
<1>8. CASE UNCHANGED vars
  BY <1>8, FrameStep DEF vars
<1>9. QED
  BY <1>3, <1>4, <1>5, <1>6, <1>7, <1>8, ReserveStep DEF Next

\* Ownership, numbering, sending and standing of dispatches hold throughout
\* every behaviour of the coordinator.
THEOREM DispatchCorrect == Spec => []DispatchInvariant
<1>1. TypeOK /\ DispatchInvariant /\ [Next]_vars => DispatchInvariant'
  BY DispatchStep
<1>2. QED
  BY <1>1, DispatchInit, TypeCorrect, PTL DEF Spec

\* No step reaches the provider twice (AtMostOneCallPerStep), whatever the
\* plan, the number of workers and the faults.
THEOREM SingleCall == Spec => []AtMostOneCallPerStep
<1>1. DispatchInvariant /\ TypeOK => AtMostOneCallPerStep
  BY DEF DispatchInvariant, Sending, AtMostOneCallPerStep, TypeOK
<1>2. QED
  BY <1>1, DispatchCorrect, TypeCorrect, PTL

\* The recorded phase tells whether the step was sent (PhaseIsTruthful).
THEOREM TruthfulPhase == Spec => []PhaseIsTruthful
<1>1. ASSUME DispatchInvariant, NEW s \in Steps
      PROVE  /\ steps[s].phase = "attempted" =>
                  \E n \in Requests : calls[n] > 0 /\ binding[n].step = s
             /\ steps[s].phase \in {"pending", "not_attempted"} =>
                  ~\E n \in Requests : calls[n] > 0 /\ binding[n].step = s
  <2>1. CASE steps[s].phase = "attempted"
    <3>1. /\ steps[s].request \in Requests /\ binding[steps[s].request].step = s
          /\ calls[steps[s].request] = 1
      BY <1>1, <2>1 DEF DispatchInvariant, Numbering, Sending
    <3>2. QED
      BY <2>1, <3>1
  <2>2. CASE steps[s].phase \in {"pending", "not_attempted"}
    BY <1>1, <2>2 DEF DispatchInvariant, Sending
  <2>3. QED
    BY <2>1, <2>2
<1>2. DispatchInvariant => PhaseIsTruthful
  BY <1>1 DEF PhaseIsTruthful
<1>3. QED
  BY <1>2, DispatchCorrect, PTL
=============================================================================
