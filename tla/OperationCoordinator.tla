------------------------ MODULE OperationCoordinator ------------------------
(***************************************************************************)
(* One governed operation of autonomy/coordinator.py: a sealed plan whose  *)
(* steps are dispatched to an external provider by concurrent gateway      *)
(* workers, while an operator changes conditions, approves, suspends,      *)
(* closes and records what an independent observer saw.                    *)
(*                                                                         *)
(* The operation row lives in a SQLite database (autonomy/store.py).       *)
(* Every write is a BEGIN IMMEDIATE transaction; the final one, _guard,    *)
(* keeps its transaction open around the provider call.  `gate' is that    *)
(* write lock while a worker holds it across steps; every other            *)
(* transaction is one action that needs the gate free.                     *)
(*                                                                         *)
(* The mesh ledger and the signed receipts are separate databases: each    *)
(* write to them is a step of its own, and a worker may die or meet a      *)
(* storage error between any two.  Time is a bounded clock, evidence is    *)
(* what its target, verdict and production time say, and a digest is the   *)
(* value it is computed from.                                              *)
(***************************************************************************)
EXTENDS Naturals, FiniteSets

CONSTANTS
  Steps,         \* step identifiers of the sealed plan
  DependsOn,     \* step -> the steps its depends_on lists
  Cost,          \* step -> cost units
  Preconditions, \* step -> facts that must hold
  Facts,         \* the facts an operator may report
  MaxAttempts,   \* plan["max_attempts"]
  MaxCost,       \* plan["max_cost"]
  Expiry,        \* plan["expires_at"]
  Window,        \* config.max_evidence_age_seconds
  Workers,       \* threads of the gateways sharing the database
  None,          \* no worker, no approval, no binding, no observation
  MaxEpoch,      \* bound on the epoch
  MaxTime,       \* bound on the clock
  MaxPolicy      \* bound on redeployments

ASSUME PlanAssumption ==
  /\ DependsOn \in [Steps -> SUBSET Steps]
  /\ Cost \in [Steps -> Nat]
  /\ Preconditions \in [Steps -> SUBSET Facts]

ASSUME LimitAssumption ==
  /\ MaxAttempts \in Nat
  /\ MaxCost \in Nat
  /\ Expiry \in Nat
  /\ Window \in Nat
  /\ MaxEpoch \in Nat
  /\ MaxTime \in Nat
  /\ MaxPolicy \in Nat

VARIABLES
  op,       \* scalar fields of the operation row
  steps,    \* state["steps"]: attempt and observation of each step
  binding,  \* request -> what its reservation sealed (journalled "reserved" event)
  worker,   \* the dispatch each worker is running
  gate,     \* worker holding the write transaction across the provider call
  ledger,   \* mesh_requests row of each request
  receipts, \* signed receipts committed for managed requests
  calls,    \* history: provider calls sent for each request
  policy,   \* operation policy and routes of the deployed configuration
  now       \* wall clock

vars == <<op, steps, binding, worker, gate, ledger, receipts, calls, policy, now>>

\* A request id is a digest over the binding, which contains the attempt
\* number; the attempt number therefore identifies the request.
Requests == 1..MaxAttempts

(***************************************************************************)
(* Types.                                                                  *)
(***************************************************************************)
Snapshots == [epoch : 0..MaxEpoch, facts : SUBSET Facts,
              until : Nat, policy : 0..MaxPolicy]

Dispositions == {"verified", "mismatch", "recovered"}

Observations == [disposition : Dispositions, target : Snapshots, produced : Nat]

Operations == [epoch : 0..MaxEpoch, facts : SUBSET Facts, until : Nat,
               approval : Snapshots \union {None}, attempts : 0..MaxAttempts,
               spent : Nat, closed : BOOLEAN]

Phases == {"pending", "reserved", "attempted", "not_attempted"}

Executions == {"", "not_attempted", "outcome_unknown", "response_received"}

Entries == [phase : Phases, request : 0..MaxAttempts, reservedAt : Nat,
            authorized : BOOLEAN, transport : Executions,
            observation : Observations \union {None}]

Bindings == [step : Steps, snapshot : Snapshots,
             dependencies : [Steps -> Observations \union {None}]]

Rows == [state : {"absent", "reserved", "complete"}, authorization : BOOLEAN]

Receipts == {"authorization", "outcome"}

\* None stands for SQL's and Python's absent values.
ASSUME NoneAssumption ==
  /\ None \notin Workers
  /\ None \notin Snapshots
  /\ None \notin Observations
  /\ None \notin Bindings

Responses == [execution : Executions, unavailable : BOOLEAN]

PCs == {"idle", "gateway", "sign", "ledger", "record", "guard", "call",
        "answered", "lost", "outcome", "unknown", "complete", "finish"}

WorkerStates == [pc : PCs, request : 0..MaxAttempts, response : Responses]

TypeOK ==
  /\ op \in Operations
  /\ steps \in [Steps -> Entries]
  /\ binding \in [Requests -> Bindings \union {None}]
  /\ worker \in [Workers -> WorkerStates]
  /\ gate \in Workers \union {None}
  /\ ledger \in [Requests -> Rows]
  /\ receipts \in [Requests -> SUBSET Receipts]
  /\ calls \in [Requests -> Nat]
  /\ policy \in 0..MaxPolicy
  /\ now \in Nat

(***************************************************************************)
(* What the handlers compute from the row, the clock and the evidence.     *)
(***************************************************************************)

\* _snapshot: the digest an approval and every target are bound to.
Snapshot == [epoch |-> op.epoch, facts |-> op.facts,
             until |-> op.until, policy |-> policy]

\* mutant: a closed operation stays usable until it expires.
WindowOpenAfterClose == now < Expiry /\ now < op.until

\* _check_window
WindowOpen == ~op.closed /\ now < Expiry /\ now < op.until

\* _current_observation: an observation counts only in its epoch, for the
\* present target, and while its evidence is fresh.
Current(s) ==
  LET obs == steps[s].observation
  IN  /\ obs # None
      /\ obs.target = Snapshot
      /\ now <= obs.produced + Window

Verified(s) == Current(s) /\ steps[s].observation.disposition = "verified"

\* The work list of _dependency_digests: everything reachable from depends_on.
Dependencies(s) ==
  {d \in Steps : \A D \in SUBSET Steps :
     (DependsOn[s] \subseteq D /\ \A x \in D : DependsOn[x] \subseteq D) => d \in D}

\* binding["dependency_observations"]
DependencyEvidence(s) ==
  [d \in Steps |-> IF d \in Dependencies(s) THEN steps[d].observation ELSE None]

\* mutant: only a marked attempt counts, not a reservation left behind.
OutstandingMarked(s) ==
  /\ steps[s].phase = "attempted"
  /\ Current(s) => steps[s].observation.disposition = "mismatch"

\* An attempt that may have reached the provider and is not reconciled.
Outstanding(s) ==
  /\ steps[s].phase \in {"attempted", "reserved"}
  /\ Current(s) => steps[s].observation.disposition = "mismatch"

\* _check_ready, with the step `own' taken out of the row (the guard deletes
\* its own reservation before the check; a reservation has none yet).
Ready(s, own) ==
  /\ WindowOpen
  /\ op.approval = Snapshot
  /\ Preconditions[s] \subseteq op.facts
  /\ \A t \in Steps \ own : ~Outstanding(t)
  /\ \A d \in Dependencies(s) : Verified(d)

Pending == [phase |-> "pending", request |-> 0, reservedAt |-> 0,
            authorized |-> FALSE, transport |-> "", observation |-> None]

Reply(execution, unavailable) ==
  [execution |-> execution, unavailable |-> unavailable]

Idle == [pc |-> "idle", request |-> 0, response |-> Reply("", FALSE)]

(***************************************************************************)
(* _propose: the row is created with an empty history.                     *)
(***************************************************************************)
Init ==
  /\ op = [epoch |-> 0, facts |-> {}, until |-> 0, approval |-> None,
           attempts |-> 0, spent |-> 0, closed |-> FALSE]
  /\ steps = [s \in Steps |-> Pending]
  /\ binding = [n \in Requests |-> None]
  /\ worker = [w \in Workers |-> Idle]
  /\ gate = None
  /\ ledger = [n \in Requests |-> [state |-> "absent", authorization |-> FALSE]]
  /\ receipts = [n \in Requests |-> {}]
  /\ calls = [n \in Requests |-> 0]
  /\ policy = 0
  /\ now = 0

(***************************************************************************)
(* The dispatch of one step, worker w.                                     *)
(***************************************************************************)
Goto(w, pc) == worker' = [worker EXCEPT ![w].pc = pc]

\* The dispatch leaves the gateway with this response and reports it.
Respond(w, execution, unavailable) ==
  worker' = [worker EXCEPT ![w] = [pc |-> "finish", request |-> worker[w].request,
                                   response |-> Reply(execution, unavailable)]]

Request(w) == worker[w].request

StepOf(w) == binding[Request(w)].step

\* mutant: any attempt that is not outstanding may be repeated.
ReservableAgain(s) ==
  /\ op.attempts < MaxAttempts
  /\ op.spent + Cost[s] <= MaxCost

\* mutant: the attempt budget is checked after it was exhausted.
ReservableUncapped(s) ==
  /\ steps[s].phase \in {"pending", "not_attempted"}
  /\ op.attempts <= MaxAttempts
  /\ op.spent + Cost[s] <= MaxCost

\* mutant: the cost of the step itself is left out of the budget.
ReservableUncosted(s) ==
  /\ steps[s].phase \in {"pending", "not_attempted"}
  /\ op.attempts < MaxAttempts
  /\ op.spent <= MaxCost

\* _step_subject: a step is free, and both budgets allow one more attempt.
Reservable(s) ==
  /\ steps[s].phase \in {"pending", "not_attempted"}
  /\ op.attempts < MaxAttempts
  /\ op.spent + Cost[s] <= MaxCost

\* First transaction of _dispatch, with the checks of _step_subject.
Reserve(w, s) ==
  LET n == op.attempts + 1
  IN  /\ worker[w].pc = "idle" /\ gate = None
      /\ Reservable(s)
      /\ Ready(s, {})
      /\ steps' = [steps EXCEPT ![s] =
                     [phase |-> "reserved", request |-> n, reservedAt |-> now,
                      authorized |-> FALSE, transport |-> "", observation |-> None]]
      /\ op' = [op EXCEPT !.attempts = n, !.spent = op.spent + Cost[s]]
      /\ binding' = [binding EXCEPT ![n] = [step |-> s, snapshot |-> op.approval,
                                            dependencies |-> DependencyEvidence(s)]]
      /\ worker' = [worker EXCEPT ![w] = [pc |-> "gateway", request |-> n,
                                          response |-> Reply("", FALSE)]]
      /\ UNCHANGED <<gate, ledger, receipts, calls, policy, now>>

\* _handle_api refuses before the mesh: authentication or authority denied
\* (reported as not attempted), authority preparation failed (a 403 without an
\* execution state), or the denial receipt could not be written (503).
GatewayRefuses(w) ==
  /\ worker[w].pc = "gateway"
  /\ \/ Respond(w, "not_attempted", FALSE)
     \/ Respond(w, "", FALSE)
     \/ Respond(w, "not_attempted", TRUE)
  /\ UNCHANGED <<op, steps, binding, gate, ledger, receipts, calls, policy, now>>

\* ledger.reserve: the key of a managed request is new.
MeshReserve(w) ==
  /\ worker[w].pc = "gateway"
  /\ ledger[Request(w)].state = "absent"
  /\ ledger' = [ledger EXCEPT ![Request(w)].state = "reserved"]
  /\ Goto(w, "sign")
  /\ UNCHANGED <<op, steps, binding, gate, receipts, calls, policy, now>>

\* _commit_authorization: the signed authorization receipt is durable.
CommitAuthorization(w) ==
  /\ worker[w].pc = "sign"
  /\ receipts' = [receipts EXCEPT ![Request(w)] = receipts[Request(w)] \union {"authorization"}]
  /\ Goto(w, "ledger")
  /\ UNCHANGED <<op, steps, binding, gate, ledger, calls, policy, now>>

\* ledger.authorized
LedgerAuthorized(w) ==
  /\ worker[w].pc = "ledger"
  /\ ledger[Request(w)].state = "reserved"
  /\ ledger' = [ledger EXCEPT ![Request(w)].authorization = TRUE]
  /\ Goto(w, "record")
  /\ UNCHANGED <<op, steps, binding, gate, receipts, calls, policy, now>>

\* _record_authorization
RecordAuthorization(w) ==
  /\ worker[w].pc = "record" /\ gate = None
  /\ steps[StepOf(w)].request = Request(w)
  /\ steps[StepOf(w)].phase = "reserved"
  /\ steps' = [steps EXCEPT ![StepOf(w)] = [steps[StepOf(w)] EXCEPT !.authorized = TRUE]]
  /\ Goto(w, "guard")
  /\ UNCHANGED <<op, binding, gate, ledger, receipts, calls, policy, now>>

\* mutant: a failed proof does not stop the dispatch.
ProofSkipped(w) ==
  /\ worker[w].pc \in {"sign", "ledger", "record", "guard"}
  /\ Goto(w, "record")
  /\ UNCHANGED <<op, steps, binding, gate, ledger, receipts, calls, policy, now>>

\* Signing, a database or the ledger fails before the gate: 503.
ProofUnavailable(w) ==
  /\ worker[w].pc \in {"sign", "ledger", "record", "guard"}
  /\ Respond(w, "not_attempted", TRUE)
  /\ UNCHANGED <<op, steps, binding, gate, ledger, receipts, calls, policy, now>>

\* mutant: any approval will do, not the one the reservation sealed.
GuardTrustsReservation(w) ==
  LET b == binding[Request(w)]
  IN  steps[b.step].phase = "reserved" /\ Ready(b.step, {b.step})

\* What _guard requires of the row before it lets the call through.
GuardAllows(w) ==
  LET b == binding[Request(w)]
      entry == steps[b.step]
  IN  /\ op.approval = b.snapshot
      /\ entry.request = Request(w)
      /\ entry.phase = "reserved"
      /\ entry.authorized
      /\ entry.observation = None
      /\ Ready(b.step, {b.step})
      /\ DependencyEvidence(b.step) = b.dependencies

\* _guard up to its yield: the transaction stays open.
EnterGuard(w) ==
  /\ worker[w].pc = "guard" /\ gate = None
  /\ GuardAllows(w)
  /\ gate' = w
  /\ Goto(w, "call")
  /\ UNCHANGED <<op, steps, binding, ledger, receipts, calls, policy, now>>

\* _guard raises OperationError: a known denial before transport.
GuardRefuses(w) ==
  /\ worker[w].pc = "guard" /\ gate = None
  /\ ~GuardAllows(w)
  /\ Respond(w, "not_attempted", FALSE)
  /\ UNCHANGED <<op, steps, binding, gate, ledger, receipts, calls, policy, now>>

\* request_upstream inside the guard; its answer may be lost.
ProviderCall(w) ==
  /\ worker[w].pc = "call"
  /\ calls' = [calls EXCEPT ![Request(w)] = calls[Request(w)] + 1]
  /\ \E pc \in {"answered", "lost"} : Goto(w, pc)
  /\ UNCHANGED <<op, steps, binding, gate, ledger, receipts, policy, now>>

\* mutant: the transaction commits without the mark.
CommitUnmarked(w) ==
  /\ worker[w].pc \in {"answered", "lost"}
  /\ gate' = None
  /\ Goto(w, IF worker[w].pc = "lost" THEN "unknown" ELSE "outcome")
  /\ UNCHANGED <<op, steps, binding, ledger, receipts, calls, policy, now>>

\* mutant: a lost answer leaves the transaction open.
CommitHoldsGate(w) ==
  /\ worker[w].pc \in {"answered", "lost"}
  /\ steps' = [steps EXCEPT ![StepOf(w)] = [steps[StepOf(w)] EXCEPT !.phase = "attempted"]]
  /\ gate' = IF worker[w].pc = "lost" THEN gate ELSE None
  /\ Goto(w, IF worker[w].pc = "lost" THEN "unknown" ELSE "outcome")
  /\ UNCHANGED <<op, binding, ledger, receipts, calls, policy, now>>

\* _guard after its yield: the attempt is marked and the transaction commits.
CommitAttempt(w) ==
  /\ worker[w].pc \in {"answered", "lost"}
  /\ steps' = [steps EXCEPT ![StepOf(w)] = [steps[StepOf(w)] EXCEPT !.phase = "attempted"]]
  /\ gate' = None
  /\ Goto(w, IF worker[w].pc = "lost" THEN "unknown" ELSE "outcome")
  /\ UNCHANGED <<op, binding, ledger, receipts, calls, policy, now>>

\* mutant: a failed commit is reported as a denial.
RollbackDenied(w) ==
  /\ worker[w].pc \in {"answered", "lost"}
  /\ gate' = None
  /\ Respond(w, "not_attempted", FALSE)
  /\ UNCHANGED <<op, steps, binding, ledger, receipts, calls, policy, now>>

\* The commit fails after the call: the reservation is what remains.
RollbackAttempt(w) ==
  /\ worker[w].pc \in {"answered", "lost"}
  /\ gate' = None
  /\ Respond(w, "not_attempted", TRUE)
  /\ UNCHANGED <<op, steps, binding, ledger, receipts, calls, policy, now>>

\* _append_receipt of the outcome, or its failure (ReceiptWriteError).
OutcomeReceipt(w) ==
  /\ worker[w].pc \in {"outcome", "unknown"}
  /\ receipts' = [receipts EXCEPT ![Request(w)] = receipts[Request(w)] \union {"outcome"}]
  /\ IF worker[w].pc = "unknown"
     THEN Respond(w, "outcome_unknown", TRUE)
     ELSE Goto(w, "complete")
  /\ UNCHANGED <<op, steps, binding, gate, ledger, calls, policy, now>>

OutcomeReceiptFails(w) ==
  /\ worker[w].pc \in {"outcome", "unknown"}
  /\ Respond(w, "outcome_unknown", TRUE)
  /\ UNCHANGED <<op, steps, binding, gate, ledger, receipts, calls, policy, now>>

\* response_for and ledger.complete.
LedgerComplete(w) ==
  /\ worker[w].pc = "complete"
  /\ ledger[Request(w)].state = "reserved"
  /\ ledger' = [ledger EXCEPT ![Request(w)].state = "complete"]
  /\ Respond(w, "response_received", FALSE)
  /\ UNCHANGED <<op, steps, binding, gate, receipts, calls, policy, now>>

\* The response is unusable (502), ledger.complete fails (ReceiptWriteError,
\* 503), or response_for cannot read the trust policy: an OSError that
\* _proof_unavailable reports as "not_attempted".
CompletionFails(w) ==
  /\ worker[w].pc = "complete"
  /\ \/ Respond(w, "response_received", TRUE)
     \/ Respond(w, "outcome_unknown", TRUE)
     \/ Respond(w, "not_attempted", TRUE)
  /\ UNCHANGED <<op, steps, binding, gate, ledger, receipts, calls, policy, now>>

\* mutant: "not_attempted" frees the step although proof was unavailable.
SettledOnReport(w) ==
  IF steps[StepOf(w)].phase = "reserved" /\ worker[w].response.execution = "not_attempted"
  THEN "not_attempted" ELSE steps[StepOf(w)].phase

\* _finish_dispatch: a known denial before transport frees the step, whatever
\* else is reported of a reservation keeps it.
SettledPhase(w) ==
  LET entry == steps[StepOf(w)]
      reply == worker[w].response
  IN  IF /\ entry.phase = "reserved" /\ entry.observation = None
         /\ reply.execution = "not_attempted" /\ ~reply.unavailable
      THEN "not_attempted" ELSE entry.phase

ReportedTransport(w) ==
  LET execution == worker[w].response.execution
  IN  IF SettledPhase(w) = "reserved" THEN "outcome_unknown"
      ELSE IF execution = "" THEN "not_attempted" ELSE execution

\* The row still holds this worker's attempt (ReservationOwned).
Finish(w) ==
  /\ worker[w].pc = "finish" /\ gate = None
  /\ steps[StepOf(w)].request = Request(w)
  /\ steps' = [steps EXCEPT ![StepOf(w)] =
                 [steps[StepOf(w)] EXCEPT !.phase = SettledPhase(w),
                                          !.transport = ReportedTransport(w)]]
  /\ worker' = [worker EXCEPT ![w] = Idle]
  /\ UNCHANGED <<op, binding, gate, ledger, receipts, calls, policy, now>>

\* The worker dies, or _finish_dispatch cannot write.  SQLite rolls back the
\* transaction of a dead worker.
Crash(w) ==
  /\ worker[w].pc # "idle"
  /\ worker' = [worker EXCEPT ![w] = Idle]
  /\ gate' = IF gate = w THEN None ELSE gate
  /\ UNCHANGED <<op, steps, binding, ledger, receipts, calls, policy, now>>

(***************************************************************************)
(* Operator requests, each one transaction (_operator).                    *)
(***************************************************************************)
\* Every conditions update, suspension and close opens a new epoch and drops
\* the approval.
NextEpoch(facts, until, closed) ==
  /\ gate = None /\ ~op.closed
  /\ op.epoch < MaxEpoch
  /\ op' = [op EXCEPT !.epoch = op.epoch + 1, !.facts = facts, !.until = until,
                      !.approval = None, !.closed = closed]
  /\ UNCHANGED <<steps, binding, worker, gate, ledger, receipts, calls, policy, now>>

Conditions ==
  \E facts \in SUBSET Facts, until \in (now + 1)..(now + Window) :
    NextEpoch(facts, until, FALSE)

Suspend == NextEpoch(op.facts, 0, FALSE)

Close == NextEpoch(op.facts, op.until, TRUE)

Approve ==
  /\ gate = None
  /\ WindowOpen
  /\ op.approval # Snapshot
  /\ op' = [op EXCEPT !.approval = Snapshot]
  /\ UNCHANGED <<steps, binding, worker, gate, ledger, receipts, calls, policy, now>>

\* _observation_target: only a retained attempt with a signed authorization
\* can be observed.
Observable(s) ==
  /\ steps[s].phase \in {"reserved", "attempted"}
  /\ ledger[steps[s].request].authorization
  /\ "authorization" \in receipts[steps[s].request]

\* mutant: a verified outcome does not need verified dependencies.
RecordableAlone(s, disposition) ==
  LET previous == steps[s].observation
  IN  (previous # None /\ previous.target.epoch = op.epoch)
        => previous.disposition = "mismatch" /\ disposition = "recovered"

\* mutant: the last observation wins.
RecordableTwice(s, disposition) ==
  disposition # "recovered" => \A d \in Dependencies(s) : Verified(d)

\* _observe: an outcome rests on verified dependencies, and within an epoch
\* only a mismatch is replaced, by a recovery.
Recordable(s, disposition) ==
  LET previous == steps[s].observation
  IN  /\ disposition # "recovered" => \A d \in Dependencies(s) : Verified(d)
      /\ (previous # None /\ previous.target.epoch = op.epoch)
           => previous.disposition = "mismatch" /\ disposition = "recovered"

\* _observe: evidence of the observer about the present target, fresh and not
\* older than the reservation.
Observe(s) ==
  /\ gate = None
  /\ Observable(s)
  /\ \E produced \in steps[s].reservedAt..now, disposition \in Dispositions :
       /\ now <= produced + Window
       /\ Recordable(s, disposition)
       /\ steps' = [steps EXCEPT ![s] = [steps[s] EXCEPT !.observation =
                      [disposition |-> disposition, target |-> Snapshot,
                       produced |-> produced]]]
  /\ UNCHANGED <<op, binding, worker, gate, ledger, receipts, calls, policy, now>>

(***************************************************************************)
(* Environment.                                                            *)
(***************************************************************************)
\* The gateways are stopped and restarted with another policy or routes.
Redeploy ==
  /\ policy < MaxPolicy
  /\ policy' = policy + 1
  /\ worker' = [w \in Workers |-> Idle]
  /\ gate' = None
  /\ UNCHANGED <<op, steps, binding, ledger, receipts, calls, now>>

Tick ==
  /\ now < MaxTime
  /\ now' = now + 1
  /\ UNCHANGED <<op, steps, binding, worker, gate, ledger, receipts, calls, policy>>

(***************************************************************************)
(* Specification.                                                          *)
(***************************************************************************)
\* What a worker does with a dispatch it has started.
Proceed(w) ==
  \/ GatewayRefuses(w) \/ MeshReserve(w) \/ CommitAuthorization(w)
  \/ LedgerAuthorized(w) \/ RecordAuthorization(w) \/ ProofUnavailable(w)
  \/ EnterGuard(w) \/ GuardRefuses(w) \/ ProviderCall(w)
  \/ CommitAttempt(w) \/ RollbackAttempt(w)
  \/ OutcomeReceipt(w) \/ OutcomeReceiptFails(w)
  \/ LedgerComplete(w) \/ CompletionFails(w) \/ Finish(w)

Operator == Conditions \/ Suspend \/ Close \/ Approve \/ \E s \in Steps : Observe(s)

Next ==
  \/ \E w \in Workers, s \in Steps : Reserve(w, s)
  \/ \E w \in Workers : Proceed(w)
  \/ \E w \in Workers : Crash(w)
  \/ Operator
  \/ Redeploy
  \/ Tick

Spec == Init /\ [][Next]_vars

\* A thread that serves a request keeps running until it has answered; nobody
\* has to dispatch, approve or observe.
FairSpec == Spec /\ \A w \in Workers : WF_vars(Proceed(w))

(***************************************************************************)
(* Properties.                                                             *)
(***************************************************************************)
\* An ambiguous command is never repeated: whatever workers race, crash, lose
\* answers or lose commits, each step of the plan reaches the provider at most
\* once in the life of the operation (_step_subject, _guard, _finish_dispatch).
AtMostOneCallPerStep ==
  /\ \A n \in Requests : calls[n] <= 1
  /\ \A m, n \in Requests :
       (calls[m] > 0 /\ calls[n] > 0 /\ binding[m].step = binding[n].step) => m = n

\* The recorded phase never lies about transport: an attempted step was sent,
\* and a step that may be reserved again was not (_guard, _finish_dispatch).
PhaseIsTruthful ==
  \A s \in Steps :
    LET sent == \E n \in Requests : calls[n] > 0 /\ binding[n].step = s
    IN  /\ steps[s].phase = "attempted" => sent
        /\ steps[s].phase \in {"pending", "not_attempted"} => ~sent

\* Signed receipts bracket the effect: a request that reached the provider has
\* its authorization, linked from the ledger and from the row, and no outcome
\* is signed for a request that was not sent (dispatch, _record_authorization).
ReceiptsBracketCall ==
  \A n \in Requests :
    /\ calls[n] > 0 => /\ "authorization" \in receipts[n]
                       /\ ledger[n].authorization
                       /\ steps[binding[n].step].request = n
                       /\ steps[binding[n].step].authorized
    /\ "outcome" \in receipts[n] => calls[n] > 0

\* At most one retained attempt has never been observed: _check_ready makes
\* every earlier one be reconciled before a new effect is reserved.
OneUnreconciledAttempt ==
  Cardinality({s \in Steps : /\ steps[s].phase \in {"reserved", "attempted"}
                             /\ steps[s].observation = None}) <= 1

\* A step verified in this epoch rests on dependencies verified in this epoch:
\* a verified outcome cannot be replaced before the epoch ends (_observe).
VerifiedClosure ==
  \A s \in Steps :
    LET verified(t) == /\ steps[t].observation # None
                       /\ steps[t].observation.target = Snapshot
                       /\ steps[t].observation.disposition = "verified"
    IN  verified(s) => \A d \in Dependencies(s) : verified(d)

\* A worker that runs a dispatch owns the reservation: nobody else replaces or
\* settles the attempt, and its ledger key is new when it reaches the mesh.
ReservationOwned ==
  \A w \in Workers : worker[w].pc # "idle" =>
    /\ steps[StepOf(w)].request = Request(w)
    /\ steps[StepOf(w)].phase \in {"reserved", "attempted"}
    /\ worker[w].pc = "gateway" => ledger[Request(w)].state = "absent"

\* A suspension, a change of conditions or a close that commits before the
\* gate prevents the call; every call is made under the approval it was
\* reserved for, with all its dependencies verified in that epoch (_guard).
CallUnderApproval ==
  [][\A n \in Requests : calls'[n] > calls[n] =>
       /\ ~op.closed
       /\ op.until # 0
       /\ op.approval = Snapshot
       /\ op.approval = binding[n].snapshot
       /\ \A d \in Dependencies(binding[n].step) :
            /\ steps[d].observation # None
            /\ steps[d].observation.target = Snapshot
            /\ steps[d].observation.disposition = "verified"]_vars

\* Within an epoch recorded evidence is kept, but for a mismatch that a
\* recovery replaces (_observe); a reservation never discards an observation.
ObservationRetained ==
  [][\A s \in Steps :
       LET before == steps[s].observation
           after == steps'[s].observation
       IN  (before # None /\ after # before) =>
             /\ after # None
             /\ \/ op.epoch > before.target.epoch
                \/ before.disposition = "mismatch" /\ after.disposition = "recovered"]_vars

\* Closing is irreversible and blocks every later call and reservation.
ClosedIsFinal ==
  [][op.closed => /\ op'.closed
                  /\ calls' = calls
                  /\ op'.attempts = op.attempts
                  /\ op'.approval = None]_vars

\* Every dispatch is answered, and the write gate is always given back.
DispatchEnds == \A w \in Workers : worker[w].pc # "idle" ~> worker[w].pc = "idle"

(***************************************************************************)
(* The inductive invariant behind these properties, in parts.              *)
(***************************************************************************)
Busy(w) == worker[w].pc # "idle"

\* Each dispatch in flight owns a request of its own and the attempt it names.
Ownership ==
  /\ \A w \in Workers : Busy(w) =>
       /\ Request(w) \in Requests
       /\ Request(w) <= op.attempts
       /\ steps[StepOf(w)].request = Request(w)
       /\ steps[StepOf(w)].phase \in {"reserved", "attempted"}
  /\ \A v, w \in Workers : (Busy(v) /\ Busy(w) /\ v # w) => Request(v) # Request(w)

\* Requests are numbered by the attempts charged, and each was sealed once.
Numbering ==
  /\ \A n \in Requests : binding[n] # None <=> n <= op.attempts
  /\ \A n \in Requests : n > op.attempts =>
       calls[n] = 0 /\ receipts[n] = {} /\ ledger[n].state = "absent"
  /\ \A s \in Steps :
       /\ steps[s].request <= op.attempts
       /\ steps[s].phase # "pending" =>
            steps[s].request \in Requests /\ binding[steps[s].request].step = s

\* A request that was sent is the retained attempt of its step.
Sending ==
  /\ \A n \in Requests : calls[n] > 0 =>
       /\ calls[n] = 1
       /\ steps[binding[n].step].request = n
       /\ steps[binding[n].step].phase \in {"reserved", "attempted"}
  /\ \A s \in Steps : steps[s].phase = "attempted" => calls[steps[s].request] = 1

\* Where a dispatch stands tells whether its request was sent.
Standing ==
  \A w \in Workers :
    /\ worker[w].pc = "gateway" => ledger[Request(w)].state = "absent"
    /\ worker[w].pc \in {"gateway", "sign", "ledger", "record", "guard", "call"} =>
         steps[StepOf(w)].phase = "reserved" /\ calls[Request(w)] = 0
    /\ worker[w].pc \in {"answered", "lost"} =>
         steps[StepOf(w)].phase = "reserved" /\ calls[Request(w)] = 1
    /\ worker[w].pc \in {"outcome", "unknown", "complete"} =>
         steps[StepOf(w)].phase = "attempted"
    /\ (/\ worker[w].pc = "finish"
        /\ worker[w].response = Reply("not_attempted", FALSE)) => calls[Request(w)] = 0

DispatchInvariant == Ownership /\ Numbering /\ Sending /\ Standing

(***************************************************************************)
(* The operation implements its promise to the provider.                   *)
(***************************************************************************)
Hold(s) ==
  CASE steps[s].phase = "reserved"  -> "held"
    [] steps[s].phase = "attempted" -> "settled"
    [] OTHER                        -> "free"

Sent == {s \in Steps : \E n \in Requests : calls[n] > 0 /\ binding[n].step = s}

Effects == INSTANCE ProviderEffects WITH
  hold <- [s \in Steps |-> Hold(s)], sent <- Sent,
  reservations <- op.attempts, charged <- op.spent

\* Reserving, sending, releasing and settling are the only ways in which a
\* step's standing with the provider changes (_dispatch, _guard,
\* _finish_dispatch).
ImplementsProviderEffects == Effects!Spec

\* docs/wave18-governed-autonomy.md:48: "`attempted` | The gateway crossed the
\* transport boundary. Inspect `transport_state` for a response or unknown
\* result."
TransportStateOfAttempted ==
  \A s \in Steps : steps[s].phase = "attempted" =>
    steps[s].transport \in {"", "response_received", "outcome_unknown"}
=============================================================================
