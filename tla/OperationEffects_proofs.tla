----------------------- MODULE OperationEffects_proofs -----------------------
(***************************************************************************)
(* Theorems about OperationCoordinator that rest on its dispatch           *)
(* invariant: the promise to the provider, and the receipts and the        *)
(* approval behind every call.                                             *)
(***************************************************************************)
EXTENDS OperationCoordinator_proofs

\* A dispatch keeps its reservation to the end (ReservationOwned): its step is
\* not settled or taken over by another one, and its ledger key is new when it
\* reaches the mesh.
THEOREM ReservationKept == Spec => []ReservationOwned
<1>1. DispatchInvariant => ReservationOwned
  BY DEF DispatchInvariant, Ownership, Standing, ReservationOwned, Busy
<1>2. QED
  BY <1>1, DispatchCorrect, PTL

-----------------------------------------------------------------------------
(***************************************************************************)
(* The refinement of ProviderEffects.                                      *)
(***************************************************************************)
\* A step that charges nothing, sends nothing and settles nothing.
NoEffect ==
  /\ op'.attempts = op.attempts /\ op'.spent = op.spent
  /\ UNCHANGED <<binding, calls>>
  /\ \A s \in Steps : steps'[s].phase = steps[s].phase

\* Every step is one of the four that concern the provider, or leaves it alone.
LEMMA NoEffectSteps ==
  ASSUME TypeOK, DispatchInvariant, [Next]_vars
  PROVE  \/ NoEffect
         \/ \E w \in Workers, s \in Steps : Reserve(w, s)
         \/ \E w \in Workers : ProviderCall(w) \/ CommitAttempt(w) \/ Finish(w)
<1>a. op \in Operations /\ \A s \in Steps : steps[s] \in Entries
  BY DEF TypeOK
<1>1. ASSUME UNCHANGED <<op, steps, binding, calls>> PROVE NoEffect
  BY <1>1 DEF NoEffect
<1>2. ASSUME NEW w \in Workers, RecordAuthorization(w) PROVE NoEffect
  <2>1. Busy(w)
    BY <1>2 DEF RecordAuthorization, Busy
  <2>2. StepOf(w) \in Steps
    BY <2>1, OwnStep
  <2>3. steps' = [steps EXCEPT ![StepOf(w)] = [steps[StepOf(w)] EXCEPT !.authorized = TRUE]]
        /\ UNCHANGED <<op, binding, calls>>
    BY <1>2 DEF RecordAuthorization
  <2>4. [steps[StepOf(w)] EXCEPT !.authorized = TRUE].phase = steps[StepOf(w)].phase
    BY <1>a, <2>2 DEF Entries
  <2>5. \A s \in Steps : steps'[s].phase = steps[s].phase
    BY <2>2, <2>3, <2>4 DEF TypeOK
  <2>6. QED
    BY <2>3, <2>5 DEF NoEffect
<1>3. ASSUME NEW s \in Steps, Observe(s) PROVE NoEffect
  <2>1. PICK obs : steps' = [steps EXCEPT ![s] = [steps[s] EXCEPT !.observation = obs]]
    BY <1>3 DEF Observe
  <2>2. UNCHANGED <<op, binding, calls>>
    BY <1>3 DEF Observe
  <2>3. \A t \in Steps : steps'[t].phase = steps[t].phase
    BY <1>a, <2>1 DEF TypeOK, Entries
  <2>4. QED
    BY <2>2, <2>3 DEF NoEffect
<1>4. ASSUME NEW facts, NEW until, NEW closed, NextEpoch(facts, until, closed) PROVE NoEffect
  BY <1>4, <1>a DEF NextEpoch, NoEffect, Operations
<1>5. CASE Approve
  BY <1>5, <1>a DEF Approve, NoEffect, Operations
<1>6. ASSUME NEW w \in Workers, Proceed(w)
      PROVE  NoEffect \/ ProviderCall(w) \/ CommitAttempt(w) \/ Finish(w)
  <2>1. CASE \/ GatewayRefuses(w) \/ MeshReserve(w) \/ CommitAuthorization(w)
             \/ LedgerAuthorized(w) \/ ProofUnavailable(w) \/ EnterGuard(w)
             \/ GuardRefuses(w) \/ RollbackAttempt(w) \/ OutcomeReceipt(w)
             \/ OutcomeReceiptFails(w) \/ LedgerComplete(w) \/ CompletionFails(w)
    <3>1. UNCHANGED <<op, steps, binding, calls>>
      BY <2>1 DEF GatewayRefuses, MeshReserve, CommitAuthorization, LedgerAuthorized,
      ProofUnavailable, EnterGuard, GuardRefuses, RollbackAttempt, OutcomeReceipt,
      OutcomeReceiptFails, LedgerComplete, CompletionFails
    <3>2. QED
      BY <1>1, <3>1
  <2>2. QED
    BY <1>2, <1>6, <2>1 DEF Proceed
<1>7. CASE Operator
  BY <1>3, <1>4, <1>5, <1>7 DEF Operator, Conditions, Suspend, Close
<1>8. QED
  BY <1>1, <1>6, <1>7 DEF Next, vars, Crash, Redeploy, Tick

\* The variables of the abstract specification.
held == [s \in Steps |-> Hold(s)]

\* A step that leaves the provider alone is a stutter of the promise.
LEMMA NoEffectMaps ==
  ASSUME NoEffect
  PROVE  held' = held /\ Sent' = Sent
<1>1. \A s \in Steps : Hold(s)' = Hold(s)
  BY DEF NoEffect, Hold
<1>2. QED
  BY <1>1 DEF held, NoEffect, Sent

\* A request that was sent is the attempt its step retains.
LEMMA SentAttempt ==
  ASSUME TypeOK, DispatchInvariant, NEW s \in Steps
  PROVE  s \in Sent => calls[steps[s].request] > 0 /\ steps[s].request \in Requests
                       /\ steps[s].phase \in {"reserved", "attempted"}
  BY DEF DispatchInvariant, Sending, Sent

\* A reservation holds its step and charges its cost.
LEMMA ReserveMaps ==
  ASSUME TypeOK, DispatchInvariant, NEW w \in Workers, NEW s \in Steps, Reserve(w, s)
  PROVE  Effects!Hold(s)
<1> DEFINE n == op.attempts + 1
           entry == [phase |-> "reserved", request |-> n, reservedAt |-> now,
                     authorized |-> FALSE, transport |-> "", observation |-> None]
           spent == op.spent + Cost[s]
<1>1. /\ steps[s].phase \in {"pending", "not_attempted"} /\ op.attempts < MaxAttempts
      /\ spent <= MaxCost
      /\ steps' = [steps EXCEPT ![s] = entry]
      /\ op' = [op EXCEPT !.attempts = n, !.spent = spent]
      /\ \E b : binding' = [binding EXCEPT ![n] = b]
      /\ calls' = calls
  BY DEF Reserve, Reservable
<1>2. n \in Requests /\ op.attempts \in Nat
  <2>1. op.attempts \in 0..MaxAttempts /\ MaxAttempts \in Nat
    BY LimitAssumption DEF TypeOK, Operations
  <2>2. op.attempts < MaxAttempts
    BY <1>1
  <2>3. QED
    BY <2>1, <2>2 DEF Requests
<1>3. calls[n] = 0
  BY <1>2 DEF DispatchInvariant, Numbering, TypeOK
<1>4. Hold(s) = "free"
  BY <1>1 DEF Hold
<1>5. op'.attempts = n /\ op'.spent = spent
  <2> HIDE DEF n, spent
  <2>1. QED
    BY <1>1 DEF TypeOK, Operations
<1>6. steps'[s].phase = "reserved" /\ \A t \in Steps : t # s => steps'[t] = steps[t]
  <2>1. entry.phase = "reserved"
    OBVIOUS
  <2> HIDE DEF entry
  <2>2. QED
    BY <1>1, <2>1 DEF TypeOK
<1>7. held' = [held EXCEPT ![s] = "held"]
  <2>1. Hold(s)' = "held" /\ \A t \in Steps : t # s => Hold(t)' = Hold(t)
    BY <1>6 DEF Hold
  <2>2. QED
    BY <2>1 DEF held
<1>8. Sent' = Sent
  <2>1. \A m \in Requests : calls[m] > 0 => binding'[m] = binding[m]
    <3> HIDE DEF n
    <3>1. PICK b : binding' = [binding EXCEPT ![n] = b]
      BY <1>1
    <3>2. QED
      BY <1>2, <1>3, <3>1 DEF TypeOK
  <2>2. QED
    BY <1>1, <2>1 DEF Sent
<1>9. QED
  BY <1>1, <1>4, <1>5, <1>7, <1>8 DEF Effects!Hold, held

\* A provider call sends the step the worker holds.
LEMMA CallMaps ==
  ASSUME TypeOK, DispatchInvariant, NEW w \in Workers, ProviderCall(w)
  PROVE  StepOf(w) \in Steps /\ Effects!Send(StepOf(w))
<1>1. Busy(w) /\ steps[StepOf(w)].phase = "reserved" /\ calls[Request(w)] = 0
  BY DEF ProviderCall, Busy, DispatchInvariant, Standing
<1>2. /\ StepOf(w) \in Steps /\ Request(w) \in Requests
      /\ steps[StepOf(w)].request = Request(w)
  BY <1>1, OwnStep
<1>3. Hold(StepOf(w)) = "held"
  BY <1>1 DEF Hold
<1>4. StepOf(w) \notin Sent
  BY <1>1, <1>2, SentAttempt
<1>5. /\ UNCHANGED <<op, steps, binding>>
      /\ calls'[Request(w)] = 1
      /\ \A n \in Requests \ {Request(w)} : calls'[n] = calls[n]
  BY <1>1, <1>2 DEF ProviderCall, TypeOK
<1>6. Sent' = Sent \union {StepOf(w)}
  <2>1. binding[Request(w)].step = StepOf(w)
    BY DEF StepOf
  <2>2. \A n \in Requests : calls'[n] > 0 <=> calls[n] > 0 \/ n = Request(w)
    BY <1>1, <1>2, <1>5
  <2>3. \A s \in Steps : (\E n \in Requests : calls'[n] > 0 /\ binding[n].step = s)
                           <=> (\E n \in Requests : calls[n] > 0 /\ binding[n].step = s)
                               \/ s = StepOf(w)
    BY <1>2, <2>1, <2>2
  <2>4. Sent' = {s \in Steps : \E n \in Requests : calls'[n] > 0 /\ binding[n].step = s}
    BY <1>5 DEF Sent
  <2>5. QED
    BY <1>2, <2>3, <2>4 DEF Sent
<1>7. held' = held
  BY <1>5 DEF held, Hold
<1>8. QED
  BY <1>2, <1>3, <1>4, <1>5, <1>6, <1>7 DEF Effects!Send, held

\* A worker that rewrites the phase of its own attempt.
LEMMA PhaseMaps ==
  ASSUME TypeOK, NEW s \in Steps, NEW entry, steps' = [steps EXCEPT ![s] = entry],
         UNCHANGED <<op, binding, calls>>, steps[s].phase = "reserved"
  PROVE  /\ Hold(s) = "held" /\ Sent' = Sent
         /\ entry.phase = "attempted" => held' = [held EXCEPT ![s] = "settled"]
         /\ entry.phase = "not_attempted" => held' = [held EXCEPT ![s] = "free"]
<1>1. steps'[s] = entry /\ \A t \in Steps : t # s => steps'[t] = steps[t]
  BY DEF TypeOK
<1>2. \A t \in Steps : t # s => Hold(t)' = Hold(t)
  BY <1>1 DEF Hold
<1>3. /\ entry.phase = "attempted" => Hold(s)' = "settled"
      /\ entry.phase = "not_attempted" => Hold(s)' = "free"
  BY <1>1 DEF Hold
<1>4. Sent' = Sent
  BY DEF Sent
<1>5. Hold(s) = "held"
  BY DEF Hold
<1>6. QED
  BY <1>2, <1>3, <1>4, <1>5 DEF held

\* Marking the attempt settles its step.
LEMMA CommitMaps ==
  ASSUME TypeOK, DispatchInvariant, NEW w \in Workers, CommitAttempt(w)
  PROVE  StepOf(w) \in Steps /\ Effects!Settle(StepOf(w))
<1> DEFINE entry == [steps[StepOf(w)] EXCEPT !.phase = "attempted"]
<1>1. Busy(w) /\ steps[StepOf(w)].phase = "reserved" /\ calls[Request(w)] = 1
  BY DEF CommitAttempt, Busy, DispatchInvariant, Standing
<1>2. StepOf(w) \in Steps /\ Request(w) \in Requests
  BY <1>1, OwnStep
<1>3. StepOf(w) \in Sent
  BY <1>1, <1>2 DEF Sent, StepOf
<1>4. steps' = [steps EXCEPT ![StepOf(w)] = entry] /\ UNCHANGED <<op, binding, calls>>
  BY DEF CommitAttempt
<1>5. entry.phase = "attempted"
  BY <1>2 DEF TypeOK, Entries
<1> HIDE DEF entry
<1>6. Hold(StepOf(w)) = "held" /\ Sent' = Sent /\ held' = [held EXCEPT ![StepOf(w)] = "settled"]
  BY <1>1, <1>2, <1>4, <1>5, PhaseMaps
<1>7. QED
  BY <1>2, <1>3, <1>4, <1>6 DEF Effects!Settle, held

\* Reporting a clean denial releases the step; other reports change nothing.
LEMMA FinishMaps ==
  ASSUME TypeOK, DispatchInvariant, NEW w \in Workers, Finish(w)
  PROVE  NoEffect \/ (StepOf(w) \in Steps /\ Effects!Release(StepOf(w)))
<1> DEFINE entry == [steps[StepOf(w)] EXCEPT !.phase = SettledPhase(w),
                                             !.transport = ReportedTransport(w)]
<1>1. /\ Busy(w) /\ steps' = [steps EXCEPT ![StepOf(w)] = entry]
      /\ UNCHANGED <<op, binding, calls>>
  BY DEF Finish, Busy
<1>2. /\ StepOf(w) \in Steps /\ Request(w) \in Requests
      /\ steps[StepOf(w)].request = Request(w)
  BY <1>1, OwnStep
<1>3. entry.phase = SettledPhase(w)
  BY <1>2 DEF TypeOK, Entries
<1>4. CASE SettledPhase(w) = steps[StepOf(w)].phase
  <2> HIDE DEF entry
  <2>1. \A s \in Steps : steps'[s].phase = steps[s].phase
    BY <1>1, <1>2, <1>3, <1>4 DEF TypeOK
  <2>2. QED
    BY <1>1, <2>1 DEF NoEffect
<1>5. CASE SettledPhase(w) # steps[StepOf(w)].phase
  <2>1. /\ SettledPhase(w) = "not_attempted" /\ steps[StepOf(w)].phase = "reserved"
        /\ worker[w].response.execution = "not_attempted" /\ ~worker[w].response.unavailable
    BY <1>5 DEF SettledPhase
  <2>2. worker[w].response \in Responses /\ worker[w].pc = "finish"
    BY DEF TypeOK, WorkerStates, Finish
  <2>3. worker[w].response = Reply("not_attempted", FALSE)
    BY <2>1, <2>2 DEF Responses, Reply
  <2>4. calls[Request(w)] = 0
    BY <2>2, <2>3 DEF DispatchInvariant, Standing
  <2>5. StepOf(w) \notin Sent
    BY <1>2, <2>4, SentAttempt
  <2> HIDE DEF entry
  <2>6. Hold(StepOf(w)) = "held" /\ Sent' = Sent /\ held' = [held EXCEPT ![StepOf(w)] = "free"]
    BY <1>1, <1>2, <1>3, <2>1, PhaseMaps
  <2>7. QED
    BY <1>1, <1>2, <2>5, <2>6 DEF Effects!Release, held
<1>6. QED
  BY <1>4, <1>5

\* The coordinator, with all its workers, crashes and lost commits, implements
\* the promise to the provider: budgets are charged once per reservation, a
\* step is sent at most once and is free again only if it was not sent.
THEOREM CoordinatorImplementsEffects == Spec => ImplementsProviderEffects
<1>1. Init => Effects!Init
  <2> SUFFICES ASSUME Init PROVE Effects!Init
    OBVIOUS
  <2>1. /\ op.attempts = 0 /\ op.spent = 0
        /\ \A s \in Steps : steps[s].phase = "pending"
        /\ \A n \in Requests : calls[n] = 0
    BY DEF Init, Pending
  <2>2. Sent = {} /\ \A s \in Steps : Hold(s) = "free"
    BY <2>1 DEF Sent, Hold
  <2>3. QED
    BY <2>1, <2>2 DEF Effects!Init
<1>2. ASSUME TypeOK, DispatchInvariant, [Next]_vars
      PROVE  [Effects!Next]_(Effects!vars)
  <2>1. CASE NoEffect
    BY <2>1, NoEffectMaps DEF NoEffect, Effects!vars, held
  <2>2. ASSUME NEW w \in Workers, NEW s \in Steps, Reserve(w, s) PROVE Effects!Next
    BY <1>2, <2>2, ReserveMaps DEF Effects!Next
  <2>3. ASSUME NEW w \in Workers, ProviderCall(w) PROVE Effects!Next
    BY <1>2, <2>3, CallMaps DEF Effects!Next
  <2>4. ASSUME NEW w \in Workers, CommitAttempt(w) PROVE Effects!Next
    BY <1>2, <2>4, CommitMaps DEF Effects!Next
  <2>5. ASSUME NEW w \in Workers, Finish(w) PROVE [Effects!Next]_(Effects!vars)
    BY <1>2, <2>1, <2>5, FinishMaps DEF Effects!Next
  <2>6. QED
    BY <1>2, <2>1, <2>2, <2>3, <2>4, <2>5, NoEffectSteps
<1>3. TypeOK /\ DispatchInvariant /\ [Next]_vars => [Effects!Next]_(Effects!vars)
  BY <1>2
<1>4. QED
  BY <1>1, <1>3, TypeCorrect, DispatchCorrect, PTL
  DEF Spec, ImplementsProviderEffects, Effects!Spec

-----------------------------------------------------------------------------
(***************************************************************************)
(* Receipts around the call.                                               *)
(***************************************************************************)
\* What no step takes back: seals, receipts, links and calls; and where a new
\* outcome or a new call comes from.
Retained ==
  /\ \A n \in Requests :
       /\ n <= op.attempts => binding'[n] = binding[n]
       /\ "authorization" \in receipts[n] => "authorization" \in receipts'[n]
       /\ "outcome" \in receipts'[n] => "outcome" \in receipts[n] \/ calls[n] > 0
       /\ ledger[n].authorization => ledger'[n].authorization
       /\ calls[n] > 0 => calls'[n] > 0
       /\ calls'[n] > 0 => calls[n] > 0
                           \/ \E w \in Workers : worker[w].pc = "call" /\ Request(w) = n
  /\ \A s \in Steps :
       steps[s].phase \in {"reserved", "attempted"} /\ steps[s].authorized
         => steps'[s].authorized

\* What a worker has proven of its request stays proven while others act.
LEMMA RetainedStep ==
  ASSUME TypeOK, DispatchInvariant, [Next]_vars
  PROVE  Retained
<1>a. /\ receipts \in [Requests -> SUBSET Receipts] /\ ledger \in [Requests -> Rows]
      /\ calls \in [Requests -> Nat] /\ \A s \in Steps : steps[s] \in Entries
      /\ \A n \in Requests : ledger[n] \in Rows
  BY DEF TypeOK
<1>1. ASSUME UNCHANGED <<binding, receipts, ledger, calls, steps>> PROVE Retained
  BY <1>1 DEF Retained
<1>2. ASSUME NEW w \in Workers, NEW s \in Steps, Reserve(w, s) PROVE Retained
  <2>1. /\ steps[s].phase \in {"pending", "not_attempted"}
        /\ \E e : steps' = [steps EXCEPT ![s] = e]
        /\ \E b : binding' = [binding EXCEPT ![op.attempts + 1] = b]
        /\ UNCHANGED <<receipts, ledger, calls>>
    BY <1>2 DEF Reserve, Reservable
  <2>2. \A n \in Requests : n <= op.attempts => binding'[n] = binding[n]
    <3>1. op.attempts \in Nat
      BY LimitAssumption DEF TypeOK, Operations
    <3>2. PICK b : binding' = [binding EXCEPT ![op.attempts + 1] = b]
      BY <2>1
    <3>3. \A n \in Requests : n <= op.attempts => n # op.attempts + 1
      BY <3>1 DEF Requests
    <3>4. QED
      BY <3>2, <3>3 DEF TypeOK
  <2>3. \A t \in Steps : t # s => steps'[t] = steps[t]
    BY <2>1 DEF TypeOK
  <2>4. QED
    BY <2>1, <2>2, <2>3 DEF Retained
<1>3. ASSUME NEW w \in Workers, MeshReserve(w) PROVE Retained
  <2>1. UNCHANGED <<binding, receipts, calls, steps>>
        /\ ledger' = [ledger EXCEPT ![Request(w)].state = "reserved"]
    BY <1>3 DEF MeshReserve
  <2>2. \A n \in Requests : ledger'[n].authorization = ledger[n].authorization
    BY <1>a, <2>1 DEF Rows
  <2>3. QED
    BY <2>1, <2>2 DEF Retained
<1>4. ASSUME NEW w \in Workers, CommitAuthorization(w) PROVE Retained
  <2>1. UNCHANGED <<binding, ledger, calls, steps>>
        /\ receipts' = [receipts EXCEPT ![Request(w)] =
                          receipts[Request(w)] \union {"authorization"}]
    BY <1>4 DEF CommitAuthorization
  <2>2. QED
    BY <1>a, <2>1 DEF Retained
<1>5. ASSUME NEW w \in Workers, LedgerAuthorized(w) PROVE Retained
  <2>1. UNCHANGED <<binding, receipts, calls, steps>>
        /\ ledger' = [ledger EXCEPT ![Request(w)].authorization = TRUE]
    BY <1>5 DEF LedgerAuthorized
  <2>2. \A n \in Requests : ledger[n].authorization => ledger'[n].authorization
    BY <1>a, <2>1 DEF Rows
  <2>3. QED
    BY <2>1, <2>2 DEF Retained
<1>6. ASSUME NEW w \in Workers, RecordAuthorization(w) PROVE Retained
  <2>1. UNCHANGED <<binding, receipts, calls, ledger>>
        /\ steps' = [steps EXCEPT ![StepOf(w)] = [steps[StepOf(w)] EXCEPT !.authorized = TRUE]]
    BY <1>6 DEF RecordAuthorization
  <2>2. \A s \in Steps : steps[s].authorized => steps'[s].authorized
    BY <1>a, <2>1 DEF Entries, TypeOK
  <2>3. QED
    BY <2>1, <2>2 DEF Retained
<1>7. ASSUME NEW w \in Workers, ProviderCall(w) PROVE Retained
  <2>1. UNCHANGED <<binding, receipts, ledger, steps>> /\ worker[w].pc = "call"
        /\ calls' = [calls EXCEPT ![Request(w)] = calls[Request(w)] + 1]
    BY <1>7 DEF ProviderCall
  <2>2. \A n \in Requests : calls'[n] = IF n = Request(w) THEN calls[n] + 1 ELSE calls[n]
    BY <1>a, <2>1
  <2>3. QED
    BY <1>a, <2>1, <2>2 DEF Retained
<1>8. ASSUME NEW w \in Workers, CommitAttempt(w) PROVE Retained
  <2>1. UNCHANGED <<binding, receipts, calls, ledger>>
        /\ steps' = [steps EXCEPT ![StepOf(w)] = [steps[StepOf(w)] EXCEPT !.phase = "attempted"]]
    BY <1>8 DEF CommitAttempt
  <2>2. \A s \in Steps : steps'[s].authorized = steps[s].authorized
    BY <1>a, <2>1 DEF Entries, TypeOK
  <2>3. QED
    BY <2>1, <2>2 DEF Retained
<1>9. ASSUME NEW w \in Workers, OutcomeReceipt(w) PROVE Retained
  <2>1. UNCHANGED <<binding, ledger, calls, steps>>
        /\ receipts' = [receipts EXCEPT ![Request(w)] = receipts[Request(w)] \union {"outcome"}]
    BY <1>9 DEF OutcomeReceipt
  <2>2. Busy(w) /\ steps[StepOf(w)].phase = "attempted"
    BY <1>9 DEF OutcomeReceipt, Busy, DispatchInvariant, Standing
  <2>3. calls[Request(w)] > 0
    BY <2>2, OwnStep DEF DispatchInvariant, Sending
  <2>4. QED
    BY <1>a, <2>1, <2>3 DEF Retained
<1>10. ASSUME NEW w \in Workers, LedgerComplete(w) PROVE Retained
  <2>1. UNCHANGED <<binding, receipts, calls, steps>>
        /\ ledger' = [ledger EXCEPT ![Request(w)].state = "complete"]
    BY <1>10 DEF LedgerComplete
  <2>2. \A n \in Requests : ledger'[n].authorization = ledger[n].authorization
    BY <1>a, <2>1 DEF Rows
  <2>3. QED
    BY <2>1, <2>2 DEF Retained
<1>11. ASSUME NEW w \in Workers, Finish(w) PROVE Retained
  <2>1. UNCHANGED <<binding, receipts, calls, ledger>>
        /\ steps' = [steps EXCEPT ![StepOf(w)] =
                       [steps[StepOf(w)] EXCEPT !.phase = SettledPhase(w),
                                                !.transport = ReportedTransport(w)]]
    BY <1>11 DEF Finish
  <2>2. \A s \in Steps : steps'[s].authorized = steps[s].authorized
    BY <1>a, <2>1 DEF Entries, TypeOK
  <2>3. QED
    BY <2>1, <2>2 DEF Retained
<1>12. ASSUME NEW s \in Steps, Observe(s) PROVE Retained
  <2>1. UNCHANGED <<binding, receipts, calls, ledger>>
        /\ \E obs : steps' = [steps EXCEPT ![s] = [steps[s] EXCEPT !.observation = obs]]
    BY <1>12 DEF Observe
  <2>2. \A t \in Steps : steps'[t].authorized = steps[t].authorized
    BY <1>a, <2>1 DEF Entries, TypeOK
  <2>3. QED
    BY <2>1, <2>2 DEF Retained
<1>13. ASSUME NEW w \in Workers,
              \/ GatewayRefuses(w) \/ ProofUnavailable(w) \/ EnterGuard(w) \/ GuardRefuses(w)
              \/ RollbackAttempt(w) \/ OutcomeReceiptFails(w) \/ CompletionFails(w) \/ Crash(w)
       PROVE  Retained
  <2>1. UNCHANGED <<binding, receipts, ledger, calls, steps>>
    BY <1>13 DEF GatewayRefuses, ProofUnavailable, EnterGuard, GuardRefuses, RollbackAttempt,
                 OutcomeReceiptFails, CompletionFails, Crash
  <2>2. QED
    BY <1>1, <2>1
<1>14. CASE Operator
  <2>1. CASE Conditions \/ Suspend \/ Close \/ Approve
    <3>1. UNCHANGED <<binding, receipts, ledger, calls, steps>>
      BY <2>1 DEF Conditions, Suspend, Close, Approve, NextEpoch
    <3>2. QED
      BY <1>1, <3>1
  <2>2. QED
    BY <1>12, <1>14, <2>1 DEF Operator
<1>15. CASE Redeploy \/ Tick \/ UNCHANGED vars
  <2>1. UNCHANGED <<binding, receipts, ledger, calls, steps>>
    BY <1>15 DEF Redeploy, Tick, vars
  <2>2. QED
    BY <1>1, <2>1
<1>16. ASSUME NEW w \in Workers, Proceed(w) PROVE Retained
  BY <1>3, <1>4, <1>5, <1>6, <1>7, <1>8, <1>9, <1>10, <1>11, <1>13, <1>16 DEF Proceed
<1>17. QED
  BY <1>2, <1>13, <1>14, <1>15, <1>16 DEF Next

\* How far a dispatch has come tells which proofs of its request are durable.
ProvenAt(w) ==
  /\ worker[w].pc \in {"ledger", "record", "guard", "call"} =>
       "authorization" \in receipts[Request(w)]
  /\ worker[w].pc \in {"record", "guard", "call"} => ledger[Request(w)].authorization
  /\ worker[w].pc \in {"guard", "call"} => steps[StepOf(w)].authorized

BracketInvariant == (\A w \in Workers : ProvenAt(w)) /\ ReceiptsBracketCall

\* A worker moves to a new place only by its own action, which has made the
\* proof of that place durable.
Advanced(w) ==
  /\ worker'[w].request = worker[w].request
  /\ \/ worker'[w].pc = "ledger" /\ "authorization" \in receipts'[Request(w)]
     \/ /\ worker[w].pc = "ledger" /\ worker'[w].pc = "record"
        /\ ledger'[Request(w)].authorization
     \/ /\ worker[w].pc = "record" /\ worker'[w].pc = "guard"
        /\ steps'[StepOf(w)].authorized
     \/ worker[w].pc = "guard" /\ worker'[w].pc = "call"

Elsewhere(w) == worker'[w].pc \notin {"ledger", "record", "guard", "call"}

\* Where a worker goes when it is moved to a place, or answers.
LEMMA Moves ==
  ASSUME TypeOK, NEW w \in Workers
  PROVE  /\ \A pc \in PCs : Goto(w, pc) =>
              /\ worker'[w].pc = pc /\ worker'[w].request = worker[w].request
              /\ \A v \in Workers : v # w => worker'[v] = worker[v]
         /\ \A execution, unavailable : Respond(w, execution, unavailable) =>
              /\ worker'[w].pc = "finish"
              /\ \A v \in Workers : v # w => worker'[v] = worker[v]
<1>1. worker \in [Workers -> WorkerStates] /\ worker[w] \in WorkerStates
  BY DEF TypeOK
<1>2. ASSUME NEW pc \in PCs, Goto(w, pc)
      PROVE  /\ worker'[w].pc = pc /\ worker'[w].request = worker[w].request
             /\ \A v \in Workers : v # w => worker'[v] = worker[v]
  BY <1>1, <1>2 DEF Goto, WorkerStates
<1>3. ASSUME NEW execution, NEW unavailable, Respond(w, execution, unavailable)
      PROVE  /\ worker'[w].pc = "finish"
             /\ \A v \in Workers : v # w => worker'[v] = worker[v]
  <2> DEFINE state == [pc |-> "finish", request |-> worker[w].request,
                       response |-> Reply(execution, unavailable)]
  <2>1. worker' = [worker EXCEPT ![w] = state] /\ state.pc = "finish"
    BY <1>3 DEF Respond
  <2> HIDE DEF state
  <2>2. QED
    BY <1>1, <2>1
<1>4. QED
  BY <1>2, <1>3

\* A worker that moves on has proven what its new place requires.
LEMMA AdvancedStep ==
  ASSUME TypeOK, DispatchInvariant, [Next]_vars, NEW v \in Workers
  PROVE  worker'[v] = worker[v] \/ Advanced(v) \/ Elsewhere(v)
<1>a. worker \in [Workers -> WorkerStates]
      /\ receipts \in [Requests -> SUBSET Receipts] /\ ledger \in [Requests -> Rows]
  BY DEF TypeOK
<1> DEFINE Ok == worker'[v] = worker[v] \/ Advanced(v) \/ Elsewhere(v)
<1>1. ASSUME NEW w \in Workers, NEW pc \in {"sign", "complete", "answered", "lost",
                                            "outcome", "unknown"}, Goto(w, pc)
      PROVE  Ok
  BY <1>1, Moves DEF PCs, Elsewhere
<1>2. ASSUME NEW w \in Workers, NEW execution, NEW unavailable, Respond(w, execution, unavailable)
      PROVE  Ok
  BY <1>2, Moves DEF Elsewhere
<1>3. ASSUME NEW w \in Workers, NEW s \in Steps, Reserve(w, s) PROVE Ok
  <2> DEFINE state == [pc |-> "gateway", request |-> op.attempts + 1, response |-> Reply("", FALSE)]
  <2>1. worker' = [worker EXCEPT ![w] = state] /\ state.pc = "gateway"
    BY <1>3 DEF Reserve
  <2> HIDE DEF state
  <2>2. QED
    BY <1>a, <2>1 DEF Elsewhere
<1>4. ASSUME NEW w \in Workers, CommitAuthorization(w) PROVE Ok
  <2>1. Busy(w)
    BY <1>4 DEF CommitAuthorization, Busy
  <2>2. Request(w) \in Requests
    BY <2>1, OwnStep
  <2>3. "authorization" \in receipts'[Request(w)]
    BY <1>4, <1>a, <2>2 DEF CommitAuthorization
  <2>4. Goto(w, "ledger")
    BY <1>4 DEF CommitAuthorization
  <2>5. QED
    BY <2>3, <2>4, Moves DEF Advanced, PCs
<1>5. ASSUME NEW w \in Workers, LedgerAuthorized(w) PROVE Ok
  <2>1. Busy(w)
    BY <1>5 DEF LedgerAuthorized, Busy
  <2>2. Request(w) \in Requests /\ ledger[Request(w)] \in Rows
    BY <1>a, <2>1, OwnStep
  <2>3. ledger'[Request(w)].authorization
    BY <1>5, <1>a, <2>2 DEF LedgerAuthorized, Rows
  <2>4. Goto(w, "record") /\ worker[w].pc = "ledger"
    BY <1>5 DEF LedgerAuthorized
  <2>5. QED
    BY <2>3, <2>4, Moves DEF Advanced, PCs
<1>6. ASSUME NEW w \in Workers, RecordAuthorization(w) PROVE Ok
  <2>1. Busy(w)
    BY <1>6 DEF RecordAuthorization, Busy
  <2>2. StepOf(w) \in Steps /\ steps[StepOf(w)] \in Entries
    BY <2>1, OwnStep DEF TypeOK
  <2>3. steps'[StepOf(w)].authorized
    BY <1>6, <2>2 DEF RecordAuthorization, Entries, TypeOK
  <2>4. Goto(w, "guard") /\ worker[w].pc = "record"
    BY <1>6 DEF RecordAuthorization
  <2>5. QED
    BY <2>3, <2>4, Moves DEF Advanced, PCs
<1>7. ASSUME NEW w \in Workers, EnterGuard(w) PROVE Ok
  <2>1. Goto(w, "call") /\ worker[w].pc = "guard"
    BY <1>7 DEF EnterGuard
  <2>2. QED
    BY <2>1, Moves DEF Advanced, PCs
<1>8. ASSUME NEW w \in Workers, Finish(w) \/ Crash(w) PROVE Ok
  <2>1. worker' = [worker EXCEPT ![w] = Idle] /\ Idle.pc = "idle"
    BY <1>8 DEF Finish, Crash, Idle
  <2>2. QED
    BY <1>a, <2>1 DEF Elsewhere
<1>9. CASE Redeploy
  BY <1>9 DEF Redeploy, Idle, Elsewhere
<1>10. CASE Operator \/ Tick \/ UNCHANGED vars
  <2>1. worker' = worker
    BY <1>10 DEF Operator, Conditions, Suspend, Close, Approve, NextEpoch, Observe, Tick, vars
  <2>2. QED
    BY <2>1
<1>11. ASSUME NEW w \in Workers, MeshReserve(w) \/ ProviderCall(w) \/ CommitAttempt(w) PROVE Ok
  BY <1>1, <1>11 DEF MeshReserve, ProviderCall, CommitAttempt
<1>12. ASSUME NEW w \in Workers, OutcomeReceipt(w) PROVE Ok
  BY <1>1, <1>2, <1>12 DEF OutcomeReceipt
<1>13. ASSUME NEW w \in Workers,
              \/ GatewayRefuses(w) \/ ProofUnavailable(w) \/ GuardRefuses(w)
              \/ RollbackAttempt(w) \/ OutcomeReceiptFails(w) \/ LedgerComplete(w)
              \/ CompletionFails(w)
       PROVE  Ok
  BY <1>2, <1>13 DEF GatewayRefuses, ProofUnavailable, GuardRefuses, RollbackAttempt,
                     OutcomeReceiptFails, LedgerComplete, CompletionFails
<1>14. ASSUME NEW w \in Workers, Proceed(w) PROVE Ok
  BY <1>4, <1>5, <1>6, <1>7, <1>8, <1>11, <1>12, <1>13, <1>14 DEF Proceed
<1>15. QED
  BY <1>3, <1>8, <1>9, <1>10, <1>14 DEF Next

\* The receipts keep bracketing the calls in every step.
LEMMA BracketStep ==
  ASSUME TypeOK, DispatchInvariant, DispatchInvariant', BracketInvariant, [Next]_vars
  PROVE  BracketInvariant'
<1>a. Retained
  BY RetainedStep
<1>1. ASSUME NEW v \in Workers PROVE ProvenAt(v)'
  <2>1. CASE Elsewhere(v)
    BY <2>1 DEF Elsewhere, ProvenAt
  <2>2. CASE worker[v].pc = "idle" /\ worker'[v] = worker[v]
    BY <2>2 DEF ProvenAt
  <2>3. CASE Busy(v) /\ worker'[v].request = worker[v].request
    <3>1. /\ Request(v) \in Requests /\ Request(v) <= op.attempts /\ StepOf(v) \in Steps
          /\ steps[StepOf(v)].phase \in {"reserved", "attempted"}
      BY <2>3, OwnStep DEF DispatchInvariant, Ownership
    <3>2. Request(v)' = Request(v)
      BY <2>3 DEF Request
    <3>3. StepOf(v)' = StepOf(v)
      <4>1. StepOf(v)' = binding'[Request(v)].step
        BY <3>2 DEF StepOf
      <4>2. QED
        BY <1>a, <3>1, <4>1 DEF Retained, StepOf
    <3>4. /\ "authorization" \in receipts[Request(v)] => "authorization" \in (receipts[Request(v)])'
          /\ ledger[Request(v)].authorization => (ledger[Request(v)].authorization)'
          /\ steps[StepOf(v)].authorized => (steps[StepOf(v)].authorized)'
      BY <1>a, <3>1, <3>2, <3>3 DEF Retained
    <3>5. ProvenAt(v)
      BY DEF BracketInvariant
    <3>6. CASE worker'[v] = worker[v]
      BY <3>4, <3>5, <3>6 DEF ProvenAt
    <3>7. CASE Advanced(v)
      <4>1. \/ worker'[v].pc = "ledger" /\ "authorization" \in (receipts[Request(v)])'
            \/ /\ worker[v].pc = "ledger" /\ worker'[v].pc = "record"
               /\ (ledger[Request(v)].authorization)'
            \/ /\ worker[v].pc = "record" /\ worker'[v].pc = "guard"
               /\ (steps[StepOf(v)].authorized)'
            \/ worker[v].pc = "guard" /\ worker'[v].pc = "call"
        BY <3>2, <3>3, <3>7 DEF Advanced
      <4>2. QED
        BY <3>4, <3>5, <4>1 DEF ProvenAt
    <3>8. QED
      BY <2>1, <3>6, <3>7, AdvancedStep
  <2>4. CASE worker[v].pc = "idle" /\ Advanced(v)
    <3>1. worker'[v].pc = "ledger" /\ "authorization" \in receipts'[Request(v)]
      BY <2>4 DEF Advanced
    <3>2. Request(v)' = Request(v)
      BY <2>4 DEF Advanced, Request
    <3>3. QED
      BY <3>1, <3>2 DEF ProvenAt
  <2>5. QED
    BY <2>1, <2>2, <2>3, <2>4, AdvancedStep DEF Busy, Advanced
<1>2. ASSUME NEW n \in Requests, calls'[n] > 0
      PROVE  /\ "authorization" \in receipts'[n] /\ ledger'[n].authorization
             /\ steps'[binding'[n].step].request = n
             /\ steps'[binding'[n].step].authorized
  <2>1. steps'[binding'[n].step].request = n
    BY <1>2 DEF DispatchInvariant, Sending
  <2>2. /\ "authorization" \in receipts[n] /\ ledger[n].authorization
        /\ n <= op.attempts /\ binding[n].step \in Steps
        /\ steps[binding[n].step].phase \in {"reserved", "attempted"}
        /\ steps[binding[n].step].authorized
    <3>1. CASE calls[n] > 0
      <4>1. n <= op.attempts
        <5>1. op.attempts \in Nat
          BY LimitAssumption DEF TypeOK, Operations
        <5>2. ~(n > op.attempts)
          BY <3>1 DEF DispatchInvariant, Numbering
        <5>3. QED
          BY <5>1, <5>2 DEF Requests
      <4>2. binding[n].step \in Steps
        BY <3>1, <4>1 DEF DispatchInvariant, Numbering, TypeOK, Bindings
      <4>3. QED
        BY <3>1, <4>1, <4>2
        DEF BracketInvariant, ReceiptsBracketCall, DispatchInvariant, Sending
    <3>2. ASSUME NEW w \in Workers, worker[w].pc = "call", Request(w) = n
          PROVE  /\ "authorization" \in receipts[n] /\ ledger[n].authorization
                 /\ n <= op.attempts /\ binding[n].step \in Steps
                 /\ steps[binding[n].step].phase \in {"reserved", "attempted"}
                 /\ steps[binding[n].step].authorized
      <4>1. Busy(w)
        BY <3>2 DEF Busy
      <4>2. QED
        BY <3>2, <4>1, OwnStep
        DEF BracketInvariant, ProvenAt, StepOf, DispatchInvariant, Standing
    <3>3. QED
      BY <1>2, <1>a, <3>1, <3>2 DEF Retained
  <2>3. QED
    BY <1>a, <2>1, <2>2 DEF Retained
<1>3. ASSUME NEW n \in Requests, "outcome" \in receipts'[n] PROVE calls'[n] > 0
  BY <1>3, <1>a DEF Retained, BracketInvariant, ReceiptsBracketCall
<1>4. ReceiptsBracketCall'
  BY <1>2, <1>3 DEF ReceiptsBracketCall
<1>5. QED
  BY <1>1, <1>4 DEF BracketInvariant

\* Signed receipts bracket the effect: a request that reached the provider was
\* authorized, linked and recorded before, and only such a request has an
\* outcome (dispatch, _record_authorization).
THEOREM CallsBracketed == Spec => []ReceiptsBracketCall
<1>1. Init => BracketInvariant
  <2> SUFFICES ASSUME Init PROVE BracketInvariant
    OBVIOUS
  <2>1. /\ \A w \in Workers : worker[w].pc = "idle"
        /\ \A n \in Requests : calls[n] = 0 /\ receipts[n] = {}
    BY DEF Init, Idle
  <2>2. \A w \in Workers : ProvenAt(w)
    BY <2>1 DEF ProvenAt
  <2>3. ReceiptsBracketCall
    BY <2>1 DEF ReceiptsBracketCall
  <2>4. QED
    BY <2>2, <2>3 DEF BracketInvariant
<1>2. TypeOK /\ DispatchInvariant /\ BracketInvariant /\ [Next]_vars /\ DispatchInvariant'
        => BracketInvariant'
  BY BracketStep
<1>3. BracketInvariant => ReceiptsBracketCall
  BY DEF BracketInvariant
<1>4. QED
  BY <1>1, <1>2, <1>3, TypeCorrect, DispatchCorrect, PTL DEF Spec

-----------------------------------------------------------------------------
(***************************************************************************)
(* The approval under which a call is made.                                *)
(***************************************************************************)
\* A worker between the checks of _guard and its commit.
Inside(pc) == pc \in {"call", "answered", "lost"}

\* What _guard has found, and what the open transaction keeps as it is.
Approved(w) ==
  /\ ~op.closed
  /\ op.until # 0
  /\ op.approval = Snapshot
  /\ op.approval = binding[Request(w)].snapshot
  /\ \A d \in Dependencies(binding[Request(w)].step) :
       /\ steps[d].observation # None
       /\ steps[d].observation.target = Snapshot
       /\ steps[d].observation.disposition = "verified"

Guarded ==
  \A w \in Workers : /\ Inside(worker[w].pc) => gate = w
                     /\ worker[w].pc = "call" => Approved(w)

\* What another dispatch, the operator or a restart can do to a worker inside.
Sheltered(v) ==
  /\ Inside(worker[v].pc) /\ worker'[v].request = worker[v].request
  /\ worker'[v].pc = "call" => worker[v].pc = "call"
  /\ gate' = gate
  /\ UNCHANGED <<op, steps, binding, policy>>

\* While a worker holds the gate nobody withdraws what the guard has checked.
LEMMA ShelterStep ==
  ASSUME TypeOK, Guarded, [Next]_vars, NEW v \in Workers
  PROVE  ~Inside(worker'[v].pc) \/ EnterGuard(v) \/ Sheltered(v)
<1> DEFINE Ok == ~Inside(worker'[v].pc) \/ EnterGuard(v) \/ Sheltered(v)
<1>a. worker \in [Workers -> WorkerStates] /\ None \notin Workers
  BY NoneAssumption DEF TypeOK
<1>b. Inside(worker[v].pc) => gate = v /\ gate # None
  BY <1>a DEF Guarded
\* Another worker, or nobody, moves.
<1>1. ASSUME worker'[v] = worker[v], gate = None \/ (gate' = gate /\ UNCHANGED <<op, steps, binding, policy>>)
      PROVE  Ok
  BY <1>1, <1>b DEF Sheltered
<1>2. ASSUME NEW w \in Workers, NEW pc \in {"sign", "ledger", "record", "guard", "complete",
                                            "outcome", "unknown"}, Goto(w, pc),
             v = w \/ gate = None \/ (gate' = gate /\ UNCHANGED <<op, steps, binding, policy>>)
      PROVE  Ok
  BY <1>1, <1>2, Moves DEF PCs, Inside
<1>3. ASSUME NEW w \in Workers, NEW execution, NEW unavailable, Respond(w, execution, unavailable),
             v = w \/ gate = None \/ (gate' = gate /\ UNCHANGED <<op, steps, binding, policy>>)
      PROVE  Ok
  BY <1>1, <1>3, Moves DEF Inside
<1>4. ASSUME NEW w \in Workers, NEW s \in Steps, Reserve(w, s) PROVE Ok
  <2> DEFINE state == [pc |-> "gateway", request |-> op.attempts + 1, response |-> Reply("", FALSE)]
  <2>1. worker' = [worker EXCEPT ![w] = state] /\ state.pc = "gateway" /\ gate = None
    BY <1>4 DEF Reserve
  <2> HIDE DEF state
  <2>2. QED
    BY <1>a, <1>1, <2>1 DEF Inside
<1>5. ASSUME NEW w \in Workers, EnterGuard(w) PROVE Ok
  <2>1. Goto(w, "call") /\ gate = None
    BY <1>5 DEF EnterGuard
  <2>2. QED
    BY <1>1, <1>5, <2>1, Moves DEF PCs
<1>6. ASSUME NEW w \in Workers, ProviderCall(w) PROVE Ok
  <2>1. PICK pc \in {"answered", "lost"} : Goto(w, pc)
    BY <1>6 DEF ProviderCall
  <2>2. worker[w].pc = "call" /\ gate' = gate /\ UNCHANGED <<op, steps, binding, policy>>
    BY <1>6 DEF ProviderCall
  <2>3. CASE v = w
    BY <2>1, <2>2, <2>3, Moves DEF Sheltered, Inside, PCs
  <2>4. CASE v # w
    BY <1>1, <2>1, <2>2, <2>4, Moves DEF PCs
  <2>5. QED
    BY <2>3, <2>4
<1>7. ASSUME NEW w \in Workers, CommitAttempt(w) \/ RollbackAttempt(w) PROVE Ok
  <2>1. gate = w
    BY <1>7 DEF CommitAttempt, RollbackAttempt, Guarded, Inside
  <2>2. CASE v = w
    <3>1. \/ \E pc \in {"outcome", "unknown"} : Goto(w, pc)
          \/ Respond(w, "not_attempted", TRUE)
      BY <1>7 DEF CommitAttempt, RollbackAttempt
    <3>2. QED
      BY <1>2, <1>3, <2>2, <3>1
  <2>3. CASE v # w
    <3>1. ~Inside(worker[v].pc)
      BY <1>b, <2>1, <2>3
    <3>2. worker'[v] = worker[v]
      BY <1>7, <2>3, Moves DEF CommitAttempt, RollbackAttempt, PCs
    <3>3. QED
      BY <3>1, <3>2
  <2>4. QED
    BY <2>2, <2>3
<1>8. ASSUME NEW w \in Workers, Finish(w) \/ Crash(w) PROVE Ok
  <2>1. worker' = [worker EXCEPT ![w] = Idle] /\ Idle.pc = "idle"
    BY <1>8 DEF Finish, Crash, Idle
  <2>2. CASE v = w
    BY <1>a, <2>1, <2>2 DEF Inside
  <2>3. CASE v # w
    <3>1. worker'[v] = worker[v]
      BY <1>a, <2>1, <2>3
    <3>2. CASE ~Inside(worker[v].pc)
      BY <3>1, <3>2
    <3>3. CASE Inside(worker[v].pc)
      <4>1. gate = v /\ gate # None
        BY <1>b, <3>3
      <4>2. gate' = gate /\ UNCHANGED <<op, steps, binding, policy>>
        BY <1>8, <2>3, <4>1 DEF Finish, Crash
      <4>3. QED
        BY <1>1, <3>1, <4>2
    <3>4. QED
      BY <3>2, <3>3
  <2>4. QED
    BY <2>2, <2>3
<1>9. CASE Redeploy
  BY <1>9 DEF Redeploy, Idle, Inside
<1>10. CASE Operator \/ Tick \/ UNCHANGED vars
  <2>1. worker' = worker
    BY <1>10 DEF Operator, Conditions, Suspend, Close, Approve, NextEpoch, Observe, Tick, vars
  <2>2. gate = None \/ (gate' = gate /\ UNCHANGED <<op, steps, binding, policy>>)
    BY <1>10 DEF Operator, Conditions, Suspend, Close, Approve, NextEpoch, Observe, Tick, vars
  <2>3. QED
    BY <1>1, <2>1, <2>2
<1>11. ASSUME NEW w \in Workers,
              MeshReserve(w) \/ CommitAuthorization(w) \/ LedgerAuthorized(w) \/ RecordAuthorization(w)
       PROVE  Ok
  <2>1. \E pc \in {"sign", "ledger", "record", "guard"} : Goto(w, pc)
    BY <1>11 DEF MeshReserve, CommitAuthorization, LedgerAuthorized, RecordAuthorization
  <2>2. gate = None \/ (gate' = gate /\ UNCHANGED <<op, steps, binding, policy>>)
    BY <1>11 DEF MeshReserve, CommitAuthorization, LedgerAuthorized, RecordAuthorization
  <2>3. QED
    BY <1>2, <2>1, <2>2
<1>12. ASSUME NEW w \in Workers, OutcomeReceipt(w) PROVE Ok
  BY <1>2, <1>3, <1>12 DEF OutcomeReceipt
<1>13. ASSUME NEW w \in Workers,
              \/ GatewayRefuses(w) \/ ProofUnavailable(w) \/ GuardRefuses(w)
              \/ OutcomeReceiptFails(w) \/ LedgerComplete(w) \/ CompletionFails(w)
       PROVE  Ok
  <2>1. gate' = gate /\ UNCHANGED <<op, steps, binding, policy>>
    BY <1>13 DEF GatewayRefuses, ProofUnavailable, GuardRefuses,
                 OutcomeReceiptFails, LedgerComplete, CompletionFails
  <2>2. \E execution, unavailable : Respond(w, execution, unavailable)
    BY <1>13 DEF GatewayRefuses, ProofUnavailable, GuardRefuses,
                 OutcomeReceiptFails, LedgerComplete, CompletionFails
  <2>3. QED
    BY <1>3, <2>1, <2>2
<1>14. ASSUME NEW w \in Workers, Proceed(w) PROVE Ok
  BY <1>5, <1>6, <1>7, <1>8, <1>11, <1>12, <1>13, <1>14 DEF Proceed
<1>15. QED
  BY <1>4, <1>8, <1>9, <1>10, <1>14 DEF Next

\* Nobody holds the gate at first.
LEMMA GuardedInit == Init => Guarded
<1> SUFFICES ASSUME Init PROVE Guarded
  OBVIOUS
<1>1. \A w \in Workers : worker[w].pc = "idle"
  BY DEF Init, Idle
<1>2. QED
  BY <1>1 DEF Guarded, Inside

\* Only a worker that passed the guard holds the gate.
LEMMA GuardedStep ==
  ASSUME TypeOK, Guarded, [Next]_vars
  PROVE  Guarded'
<1> SUFFICES ASSUME NEW v \in Workers
             PROVE  /\ Inside(worker'[v].pc) => gate' = v
                    /\ worker'[v].pc = "call" => Approved(v)'
  BY DEF Guarded, Inside
<1>1. CASE ~Inside(worker'[v].pc)
  BY <1>1 DEF Inside
<1>2. CASE EnterGuard(v)
  <2>1. /\ gate' = v /\ GuardAllows(v) /\ UNCHANGED <<op, steps, binding, policy>>
        /\ Goto(v, "call")
    BY <1>2 DEF EnterGuard
  <2>2. Request(v)' = Request(v)
    BY <2>1, Moves DEF PCs, Request
  <2>3. WindowOpen /\ op.approval = Snapshot /\ op.approval = binding[Request(v)].snapshot
        /\ \A d \in Dependencies(binding[Request(v)].step) : Verified(d)
    BY <2>1 DEF GuardAllows, Ready
  <2>4. ~op.closed /\ op.until # 0
    BY <2>3 DEF WindowOpen, TypeOK, Operations
  <2>5. Approved(v)
    BY <2>3, <2>4 DEF Approved, Verified, Current
  <2>6. Snapshot' = Snapshot
    BY <2>1 DEF Snapshot
  <2>7. Approved(v)'
    BY <2>1, <2>2, <2>5, <2>6 DEF Approved
  <2>8. QED
    BY <2>1, <2>7
<1>3. CASE Sheltered(v)
  <2>1. gate' = v
    BY <1>3 DEF Sheltered, Guarded
  <2>2. Request(v)' = Request(v) /\ Snapshot' = Snapshot
    BY <1>3 DEF Sheltered, Request, Snapshot
  <2>3. ASSUME worker'[v].pc = "call" PROVE Approved(v)'
    <3>1. Approved(v)
      BY <1>3, <2>3 DEF Sheltered, Guarded
    <3>2. QED
      BY <1>3, <2>2, <3>1 DEF Sheltered, Approved
  <2>4. QED
    BY <2>1, <2>3
<1>4. QED
  BY <1>1, <1>2, <1>3, ShelterStep

\* A suspension, a change of conditions or a close that commits before the gate
\* prevents the call: every call is made under the approval its reservation
\* sealed, its dependencies verified in that epoch (_guard).
THEOREM CallApproved == Spec => CallUnderApproval
<1>1. Init => Guarded
  BY GuardedInit
<1>2. TypeOK /\ Guarded /\ [Next]_vars => Guarded'
  BY GuardedStep
<1> DEFINE Checked(n) ==
      /\ ~op.closed
      /\ op.until # 0
      /\ op.approval = Snapshot
      /\ op.approval = binding[n].snapshot
      /\ \A d \in Dependencies(binding[n].step) :
           /\ steps[d].observation # None
           /\ steps[d].observation.target = Snapshot
           /\ steps[d].observation.disposition = "verified"
<1>3. ASSUME TypeOK, DispatchInvariant, Guarded, [Next]_vars,
             NEW n \in Requests, calls'[n] > calls[n]
      PROVE  Checked(n)
  <2>1. calls' # calls
    BY <1>3 DEF TypeOK
  <2>2. PICK w \in Workers : ProviderCall(w)
    BY <1>3, <2>1, NoEffectSteps DEF NoEffect, Reserve, CommitAttempt, Finish
  <2>3. n = Request(w)
    BY <1>3, <2>2 DEF ProviderCall, TypeOK
  <2>4. QED
    BY <1>3, <2>2, <2>3 DEF ProviderCall, Guarded, Approved
<1>4. TypeOK /\ DispatchInvariant /\ Guarded /\ [Next]_vars
        => [\A n \in Requests : calls'[n] > calls[n] => Checked(n)]_vars
  BY <1>3
<1>5. QED
  BY <1>1, <1>2, <1>4, TypeCorrect, DispatchCorrect, PTL DEF Spec, CallUnderApproval
=============================================================================
