-------------------------- MODULE RuntimeRun_proofs --------------------------
(***************************************************************************)
(* Theorems about RuntimeRun, for all requests, windows, hop budgets and   *)
(* any number of runs.                                                     *)
(***************************************************************************)
EXTENDS RuntimeRun, SequenceTheorems, TLAPS

-----------------------------------------------------------------------------
(***************************************************************************)
(* The invariant of a run.                                                 *)
(***************************************************************************)
\* Governance lets this run execute.
Permitted == run.decision \in {"allow", "require_review"} /\ satisfied

\* How many receipts come before the start of a permitted execution.
Size == IF run.decision = "allow" THEN 1 ELSE 2

Opens(l) ==
  IF run.decision = "allow" THEN Len(l) >= 1 /\ l[1] = "policy_allowed"
  ELSE Len(l) >= 2 /\ l[1] = "policy_review_required" /\ l[2] = "approval_recorded"

Starts(l) == Opens(l) /\ Len(l) > Size /\ l[Size + 1] = "execution_started"

Completes(l) == Starts(l) /\ Len(l) = Size + 2 /\ l[Size + 2] = "execution_completed"

Silent(l) == \A i \in 1..Len(l) : l[i] \notin {"verification_passed", "verification_failed"}

\* Nothing runs before the gate, and what the gate decided stands.
Deciding ==
  /\ run.stage \in {"vision", "policy", "safeguard", "preflight"} =>
       run.decision = "undecided" /\ ~run.executed
  /\ run.decision # "undecided" => run.decision = Preflight(content, run.assessment)

\* What the ledger of a run in progress holds.
Recording ==
  /\ run.executed => Permitted /\ Starts(run.ledger)
  /\ run.stage \in {"gate", "dispatch"} =>
       /\ run.decision # "undecided" /\ ~run.executed
       /\ Permitted => Opens(run.ledger) /\ Len(run.ledger) = Size
  /\ run.stage = "dispatch" => Permitted
  /\ run.stage = "pack" => ~run.executed
  /\ run.stage \in {"pack", "materialize"} =>
       Permitted /\ Starts(run.ledger) /\ Len(run.ledger) = Size + 1
  /\ run.stage = "materialize" => run.executed
  /\ run.stage \notin {"idle", "vision", "policy", "safeguard", "preflight", "report"} =>
       Silent(run.ledger) /\ Len(run.ledger) >= 1

\* How a run that is judged has ended.
Ending ==
  /\ run.stage \in {"conclude", "reason", "persist"} =>
       /\ run.decision # "undecided" /\ run.state \in {"completed", "failed"}
       /\ run.decision = "block" => run.state = "failed"
       /\ run.state = "completed" =>
            \/ ~Permitted
            \/ run.executed /\ Completes(run.ledger) /\ artifacts

\* The verdict that the run has earned.
Judged ==
  Verify(Evaluate(run.state, run.decision, satisfied, run.duplicate, run.executed),
         run.decision, satisfied)

\* The verdict is the one the run has earned, and is reconsidered when due.
Judging ==
  /\ run.stage \in {"reason", "persist", "report"} => run.verdict # "unverified"
  /\ run.verdict # "unverified" =>
       /\ run.stage \in {"reason", "persist", "report", "idle"}
       /\ run.verdict = Judged
  /\ run.stage = "reason" => run.escalated
  /\ FailureAfterSuccessIsReconsidered

\* What the receipts file must hold for a report with this status.
Told(status) ==
  /\ receipts \in Seq(Events) /\ Len(receipts) >= 1
  /\ status = "passed" =>
       /\ Permitted /\ artifacts /\ ~run.duplicate
       /\ Starts(receipts) /\ Len(receipts) = Size + 3
       /\ receipts[Size + 2] = "execution_completed"
       /\ receipts[Size + 3] = "verification_passed"
  /\ status = "failed" => receipts[Len(receipts)] = "verification_failed"
  /\ status = "needs_review" => Silent(receipts)

Reporting ==
  /\ run.stage # "idle" => report = NoFile
  /\ run.stage = "report" => Told(run.verdict)
  /\ report # NoFile => Told(report)

RunInvariant == Deciding /\ Recording /\ Ending /\ Judging /\ Reporting

-----------------------------------------------------------------------------
(***************************************************************************)
(* Types.                                                                  *)
(***************************************************************************)
\* The decisions of a run are typed, whatever the request.
LEMMA DecisionTypes ==
  ASSUME NEW p \in Prints, NEW assessment \in {NoAssessment} \union Dispositions
  PROVE  /\ Preflight(p.content, assessment) \in {"allow", "require_review", "block"}
         /\ p.content \in Content /\ p.approvals \subseteq ApprovalEntries
<1>1. p.content \in Content /\ p.approvals \subseteq ApprovalEntries
  BY PrintsAssumption
<1>2. QED
  BY <1>1 DEF Preflight, Decide

\* The receipts of the gate are events of the ledger.
LEMMA OpeningType ==
  ASSUME NEW decision, NEW entries
  PROVE  <<PolicyReceipt(decision)>> \o ApprovalReceipts(decision, entries) \in Seq(Events)
<1>1. PolicyReceipt(decision) \in Events
  BY DEF PolicyReceipt, Events
<1>2. ApprovalReceipts(decision, entries) \in {<<>>, <<"approval_recorded">>, <<"approval_rejected">>}
  BY DEF ApprovalReceipts
<1>3. /\ <<>> \in Seq(Events)
      /\ <<"approval_recorded">> \in Seq(Events)
      /\ <<"approval_rejected">> \in Seq(Events)
  BY DEF Events
<1>4. ApprovalReceipts(decision, entries) \in Seq(Events)
  BY <1>2, <1>3
<1>5. QED
  BY <1>1, <1>4

\* So are the receipts of the verification.
LEMMA VerificationType ==
  ASSUME NEW verdict
  PROVE  VerificationReceipts(verdict) \in Seq(Events)
<1>1. VerificationReceipts(verdict) \in {<<>>, <<"verification_passed">>, <<"verification_failed">>}
  BY DEF VerificationReceipts
<1>2. /\ <<>> \in Seq(Events)
      /\ <<"verification_passed">> \in Seq(Events)
      /\ <<"verification_failed">> \in Seq(Events)
  BY DEF Events
<1>3. QED
  BY <1>1, <1>2

\* A verdict is one of three.
LEMMA VerdictType ==
  ASSUME NEW evaluation, NEW decision, NEW approved
  PROVE  Verify(evaluation, decision, approved) \in {"passed", "failed", "needs_review"}
  BY DEF Verify

Signals == {"completed", "failed"}

\* The run goes on as the same request, with these fields.
Became(stage, signals, assessment, decision, ledger, executed, state, verdict, escalated) ==
  /\ run' \in Runs
  /\ run'.print = run.print /\ run'.duplicate = run.duplicate
  /\ run'.stage = stage /\ run'.signals = signals
  /\ run'.assessment = assessment /\ run'.decision = decision
  /\ run'.ledger = ledger /\ run'.executed = executed /\ run'.state = state
  /\ run'.verdict = verdict /\ run'.escalated = escalated

\* A brain lane moves the run on, and may add signals.
LEMMA LaneFields ==
  ASSUME TypeOK, NEW from \in Stages, NEW to \in Stages, NEW signals \in SUBSET Signals,
         run.stage = from, run' = [run EXCEPT !.stage = to, !.signals = signals]
  PROVE  Became(to, signals, run.assessment, run.decision, run.ledger, run.executed,
                run.state, run.verdict, run.escalated)
  BY DEF TypeOK, Runs, Became, Signals

\* What a reply adds to the signals of a run.
LEMMA SignalTypes ==
  ASSUME TypeOK, NEW reply
  PROVE  /\ run.signals \union LaneSignals(reply) \in SUBSET Signals
         /\ run.signals \union AdvisorySignals(reply) \in SUBSET Signals
<1>1. run.signals \in SUBSET Signals
  BY DEF TypeOK, Runs, Signals
<1>2. LaneSignals(reply) \in SUBSET Signals
  BY DEF LaneSignals, Signals
<1>3. AdvisorySignals(reply) \in SUBSET Signals
  BY <1>2 DEF AdvisorySignals, Signals
<1>4. QED
  BY <1>1, <1>2, <1>3

\* What the vision lane changes of the run.
LEMMA VisionFields ==
  ASSUME TypeOK, NEW reply \in Replies, RunVisionLane(reply)
  PROVE  \E signals \in SUBSET Signals :
           Became("policy", signals, run.assessment, run.decision, run.ledger, run.executed,
                  run.state, run.verdict, run.escalated)
<1> DEFINE signals == run.signals \union LaneSignals(reply)
<1>1. run' = [run EXCEPT !.stage = "policy", !.signals = signals] /\ run.stage = "vision"
  BY DEF RunVisionLane
<1>2. signals \in SUBSET Signals
  BY SignalTypes
<1> HIDE DEF signals
<1>3. QED
  BY <1>1, <1>2, LaneFields DEF Stages

\* What the policy lane changes of the run.
LEMMA PolicyFields ==
  ASSUME TypeOK, NEW reply \in Replies, RunPolicyReasoningLane(reply)
  PROVE  \E signals \in SUBSET Signals :
           Became("safeguard", signals, run.assessment, run.decision, run.ledger, run.executed,
                  run.state, run.verdict, run.escalated)
<1> DEFINE signals == run.signals \union AdvisorySignals(reply)
<1>1. run' = [run EXCEPT !.stage = "safeguard", !.signals = signals] /\ run.stage = "policy"
  BY DEF RunPolicyReasoningLane
<1>2. signals \in SUBSET Signals
  BY SignalTypes
<1> HIDE DEF signals
<1>3. QED
  BY <1>1, <1>2, LaneFields DEF Stages

\* What the reasoning lane changes of the run.
LEMMA ReasoningFields ==
  ASSUME TypeOK, NEW reply \in Replies, RunReasoningLane(reply)
  PROVE  \E signals \in SUBSET Signals :
           Became("persist", signals, run.assessment, run.decision, run.ledger, run.executed,
                  run.state, run.verdict, run.escalated)
<1> DEFINE signals == run.signals \union LaneSignals(reply)
<1>1. run' = [run EXCEPT !.stage = "persist", !.signals = signals] /\ run.stage = "reason"
  BY DEF RunReasoningLane
<1>2. signals \in SUBSET Signals
  BY SignalTypes
<1> HIDE DEF signals
<1>3. QED
  BY <1>1, <1>2, LaneFields DEF Stages

\* What the safeguard brain changes of the run.
LEMMA SafeguardFields ==
  ASSUME TypeOK, NEW reply \in SafeguardReplies, RunSafeguard(reply)
  PROVE  \E signals \in SUBSET Signals, assessment \in {NoAssessment} \union Dispositions :
           Became("preflight", signals, assessment, run.decision, run.ledger, run.executed,
                  run.state, run.verdict, run.escalated)
<1> DEFINE signals == run.signals \union SafeguardSignals(reply)
           assessment == Assessment(reply)
<1>1. run' = [run EXCEPT !.stage = "preflight", !.assessment = assessment, !.signals = signals]
  BY DEF RunSafeguard
<1>2. signals \in SUBSET Signals
  BY SignalTypes DEF SafeguardSignals
<1>3. assessment \in {NoAssessment} \union Dispositions
  BY DEF Assessment, SafeguardReplies, Larger, Dispositions, NoAssessment, Allow, Review, Block
<1> HIDE DEF signals, assessment
<1>4. Became("preflight", signals, assessment, run.decision, run.ledger, run.executed,
             run.state, run.verdict, run.escalated)
  BY <1>1, <1>2, <1>3 DEF TypeOK, Runs, Became, Signals, Stages
<1>5. QED
  BY <1>2, <1>3, <1>4

\* What the preflight changes of the run.
LEMMA PreflightFields ==
  ASSUME TypeOK, EvaluatePreflight
  PROVE  LET decision == Preflight(content, run.assessment)
         IN  Became("gate", run.signals, run.assessment, decision,
                    <<PolicyReceipt(decision)>> \o ApprovalReceipts(decision, run.print.approvals),
                    run.executed, run.state, run.verdict, run.escalated)
<1> DEFINE decision == Preflight(content, run.assessment)
           ledger == <<PolicyReceipt(decision)>>
                       \o ApprovalReceipts(decision, run.print.approvals)
<1>1. run' = [run EXCEPT !.stage = "gate", !.decision = decision, !.ledger = ledger]
  BY DEF EvaluatePreflight
<1>2. run.print \in Prints /\ run.assessment \in {NoAssessment} \union Dispositions
  BY DEF TypeOK, Runs
<1>3. decision \in Decisions
  BY <1>2, DecisionTypes DEF Decisions, content
<1>4. ledger \in Seq(Events)
  BY OpeningType
<1> HIDE DEF decision, ledger
<1>5. Became("gate", run.signals, run.assessment, decision, ledger,
             run.executed, run.state, run.verdict, run.escalated)
  BY <1>1, <1>3, <1>4 DEF TypeOK, Runs, Became, Stages
<1>6. QED
  BY <1>5 DEF decision, ledger

\* What a block or a pause changes of the run.
LEMMA StopFields ==
  ASSUME TypeOK, NEW state \in {"completed", "failed"}, Stopped(state)
  PROVE  Became("conclude", run.signals, run.assessment, run.decision, run.ledger,
                run.executed, state, run.verdict, run.escalated)
  BY DEF TypeOK, Runs, Became, Stages, Stopped

\* What loading the pack changes of the run.
LEMMA LoadFields ==
  ASSUME TypeOK, LoadPack
  PROVE  Became("dispatch", run.signals, run.assessment, run.decision, run.ledger,
                run.executed, run.state, run.verdict, run.escalated)
  BY DEF TypeOK, Runs, Became, Stages, LoadPack

\* What a call of the primary brain changes of the run.
LEMMA BrainFields ==
  ASSUME TypeOK, NEW reply \in Replies, InvokePrimaryBrain(reply)
  PROVE  \E signals \in SUBSET Signals :
           Became("pack", signals, run.assessment, run.decision,
                  Append(run.ledger, "execution_started"), run.executed,
                  run.state, run.verdict, run.escalated)
<1> DEFINE signals == run.signals \union LaneSignals(reply)
           ledger == Append(run.ledger, "execution_started")
<1>1. run' = [run EXCEPT !.stage = "pack", !.signals = signals, !.ledger = ledger]
  BY DEF InvokePrimaryBrain
<1>2. signals \in SUBSET Signals
  BY SignalTypes
<1>3. ledger \in Seq(Events)
  BY DEF TypeOK, Runs, Events
<1> HIDE DEF signals, ledger
<1>4. Became("pack", signals, run.assessment, run.decision, ledger, run.executed,
             run.state, run.verdict, run.escalated)
  BY <1>1, <1>2, <1>3 DEF TypeOK, Runs, Became, Stages, Signals
<1>5. QED
  BY <1>2, <1>4 DEF ledger

\* What a pack that returns changes of the run.
LEMMA ReturnFields ==
  ASSUME TypeOK, PackReturns
  PROVE  Became("materialize", run.signals, run.assessment, run.decision, run.ledger,
                TRUE, run.state, run.verdict, run.escalated)
  BY DEF TypeOK, Runs, Became, Stages, PackReturns

\* What a pack that raises changes of the run.
LEMMA RaiseFields ==
  ASSUME TypeOK, PackRaises
  PROVE  Became("conclude", run.signals \union {"failed"}, run.assessment, run.decision,
                Append(run.ledger, "execution_failed"), TRUE, "failed",
                run.verdict, run.escalated)
<1> DEFINE signals == run.signals \union {"failed"}
           ledger == Append(run.ledger, "execution_failed")
<1>1. run' = [run EXCEPT !.stage = "conclude", !.executed = TRUE, !.state = "failed",
                         !.signals = signals, !.ledger = ledger]
  BY DEF PackRaises
<1>2. signals \in SUBSET Signals /\ ledger \in Seq(Events)
  BY DEF TypeOK, Runs, Events, Signals
<1> HIDE DEF signals, ledger
<1>3. Became("conclude", signals, run.assessment, run.decision, ledger, TRUE, "failed",
             run.verdict, run.escalated)
  BY <1>1, <1>2 DEF TypeOK, Runs, Became, Stages, Signals
<1>4. QED
  BY <1>3 DEF signals, ledger

\* What recording a completed execution changes of the run.
LEMMA RecordFields ==
  ASSUME TypeOK, RecordCompleted
  PROVE  Became("conclude", run.signals \union {"completed"}, run.assessment, run.decision,
                Append(run.ledger, "execution_completed"), run.executed, "completed",
                run.verdict, run.escalated)
<1> DEFINE signals == run.signals \union {"completed"}
           ledger == Append(run.ledger, "execution_completed")
<1>1. run' = [run EXCEPT !.stage = "conclude", !.state = "completed",
                         !.signals = signals, !.ledger = ledger]
  BY DEF RecordCompleted
<1>2. signals \in SUBSET Signals /\ ledger \in Seq(Events)
  BY DEF TypeOK, Runs, Events, Signals
<1> HIDE DEF signals, ledger
<1>3. Became("conclude", signals, run.assessment, run.decision, ledger, run.executed, "completed",
             run.verdict, run.escalated)
  BY <1>1, <1>2 DEF TypeOK, Runs, Became, Stages, Signals
<1>4. QED
  BY <1>3 DEF signals, ledger

\* What the conclusion changes of the run.
LEMMA ConcludeFields ==
  ASSUME TypeOK, Conclude
  PROVE  \E escalate \in BOOLEAN :
           /\ Became(IF escalate THEN "reason" ELSE "persist", run.signals, run.assessment,
                     run.decision, run.ledger, run.executed, run.state, Judged, escalate)
           /\ (/\ Judged = "failed" /\ run.state = "failed"
               /\ "completed" \in run.signals /\ content.hops < MaxHops) => escalate
<1> DEFINE confident == Route(content) # "few"
           contradiction == Contradiction(run.state, run.signals)
           score == EscalationScore(confident, contradiction, Judged,
                                    content.deep, run.decision = "require_review")
           escalate == ShouldEscalate(score, content.hops, MaxHops)
           stage == IF escalate THEN "reason" ELSE "persist"
<1>1. run' = [run EXCEPT !.stage = stage, !.verdict = Judged, !.escalated = escalate]
  BY DEF Conclude, Judged
<1>2. escalate \in BOOLEAN
  BY DEF ShouldEscalate
<1>3. stage \in Stages
  BY DEF Stages
<1>4. Judged \in Verdicts
  BY VerdictType DEF Judged, Verdicts
<1>5. ASSUME Judged = "failed", contradiction PROVE score >= 50
  <2>1. score = (IF confident THEN 0 ELSE 30) + 35 + 35 + (IF content.deep THEN 60 ELSE 0)
                  + (IF run.decision = "require_review" THEN 15 ELSE 0)
    BY <1>5 DEF EscalationScore
  <2> HIDE DEF score, confident
  <2>2. QED
    BY <2>1
<1>6. (/\ Judged = "failed" /\ run.state = "failed"
       /\ "completed" \in run.signals /\ content.hops < MaxHops) => escalate
  BY <1>5 DEF ShouldEscalate, Contradiction
<1> HIDE DEF escalate
<1>7. Became(stage, run.signals, run.assessment, run.decision, run.ledger, run.executed,
             run.state, Judged, escalate)
  <2> HIDE DEF stage
  <2>1. QED
    BY <1>1, <1>2, <1>3, <1>4 DEF TypeOK, Runs, Became
<1>8. QED
  BY <1>2, <1>6, <1>7

\* What persisting the receipts changes of the run.
LEMMA PersistFields ==
  ASSUME TypeOK, PersistGovernanceReceipts
  PROVE  /\ Became("report", run.signals, run.assessment, run.decision,
                   run.ledger \o VerificationReceipts(run.verdict), run.executed,
                   run.state, run.verdict, run.escalated)
         /\ receipts' = run'.ledger /\ receipts' \in Seq(Events)
<1> DEFINE ledger == run.ledger \o VerificationReceipts(run.verdict)
<1>1. run' = [run EXCEPT !.stage = "report", !.ledger = ledger] /\ receipts' = ledger
  BY DEF PersistGovernanceReceipts
<1>2. ledger \in Seq(Events)
  BY VerificationType DEF TypeOK, Runs
<1> HIDE DEF ledger
<1>3. Became("report", run.signals, run.assessment, run.decision, ledger, run.executed,
             run.state, run.verdict, run.escalated)
  BY <1>1, <1>2 DEF TypeOK, Runs, Became, Stages
<1>4. receipts' = run'.ledger /\ receipts' \in Seq(Events)
  BY <1>1, <1>2, <1>3 DEF Became
<1>5. QED
  BY <1>3, <1>4 DEF ledger

\* What writing the report changes of the run.
LEMMA WriteFields ==
  ASSUME TypeOK, WriteRunReport
  PROVE  Became("idle", run.signals, run.assessment, run.decision, run.ledger,
                run.executed, run.state, run.verdict, run.escalated)
  BY DEF TypeOK, Runs, Became, Stages, WriteRunReport

\* An exception or a crash leaves the run where it is; the pack may have run.
LEMMA CutFields ==
  ASSUME TypeOK, Raise \/ Crash
  PROVE  \E executed \in BOOLEAN :
           /\ Became("idle", run.signals, run.assessment, run.decision, run.ledger,
                     executed, run.state, run.verdict, run.escalated)
           /\ executed => run.executed \/ run.stage = "pack"
           /\ run.executed => executed
<1> DEFINE executed == run.executed \/ run.stage = "pack"
<1>1. run' = [run EXCEPT !.stage = "idle", !.executed = executed]
  BY DEF Raise, Crash
<1>2. /\ executed \in BOOLEAN /\ (executed => run.executed \/ run.stage = "pack")
      /\ run.executed => executed
  OBVIOUS
<1> HIDE DEF executed
<1>3. Became("idle", run.signals, run.assessment, run.decision, run.ledger, executed,
             run.state, run.verdict, run.escalated)
  BY <1>1, <1>2 DEF TypeOK, Runs, Became, Stages
<1>4. QED
  BY <1>2, <1>3

\* A new request starts from nothing.
LEMMA SubmitFields ==
  ASSUME TypeOK, NEW p \in Prints, Submit(p)
  PROVE  /\ run' \in Runs
         /\ run'.stage \in {"idle", "vision"} /\ run'.print = p
         /\ run'.duplicate \in BOOLEAN /\ (run'.duplicate <=> p \in known)
         /\ run'.signals = {} /\ run'.assessment = NoAssessment
         /\ run'.decision = "undecided" /\ run'.ledger = <<>> /\ run'.executed = FALSE
         /\ run'.state = "running" /\ run'.verdict = "unverified" /\ run'.escalated = FALSE
<1> DEFINE duplicate == p \in known
           stage == IF Route(p.content) = "none" THEN "idle" ELSE "vision"
<1>1. run' = [Submitted(p, duplicate) EXCEPT !.stage = stage]
  BY DEF Submit
<1>2. duplicate \in BOOLEAN /\ (duplicate <=> p \in known) /\ stage \in {"idle", "vision"}
  OBVIOUS
<1> HIDE DEF duplicate, stage
<1>3. run' = [stage |-> stage, print |-> p, duplicate |-> duplicate, signals |-> {},
              assessment |-> NoAssessment, decision |-> "undecided", ledger |-> <<>>,
              executed |-> FALSE, state |-> "running", verdict |-> "unverified",
              escalated |-> FALSE]
  BY <1>1 DEF Submitted
<1>4. <<>> \in Seq(Events)
  OBVIOUS
<1>5. run' \in Runs
  BY <1>2, <1>3, <1>4 DEF Runs, Stages, Decisions, Verdicts
<1>6. QED
  BY <1>2, <1>3, <1>5

\* The guard's deque stays within its window.
LEMMA ObserveTypes ==
  ASSUME TypeOK, NEW p \in Prints, Observe(p)
  PROVE  /\ recent' \in Seq(Prints) /\ Len(recent') <= Window
         /\ known' \subseteq Prints /\ observed' \in Seq(Prints)
<1> USE WindowAssumption
<1> DEFINE kept == IF Len(recent) = Window THEN Tail(recent) ELSE recent
<1>1. recent' = Append(kept, p) /\ observed' = Append(observed, p)
      /\ known' = IF Len(recent') < Window THEN known \union {p} ELSE ToSet(recent')
  BY DEF Observe
<1>2. kept \in Seq(Prints) /\ Len(kept) < Window
  <2>1. CASE Len(recent) = Window
    <3>1. recent # <<>>
      BY <2>1
    <3>2. QED
      BY <2>1, <3>1 DEF TypeOK
  <2>2. CASE Len(recent) # Window
    BY <2>2 DEF TypeOK
  <2>3. QED
    BY <2>1, <2>2
<1> HIDE DEF kept
<1>3. recent' \in Seq(Prints) /\ Len(recent') <= Window
  BY <1>1, <1>2
<1>4. ToSet(recent') \subseteq Prints
  BY <1>3 DEF ToSet
<1>5. QED
  BY <1>1, <1>3, <1>4 DEF TypeOK

\* Every step keeps the types.
LEMMA TypeStep ==
  ASSUME TypeOK, Judging, [Next]_vars
  PROVE  TypeOK'
<1>1. ASSUME NEW p \in Prints, Submit(p) PROVE TypeOK'
  <2>1. Observe(p) /\ receipts' = NoReceipts /\ report' = NoFile /\ artifacts' = FALSE
    BY <1>1 DEF Submit
  <2>2. QED
    BY <1>1, <2>1, SubmitFields, ObserveTypes DEF TypeOK
<1>2. ASSUME run' \in Runs, UNCHANGED <<guard, disk>> PROVE TypeOK'
  BY <1>2 DEF TypeOK, guard, disk
<1>3. ASSUME NEW reply \in Replies,
             \/ RunVisionLane(reply) \/ RunPolicyReasoningLane(reply)
             \/ InvokePrimaryBrain(reply) \/ RunReasoningLane(reply)
      PROVE  TypeOK'
  <2>1. run' \in Runs
    BY <1>3, VisionFields, PolicyFields, BrainFields, ReasoningFields DEF Became
  <2>2. UNCHANGED <<guard, disk>>
    BY <1>3 DEF RunVisionLane, RunPolicyReasoningLane, InvokePrimaryBrain, RunReasoningLane
  <2>3. QED
    BY <1>2, <2>1, <2>2
<1>4. ASSUME NEW reply \in SafeguardReplies, RunSafeguard(reply) PROVE TypeOK'
  BY <1>2, <1>4, SafeguardFields DEF Became, RunSafeguard
<1>5. CASE EvaluatePreflight
  BY <1>2, <1>5, PreflightFields DEF Became, EvaluatePreflight
<1>6. CASE StopBlocked \/ PauseForApproval
  <2>1. PICK state \in {"completed", "failed"} : Stopped(state)
    BY <1>6 DEF StopBlocked, PauseForApproval
  <2>2. QED
    BY <1>2, <2>1, StopFields DEF Became, Stopped
<1>7. CASE LoadPack
  BY <1>2, <1>7, LoadFields DEF Became, LoadPack
<1>8. CASE PackReturns
  BY <1>2, <1>8, ReturnFields DEF Became, PackReturns
<1>9. CASE PackRaises
  BY <1>2, <1>9, RaiseFields DEF Became, PackRaises
<1>10. CASE MaterializePackArtifacts
  BY <1>10 DEF MaterializePackArtifacts, TypeOK, guard
<1>11. CASE RecordCompleted
  BY <1>2, <1>11, RecordFields DEF Became, RecordCompleted
<1>12. CASE Conclude
  BY <1>2, <1>12, ConcludeFields DEF Became, Conclude
<1>13. CASE PersistGovernanceReceipts
  <2>1. run' \in Runs /\ receipts' \in Seq(Events)
    BY <1>13, PersistFields DEF Became
  <2>2. UNCHANGED <<guard, report, artifacts>>
    BY <1>13 DEF PersistGovernanceReceipts
  <2>3. QED
    BY <2>1, <2>2 DEF TypeOK, guard
<1>14. CASE WriteRunReport
  <2>1. run' \in Runs
    BY <1>14, WriteFields DEF Became
  <2>2. UNCHANGED <<guard, receipts, artifacts>> /\ report' = RunStatus(run.verdict, sentinelError)
    BY <1>14 DEF WriteRunReport
  <2>3. report' \in {"passed", "failed", "needs_review"}
    BY <1>14, <2>2 DEF WriteRunReport, Judging, TypeOK, Runs, Verdicts, RunStatus
  <2>4. QED
    BY <2>1, <2>2, <2>3 DEF TypeOK, guard
<1>15. CASE Raise
  BY <1>2, <1>15, CutFields DEF Became, Raise
<1>16. CASE Crash
  <2>1. run' \in Runs
    BY <1>16, CutFields DEF Became
  <2>2. recent' = <<>> /\ known' = {} /\ observed' = <<>> /\ UNCHANGED disk
    BY <1>16 DEF Crash
  <2>3. QED
    BY <2>1, <2>2, WindowAssumption DEF TypeOK, disk
<1>17. CASE UNCHANGED vars
  BY <1>17 DEF vars, TypeOK
<1>18. QED
  BY <1>1, <1>3, <1>4, <1>5, <1>6, <1>7, <1>8, <1>9, <1>10, <1>11, <1>12, <1>13,
     <1>14, <1>15, <1>16, <1>17 DEF Next

-----------------------------------------------------------------------------
(***************************************************************************)
(* The ledger of a run.                                                    *)
(***************************************************************************)
\* What the gate writes: no verdict, and exactly the opening if it lets through.
LEMMA OpeningLedger ==
  ASSUME NEW decision \in {"allow", "require_review", "block"}, NEW entries,
         NEW ledger, ledger = <<PolicyReceipt(decision)>> \o ApprovalReceipts(decision, entries)
  PROVE  /\ Silent(ledger) /\ Len(ledger) >= 1
         /\ decision = "allow" => Len(ledger) = 1 /\ ledger[1] = "policy_allowed"
         /\ decision = "require_review" /\ Satisfied(decision, entries) =>
              Len(ledger) = 2 /\ ledger[1] = "policy_review_required" /\ ledger[2] = "approval_recorded"
<1> DEFINE receipt == PolicyReceipt(decision)
           rest == ApprovalReceipts(decision, entries)
<1>1. /\ receipt \in {"policy_allowed", "policy_review_required", "policy_blocked"}
      /\ decision = "allow" => receipt = "policy_allowed"
      /\ decision = "require_review" => receipt = "policy_review_required"
  BY DEF PolicyReceipt
<1>2. /\ rest \in {<<>>, <<"approval_recorded">>, <<"approval_rejected">>}
      /\ decision = "allow" => rest = <<>>
      /\ decision = "require_review" /\ Satisfied(decision, entries) =>
           rest = <<"approval_recorded">>
  BY DEF ApprovalReceipts
<1>3. ledger = <<receipt>> \o rest
  OBVIOUS
<1> HIDE DEF receipt, rest
<1>4. CASE rest = <<>>
  <2>1. Len(ledger) = 1 /\ ledger[1] = receipt
    BY <1>1, <1>3, <1>4
  <2>2. rest # <<"approval_recorded">>
    BY <1>4
  <2>3. QED
    BY <1>1, <1>2, <2>1, <2>2 DEF Silent
<1>5. ASSUME NEW e \in {"approval_recorded", "approval_rejected"}, rest = <<e>>
      PROVE  /\ Silent(ledger)
             /\ Len(ledger) = 2 /\ ledger[1] = receipt /\ ledger[2] = e
  <2> DEFINE tail == <<e>>
  <2>a. Len(tail) = 1 /\ tail[1] = e /\ tail \in Seq(Events)
    BY DEF Events
  <2>b. ledger = <<receipt>> \o tail
    BY <1>3, <1>5
  <2> HIDE DEF tail
  <2>1. Len(ledger) = 2 /\ ledger[1] = receipt /\ ledger[2] = e
    BY <2>a, <2>b
  <2>2. QED
    BY <1>1, <2>1 DEF Silent
<1>6. CASE rest = <<"approval_recorded">>
  <2>1. Silent(ledger) /\ Len(ledger) = 2 /\ ledger[1] = receipt /\ ledger[2] = "approval_recorded"
    BY <1>5, <1>6
  <2>2. rest # <<>>
    BY <1>6
  <2>3. QED
    BY <1>1, <1>2, <2>1, <2>2
<1>7. CASE rest = <<"approval_rejected">>
  <2>1. Silent(ledger) /\ Len(ledger) = 2
    BY <1>5, <1>7
  <2>2. rest # <<>> /\ rest # <<"approval_recorded">>
    <3>1. rest[1] = "approval_rejected" /\ Len(rest) = 1
      BY <1>7
    <3>2. rest = <<"approval_recorded">> => rest[1] = "approval_recorded"
      OBVIOUS
    <3>3. rest = <<>> => Len(rest) = 0
      OBVIOUS
    <3>4. QED
      BY <3>1, <3>2, <3>3
  <2>3. QED
    BY <1>2, <2>1, <2>2
<1>8. QED
  BY <1>2, <1>4, <1>6, <1>7

\* A start, or an end of the execution, is no verdict.
LEMMA AppendFacts ==
  ASSUME NEW l \in Seq(Events), NEW e \in Events
  PROVE  /\ Append(l, e) \in Seq(Events) /\ Len(Append(l, e)) = Len(l) + 1
         /\ \A i \in 1..Len(l) : Append(l, e)[i] = l[i]
         /\ Append(l, e)[Len(l) + 1] = e
         /\ Silent(l) /\ e \notin {"verification_passed", "verification_failed"} =>
              Silent(Append(l, e))
<1>1. /\ Append(l, e) \in Seq(Events) /\ Len(Append(l, e)) = Len(l) + 1
      /\ \A i \in 1..Len(l) : Append(l, e)[i] = l[i]
      /\ Append(l, e)[Len(l) + 1] = e
  OBVIOUS
<1> DEFINE a == Append(l, e)
<1> HIDE DEF a
<1>2. Len(a) = Len(l) + 1 /\ (\A i \in 1..Len(l) : a[i] = l[i]) /\ a[Len(l) + 1] = e
      /\ Len(l) \in Nat
  BY <1>1 DEF a
<1>3. Silent(l) /\ e \notin {"verification_passed", "verification_failed"} => Silent(a)
  BY <1>2 DEF Silent
<1>4. QED
  BY <1>1, <1>3 DEF a

-----------------------------------------------------------------------------
(***************************************************************************)
(* Every step keeps the invariant.                                         *)
(***************************************************************************)
\* Before the gate nothing is decided, run or judged.
LEMMA EarlyStep ==
  ASSUME TypeOK, RunInvariant, UNCHANGED disk,
         run.stage \in {"vision", "policy", "safeguard"},
         NEW to \in {"policy", "safeguard", "preflight"}, NEW signals, NEW assessment,
         Became(to, signals, assessment, run.decision, run.ledger, run.executed,
                run.state, run.verdict, run.escalated)
  PROVE  RunInvariant'
<1>1. run.decision = "undecided" /\ ~run.executed /\ run.verdict = "unverified" /\ report = NoFile
  BY DEF RunInvariant, Deciding, Judging, Reporting
<1>2. /\ run'.decision = "undecided" /\ ~run'.executed /\ run'.verdict = "unverified"
      /\ run'.stage = to /\ report' = NoFile
  BY <1>1 DEF Became, disk
<1>3. Deciding' /\ Recording' /\ Ending'
  BY <1>2 DEF Deciding, Recording, Ending
<1>4. Judging' /\ Reporting'
  BY <1>2 DEF Judging, FailureAfterSuccessIsReconsidered, Reporting
<1>5. QED
  BY <1>3, <1>4 DEF RunInvariant

\* The gate writes the receipts of what it decided.
LEMMA PreflightStep ==
  ASSUME TypeOK, RunInvariant, EvaluatePreflight
  PROVE  RunInvariant'
<1> DEFINE decision == Preflight(content, run.assessment)
           ledger == <<PolicyReceipt(decision)>>
                       \o ApprovalReceipts(decision, run.print.approvals)
<1>1. /\ run.stage = "preflight" /\ ~run.executed
      /\ run.verdict = "unverified" /\ report = NoFile /\ UNCHANGED disk
  BY DEF RunInvariant, Deciding, Judging, Reporting, EvaluatePreflight
<1>2. Became("gate", run.signals, run.assessment, decision, ledger,
             run.executed, run.state, run.verdict, run.escalated)
  BY PreflightFields
<1>3. decision \in {"allow", "require_review", "block"}
  BY DecisionTypes DEF TypeOK, Runs, content
<1>4. /\ Silent(ledger) /\ Len(ledger) >= 1
      /\ decision = "allow" => Len(ledger) = 1 /\ ledger[1] = "policy_allowed"
      /\ decision = "require_review" /\ Satisfied(decision, run.print.approvals) =>
           Len(ledger) = 2 /\ ledger[1] = "policy_review_required"
             /\ ledger[2] = "approval_recorded"
  BY <1>3, OpeningLedger
<1>5. /\ run'.decision = decision /\ ~run'.executed /\ run'.verdict = "unverified"
      /\ run'.stage = "gate" /\ report' = NoFile /\ run'.ledger = ledger
      /\ run'.print = run.print /\ run'.assessment = run.assessment
  BY <1>1, <1>2 DEF Became, disk
<1>6. Deciding'
  BY <1>5 DEF Deciding, content
<1> HIDE DEF decision, ledger
<1>7. Recording'
  BY <1>3, <1>4, <1>5 DEF Recording, Permitted, satisfied, Opens, Size, Silent
<1>8. Ending' /\ Judging' /\ Reporting'
  BY <1>5 DEF Ending, Judging, FailureAfterSuccessIsReconsidered, Reporting
<1>9. QED
  BY <1>6, <1>7, <1>8 DEF RunInvariant

\* The gate stops the run, unjudged and not executed.
LEMMA StopStep ==
  ASSUME TypeOK, RunInvariant, StopBlocked \/ PauseForApproval
  PROVE  RunInvariant'
<1>1. PICK state \in {"completed", "failed"} :
        /\ Stopped(state) /\ run.stage = "gate"
        /\ state = "completed" => ~Permitted
        /\ run.decision = "block" => state = "failed"
  BY DEF StopBlocked, PauseForApproval, Permitted
<1>2. Became("conclude", run.signals, run.assessment, run.decision, run.ledger,
             run.executed, state, run.verdict, run.escalated)
  BY <1>1, StopFields
<1>3. /\ run'.decision = run.decision /\ ~run'.executed /\ run'.verdict = "unverified"
      /\ run'.stage = "conclude" /\ report' = NoFile /\ run'.ledger = run.ledger
      /\ run'.print = run.print /\ run'.assessment = run.assessment
      /\ run'.state = state /\ run'.decision # "undecided" /\ Silent(run.ledger) /\ Len(run.ledger) >= 1
  BY <1>1, <1>2 DEF Became, disk, Stopped, RunInvariant, Recording, Judging, Reporting
<1>4. Deciding'
  BY <1>3 DEF Deciding, content, RunInvariant
<1>5. Recording'
  BY <1>3 DEF Recording, Silent
<1>6. Ending'
  BY <1>1, <1>3 DEF Ending, Permitted, satisfied
<1>7. Judging' /\ Reporting'
  BY <1>3 DEF Judging, FailureAfterSuccessIsReconsidered, Reporting
<1>8. QED
  BY <1>4, <1>5, <1>6, <1>7 DEF RunInvariant

\* Only a permitted run is dispatched.
LEMMA LoadStep ==
  ASSUME TypeOK, RunInvariant, LoadPack
  PROVE  RunInvariant'
<1>1. Became("dispatch", run.signals, run.assessment, run.decision, run.ledger,
             run.executed, run.state, run.verdict, run.escalated)
  BY LoadFields
<1>2. /\ run'.decision = run.decision /\ ~run'.executed /\ run'.verdict = "unverified"
      /\ run'.stage = "dispatch" /\ report' = NoFile /\ run'.ledger = run.ledger
      /\ run'.print = run.print /\ run'.assessment = run.assessment
      /\ run'.decision # "undecided" /\ Silent(run.ledger) /\ Len(run.ledger) >= 1
      /\ Permitted => Opens(run.ledger) /\ Len(run.ledger) = Size
  BY <1>1 DEF Became, disk, LoadPack, RunInvariant, Recording, Judging, Reporting
<1>3. Permitted
  <2>1. run.decision \in Decisions /\ satisfied /\ run.decision # "block"
    BY DEF TypeOK, Runs, LoadPack
  <2>2. QED
    BY <1>2, <2>1 DEF Permitted, Decisions
<1>4. Deciding'
  BY <1>2 DEF Deciding, content, RunInvariant
<1>5. Recording'
  BY <1>2, <1>3 DEF Recording, Silent, Permitted, satisfied, Opens, Size
<1>6. Ending' /\ Judging' /\ Reporting'
  BY <1>2 DEF Ending, Judging, FailureAfterSuccessIsReconsidered, Reporting
<1>7. QED
  BY <1>4, <1>5, <1>6 DEF RunInvariant

\* The start of the execution is recorded before the pack runs.
LEMMA BrainStep ==
  ASSUME TypeOK, RunInvariant, NEW reply \in Replies, InvokePrimaryBrain(reply)
  PROVE  RunInvariant'
<1> DEFINE l == Append(run.ledger, "execution_started")
<1>1. PICK signals \in SUBSET Signals :
        Became("pack", signals, run.assessment, run.decision, l, run.executed,
               run.state, run.verdict, run.escalated)
  BY BrainFields
<1>2. /\ run'.decision = run.decision /\ ~run'.executed /\ run'.verdict = "unverified"
      /\ run'.stage = "pack" /\ report' = NoFile /\ run'.ledger = l
      /\ run'.print = run.print /\ run'.assessment = run.assessment
      /\ run.stage = "dispatch"
  BY <1>1 DEF Became, disk, InvokePrimaryBrain, RunInvariant, Recording, Judging, Reporting
<1>3. Permitted /\ Opens(run.ledger) /\ Len(run.ledger) = Size /\ Silent(run.ledger)
  BY <1>2 DEF RunInvariant, Recording
<1>4. /\ Len(l) = Len(run.ledger) + 1 /\ Silent(l)
      /\ \A i \in 1..Len(run.ledger) : l[i] = run.ledger[i]
      /\ l[Len(run.ledger) + 1] = "execution_started"
  <2>1. run.ledger \in Seq(Events) /\ "execution_started" \in Events
    BY DEF TypeOK, Runs, Events
  <2>2. QED
    BY <1>3, <2>1, AppendFacts
<1> HIDE DEF l
<1>5. Deciding'
  BY <1>2 DEF Deciding, content, RunInvariant
<1>6. Starts(l) /\ Len(l) = Size + 1
  BY <1>3, <1>4 DEF Starts, Opens, Size
<1>7. Recording'
  BY <1>2, <1>3, <1>4, <1>6 DEF Recording, Silent, Permitted, satisfied, Starts, Opens, Size
<1>8. Ending' /\ Judging' /\ Reporting'
  BY <1>2 DEF Ending, Judging, FailureAfterSuccessIsReconsidered, Reporting
<1>9. QED
  BY <1>5, <1>7, <1>8 DEF RunInvariant

\* A pack that returns has been executed by a permitted run.
LEMMA ReturnStep ==
  ASSUME TypeOK, RunInvariant, PackReturns
  PROVE  RunInvariant'
<1>1. Became("materialize", run.signals, run.assessment, run.decision, run.ledger,
             TRUE, run.state, run.verdict, run.escalated)
  BY ReturnFields
<1>2. /\ run'.decision = run.decision /\ run'.executed /\ run'.verdict = "unverified"
      /\ run'.stage = "materialize" /\ report' = NoFile /\ run'.ledger = run.ledger
      /\ run'.print = run.print /\ run'.assessment = run.assessment
      /\ Permitted /\ Starts(run.ledger) /\ Len(run.ledger) = Size + 1 /\ Silent(run.ledger)
  BY <1>1 DEF Became, disk, PackReturns, RunInvariant, Recording, Judging, Reporting
<1>3. Deciding'
  BY <1>2 DEF Deciding, content, RunInvariant
<1>4. Recording'
  BY <1>2 DEF Recording, Silent, Permitted, satisfied, Starts, Opens, Size
<1>5. Ending' /\ Judging' /\ Reporting'
  BY <1>2 DEF Ending, Judging, FailureAfterSuccessIsReconsidered, Reporting
<1>6. QED
  BY <1>3, <1>4, <1>5 DEF RunInvariant

\* A pack that raises fails the run and leaves no verification.
LEMMA RaiseStep ==
  ASSUME TypeOK, RunInvariant, PackRaises
  PROVE  RunInvariant'
<1> DEFINE l == Append(run.ledger, "execution_failed")
<1>1. Became("conclude", run.signals \union {"failed"}, run.assessment, run.decision,
             l, TRUE, "failed", run.verdict, run.escalated)
  BY RaiseFields
<1>2. /\ run'.decision = run.decision /\ run'.executed /\ run'.verdict = "unverified"
      /\ run'.stage = "conclude" /\ report' = NoFile /\ run'.ledger = l
      /\ run'.print = run.print /\ run'.assessment = run.assessment /\ run'.state = "failed"
      /\ Permitted /\ Starts(run.ledger) /\ Len(run.ledger) = Size + 1 /\ Silent(run.ledger)
  BY <1>1 DEF Became, disk, PackRaises, RunInvariant, Recording, Judging, Reporting
<1>3. /\ Len(l) = Len(run.ledger) + 1 /\ Silent(l)
      /\ \A i \in 1..Len(run.ledger) : l[i] = run.ledger[i]
  <2>1. run.ledger \in Seq(Events) /\ "execution_failed" \in Events
    BY DEF TypeOK, Runs, Events
  <2>2. QED
    BY <1>2, <2>1, AppendFacts
<1> HIDE DEF l
<1>4. Starts(l)
  BY <1>2, <1>3 DEF Starts, Opens, Size
<1>5. Deciding'
  BY <1>2 DEF Deciding, content, RunInvariant
<1>6. Recording'
  BY <1>2, <1>3, <1>4 DEF Recording, Silent, Permitted, satisfied, Starts, Opens, Size
<1>7. Ending' /\ Judging' /\ Reporting'
  BY <1>2 DEF Ending, Permitted, Judging, FailureAfterSuccessIsReconsidered, Reporting
<1>8. QED
  BY <1>5, <1>6, <1>7 DEF RunInvariant

\* The artifacts of the pack, while nothing is reported.
LEMMA MaterializeStep ==
  ASSUME TypeOK, RunInvariant, MaterializePackArtifacts
  PROVE  RunInvariant'
<1>1. run.stage = "materialize" /\ UNCHANGED <<run, receipts, report>> /\ report = NoFile
  BY DEF MaterializePackArtifacts, RunInvariant, Reporting
<1>2. Deciding' /\ Recording'
  BY <1>1 DEF RunInvariant, Deciding, content, Recording, Permitted, satisfied,
      Starts, Opens, Size, Silent
<1>3. Ending' /\ Judging' /\ Reporting'
  BY <1>1 DEF RunInvariant, Ending, Judging, Judged, satisfied, content,
      FailureAfterSuccessIsReconsidered, Reporting
<1>4. QED
  BY <1>2, <1>3 DEF RunInvariant

\* A completed run has its whole chain of receipts and its artifacts.
LEMMA RecordStep ==
  ASSUME TypeOK, RunInvariant, RecordCompleted
  PROVE  RunInvariant'
<1> DEFINE l == Append(run.ledger, "execution_completed")
<1>1. Became("conclude", run.signals \union {"completed"}, run.assessment, run.decision,
             l, run.executed, "completed", run.verdict, run.escalated)
  BY RecordFields
<1>2. /\ run'.decision = run.decision /\ run'.executed /\ run'.verdict = "unverified"
      /\ run'.stage = "conclude" /\ report' = NoFile /\ run'.ledger = l
      /\ run'.print = run.print /\ run'.assessment = run.assessment /\ run'.state = "completed"
      /\ Permitted /\ Starts(run.ledger) /\ Len(run.ledger) = Size + 1 /\ Silent(run.ledger)
      /\ artifacts'
  BY <1>1 DEF Became, disk, RecordCompleted, RunInvariant, Recording, Judging, Reporting
<1>3. /\ Len(l) = Len(run.ledger) + 1 /\ Silent(l)
      /\ \A i \in 1..Len(run.ledger) : l[i] = run.ledger[i]
      /\ l[Len(run.ledger) + 1] = "execution_completed"
  <2>1. run.ledger \in Seq(Events) /\ "execution_completed" \in Events
    BY DEF TypeOK, Runs, Events
  <2>2. QED
    BY <1>2, <2>1, AppendFacts
<1> HIDE DEF l
<1>4. Completes(l)
  BY <1>2, <1>3 DEF Completes, Starts, Opens, Size
<1>5. Deciding'
  BY <1>2 DEF Deciding, content, RunInvariant
<1>6. Recording'
  BY <1>2, <1>3, <1>4 DEF Recording, Silent, Permitted, satisfied, Completes, Starts, Opens, Size
<1>7. Ending'
  BY <1>2, <1>4 DEF Ending, Permitted, Completes, Starts, Opens, Size
<1>8. Judging' /\ Reporting'
  BY <1>2 DEF Judging, FailureAfterSuccessIsReconsidered, Reporting
<1>9. QED
  BY <1>5, <1>6, <1>7, <1>8 DEF RunInvariant

\* A failed verdict is a failed state: nothing runs that may not.
LEMMA FailedState ==
  ASSUME RunInvariant, run.decision = "block" => run.state = "failed", Judged = "failed"
  PROVE  run.state = "failed"
<1>1. ~SentinelError(run.decision, satisfied, run.executed)
  BY DEF SentinelError, RunInvariant, Recording, Permitted
<1>2. QED
  BY <1>1 DEF Judged, Verify, Evaluate

\* The verdict is taken once, from what has happened.
LEMMA ConcludeStep ==
  ASSUME TypeOK, RunInvariant, Conclude
  PROVE  RunInvariant'
<1>1. PICK escalate \in BOOLEAN :
        /\ Became(IF escalate THEN "reason" ELSE "persist", run.signals, run.assessment,
                  run.decision, run.ledger, run.executed, run.state, Judged, escalate)
        /\ (/\ Judged = "failed" /\ run.state = "failed"
            /\ "completed" \in run.signals /\ content.hops < MaxHops) => escalate
  BY ConcludeFields
<1>2. /\ run'.decision = run.decision /\ run'.executed = run.executed
      /\ run'.verdict = Judged /\ run'.ledger = run.ledger /\ run'.print = run.print
      /\ run'.duplicate = run.duplicate /\ run'.signals = run.signals
      /\ run'.assessment = run.assessment /\ run'.state = run.state
      /\ run'.escalated = escalate
      /\ run'.stage \in {"reason", "persist"} /\ (run'.stage = "reason" => escalate)
  BY <1>1 DEF Became
<1>3. report' = NoFile /\ artifacts' = artifacts /\ run.stage = "conclude"
  BY DEF Conclude, disk, RunInvariant, Reporting
<1>4. Deciding'
  BY <1>2 DEF Deciding, content, RunInvariant
<1>5. Recording'
  BY <1>2, <1>3 DEF RunInvariant, Recording, Silent, Permitted, satisfied, Starts, Opens, Size
<1>6. Ending'
  BY <1>2, <1>3 DEF RunInvariant, Ending, Permitted, satisfied, Completes, Starts, Opens, Size
<1>7. Judged = "failed" => run.state = "failed"
  BY <1>3, FailedState DEF RunInvariant, Ending
<1>8. Judged' = Judged
  BY <1>2 DEF Judged, satisfied
<1>9. Judged # "unverified"
  BY VerdictType DEF Judged
<1>10. content' = content
  BY <1>2 DEF content
<1>11. Judging'
  BY <1>1, <1>2, <1>7, <1>8, <1>9, <1>10 DEF Judging, FailureAfterSuccessIsReconsidered
<1>12. Reporting'
  BY <1>2, <1>3 DEF Reporting
<1>13. QED
  BY <1>4, <1>5, <1>6, <1>11, <1>12 DEF RunInvariant

\* The reasoning brain is asked after the verdict, and changes nothing but signals.
LEMMA ReasonStep ==
  ASSUME TypeOK, RunInvariant, NEW reply \in Replies, RunReasoningLane(reply)
  PROVE  RunInvariant'
<1>1. PICK signals \in SUBSET Signals :
        Became("persist", signals, run.assessment, run.decision, run.ledger, run.executed,
               run.state, run.verdict, run.escalated)
  BY ReasoningFields
<1>2. /\ run'.decision = run.decision /\ run'.executed = run.executed
      /\ run'.verdict = run.verdict /\ run'.ledger = run.ledger /\ run'.print = run.print
      /\ run'.duplicate = run.duplicate /\ run'.escalated = run.escalated
      /\ run'.assessment = run.assessment /\ run'.state = run.state
      /\ run'.stage = "persist"
  BY <1>1 DEF Became
<1>3. report' = NoFile /\ artifacts' = artifacts /\ run.stage = "reason"
  BY DEF RunReasoningLane, disk, RunInvariant, Reporting
<1>4. run.escalated /\ run.verdict # "unverified" /\ run.verdict = Judged
  BY <1>3 DEF RunInvariant, Judging
<1>5. Deciding'
  BY <1>2 DEF Deciding, content, RunInvariant
<1>6. Recording'
  BY <1>2, <1>3 DEF RunInvariant, Recording, Silent, Permitted, satisfied, Starts, Opens, Size
<1>7. Ending'
  BY <1>2, <1>3 DEF RunInvariant, Ending, Permitted, satisfied, Completes, Starts, Opens, Size
<1>8. Judged' = Judged
  BY <1>2 DEF Judged, satisfied
<1>9. Judging'
  BY <1>2, <1>4, <1>8 DEF Judging, FailureAfterSuccessIsReconsidered
<1>10. Reporting'
  BY <1>2, <1>3 DEF Reporting
<1>11. QED
  BY <1>5, <1>6, <1>7, <1>9, <1>10 DEF RunInvariant

\* What the verification adds to a ledger.
Extended(l, verdict, ledger) ==
  /\ ledger \in Seq(Events) /\ Len(ledger) >= Len(l)
  /\ \A i \in 1..Len(l) : ledger[i] = l[i]
  /\ verdict = "passed" =>
       Len(ledger) = Len(l) + 1 /\ ledger[Len(ledger)] = "verification_passed"
  /\ verdict = "failed" => ledger[Len(ledger)] = "verification_failed"
  /\ verdict = "needs_review" => ledger = l

\* The verification receipt, where the verdict has one, is added at the end.
LEMMA VerificationLedger ==
  ASSUME NEW l \in Seq(Events), Len(l) >= 1, NEW verdict \in {"passed", "failed", "needs_review"}
  PROVE  Extended(l, verdict, l \o VerificationReceipts(verdict))
<1> DEFINE ledger == l \o VerificationReceipts(verdict)
<1>1. ASSUME NEW e \in Events, VerificationReceipts(verdict) = <<e>>
      PROVE  /\ ledger \in Seq(Events) /\ Len(ledger) = Len(l) + 1
             /\ \A i \in 1..Len(l) : ledger[i] = l[i]
             /\ ledger[Len(ledger)] = e
  <2>1. ledger = Append(l, e)
    BY <1>1, AppendIsConcat
  <2>2. QED
    BY <2>1, AppendFacts
<1>2. CASE verdict = "passed"
  <2>1. VerificationReceipts(verdict) = <<"verification_passed">>
    BY <1>2 DEF VerificationReceipts
  <2>2. QED
    BY <1>1, <1>2, <2>1 DEF Events, Extended
<1>3. CASE verdict = "failed"
  <2>1. VerificationReceipts(verdict) = <<"verification_failed">>
    BY <1>3 DEF VerificationReceipts
  <2>2. QED
    BY <1>1, <1>3, <2>1 DEF Events, Extended
<1>4. CASE verdict = "needs_review"
  <2>1. VerificationReceipts(verdict) = <<>>
    BY <1>4 DEF VerificationReceipts
  <2>2. ledger = l
    BY <2>1
  <2>3. Len(ledger) >= Len(l) /\ \A i \in 1..Len(l) : ledger[i] = l[i]
    BY <2>2
  <2>4. QED
    BY <1>4, <2>2, <2>3 DEF Extended
<1>5. QED
  BY <1>2, <1>3, <1>4

\* A run that passed was permitted, executed to its end and is no repeat.
LEMMA PassedFacts ==
  ASSUME TypeOK, RunInvariant, run.stage = "persist", Judged = "passed"
  PROVE  Permitted /\ Completes(run.ledger) /\ artifacts /\ ~run.duplicate
<1>1. /\ run.state = "completed" /\ run.decision # "block" /\ run.decision # "undecided"
      /\ ~run.duplicate /\ ~(run.decision = "require_review" /\ ~satisfied)
  BY DEF RunInvariant, Ending, Judged, Verify, Evaluate
<1>2. Permitted
  <2>1. run.decision \in Decisions
    BY DEF TypeOK, Runs
  <2>2. QED
    BY <1>1, <2>1 DEF Permitted, Decisions, satisfied, Satisfied
<1>3. QED
  BY <1>1, <1>2 DEF RunInvariant, Ending

\* The receipts on disk are the ledger of the run that was judged.
LEMMA PersistStep ==
  ASSUME TypeOK, RunInvariant, PersistGovernanceReceipts
  PROVE  RunInvariant'
<1> DEFINE l == run.ledger \o VerificationReceipts(run.verdict)
<1>1. /\ Became("report", run.signals, run.assessment, run.decision, l, run.executed,
                run.state, run.verdict, run.escalated)
      /\ receipts' = run'.ledger
  BY PersistFields
<1>2. /\ run'.decision = run.decision /\ run'.executed = run.executed
      /\ run'.verdict = run.verdict /\ run'.ledger = l /\ run'.print = run.print
      /\ run'.duplicate = run.duplicate /\ run'.escalated = run.escalated
      /\ run'.assessment = run.assessment /\ run'.state = run.state
      /\ run'.signals = run.signals /\ run'.stage = "report" /\ receipts' = l
  BY <1>1 DEF Became
<1>3. report' = NoFile /\ artifacts' = artifacts /\ run.stage = "persist"
  BY DEF PersistGovernanceReceipts, RunInvariant, Reporting
<1>4. /\ run.verdict \in {"passed", "failed", "needs_review"} /\ run.verdict = Judged
      /\ Silent(run.ledger) /\ run.ledger \in Seq(Events) /\ Len(run.ledger) >= 1
  BY <1>3 DEF RunInvariant, Judging, Recording, TypeOK, Runs, Verdicts
<1>5. /\ l \in Seq(Events) /\ Len(l) >= Len(run.ledger)
      /\ \A i \in 1..Len(run.ledger) : l[i] = run.ledger[i]
      /\ run.verdict = "passed" =>
           Len(l) = Len(run.ledger) + 1 /\ l[Len(l)] = "verification_passed"
      /\ run.verdict = "failed" => l[Len(l)] = "verification_failed"
      /\ run.verdict = "needs_review" => l = run.ledger
  <2>1. Extended(run.ledger, run.verdict, l)
    BY <1>4, VerificationLedger
  <2> HIDE DEF l
  <2>2. QED
    BY <2>1 DEF Extended
<1> HIDE DEF l
<1>6. Deciding'
  BY <1>2 DEF Deciding, content, RunInvariant
<1>7. Recording'
  <2>1. run.executed => Permitted /\ Starts(run.ledger)
    BY DEF RunInvariant, Recording
  <2>2. Starts(run.ledger) => Starts(l)
    BY <1>4, <1>5 DEF Starts, Opens, Size
  <2>3. QED
    BY <1>2, <2>1, <2>2 DEF Recording, Permitted, satisfied, Starts, Opens, Size
<1>8. Ending'
  BY <1>2 DEF Ending
<1>9. Judging'
  <2>1. Judged' = Judged
    BY <1>2 DEF Judged, satisfied
  <2>2. QED
    BY <1>2, <1>3, <1>4, <2>1
    DEF RunInvariant, Judging, FailureAfterSuccessIsReconsidered, content
<1>10. Told(run.verdict)'
  <2>1. CASE run.verdict = "passed"
    <3>1. Permitted /\ Completes(run.ledger) /\ artifacts /\ ~run.duplicate
      BY <1>3, <1>4, <2>1, PassedFacts
    <3>2. /\ Starts(l) /\ Len(l) = Size + 3 /\ l[Size + 2] = "execution_completed"
          /\ l[Size + 3] = "verification_passed"
      BY <1>4, <1>5, <2>1, <3>1 DEF Completes, Starts, Opens, Size
    <3>3. QED
      BY <1>2, <1>3, <1>5, <2>1, <3>1, <3>2
      DEF Told, Permitted, satisfied, Starts, Opens, Size
  <2>2. CASE run.verdict # "passed"
    BY <1>2, <1>4, <1>5, <2>2 DEF Told, Silent
  <2>3. QED
    BY <2>1, <2>2
<1>11. Reporting'
  <2>1. run'.verdict = run.verdict
    BY <1>2
  <2>2. QED
    BY <1>3, <1>2, <1>10 DEF Reporting, Told
<1>12. QED
  BY <1>6, <1>7, <1>8, <1>9, <1>11 DEF RunInvariant

\* The report says what the verdict and the receipts file say.
LEMMA WriteStep ==
  ASSUME TypeOK, RunInvariant, WriteRunReport
  PROVE  RunInvariant'
<1>1. Became("idle", run.signals, run.assessment, run.decision, run.ledger,
             run.executed, run.state, run.verdict, run.escalated)
  BY WriteFields
<1>2. /\ run'.decision = run.decision /\ run'.executed = run.executed
      /\ run'.verdict = run.verdict /\ run'.ledger = run.ledger /\ run'.print = run.print
      /\ run'.duplicate = run.duplicate /\ run'.escalated = run.escalated
      /\ run'.assessment = run.assessment /\ run'.state = run.state
      /\ run'.signals = run.signals /\ run'.stage = "idle"
  BY <1>1 DEF Became
<1>3. run.stage = "report" /\ receipts' = receipts /\ artifacts' = artifacts
  BY DEF WriteRunReport
<1>4. report' = run.verdict
  <2>1. ~sentinelError
    BY DEF sentinelError, SentinelError, RunInvariant, Recording, Permitted
  <2>2. QED
    BY <2>1 DEF WriteRunReport, RunStatus
<1>5. Deciding'
  BY <1>2 DEF Deciding, content, RunInvariant
<1>6. Recording'
  BY <1>2 DEF RunInvariant, Recording, Permitted, satisfied, Starts, Opens, Size
<1>7. Ending'
  BY <1>2 DEF Ending
<1>8. Judging'
  <2>1. Judged' = Judged
    BY <1>2 DEF Judged, satisfied
  <2>2. QED
    BY <1>2, <1>3, <2>1 DEF RunInvariant, Judging, FailureAfterSuccessIsReconsidered, content
<1>9. Reporting'
  <2>1. Told(run.verdict)
    BY <1>3 DEF RunInvariant, Reporting
  <2>2. QED
    BY <1>2, <1>3, <1>4, <2>1
    DEF Reporting, Told, Permitted, satisfied, Starts, Opens, Size, Silent
<1>10. QED
  BY <1>5, <1>6, <1>7, <1>8, <1>9 DEF RunInvariant

\* A run that is cut short reports nothing; one that has reported is left alone.
LEMMA CutStep ==
  ASSUME TypeOK, RunInvariant, Raise \/ Crash
  PROVE  RunInvariant'
<1>1. PICK executed \in BOOLEAN :
        /\ Became("idle", run.signals, run.assessment, run.decision, run.ledger,
                  executed, run.state, run.verdict, run.escalated)
        /\ executed => run.executed \/ run.stage = "pack"
        /\ run.executed => executed
  BY CutFields
<1>2. /\ run'.decision = run.decision /\ run'.executed = executed
      /\ run'.verdict = run.verdict /\ run'.ledger = run.ledger /\ run'.print = run.print
      /\ run'.duplicate = run.duplicate /\ run'.escalated = run.escalated
      /\ run'.assessment = run.assessment /\ run'.state = run.state
      /\ run'.signals = run.signals /\ run'.stage = "idle"
  BY <1>1 DEF Became
<1>3. UNCHANGED <<receipts, report, artifacts>>
  BY DEF Raise, Crash, disk
<1>4. executed => Permitted /\ Starts(run.ledger)
  BY <1>1 DEF RunInvariant, Recording
<1>5. run.verdict # "unverified" => executed = run.executed
  BY <1>1 DEF RunInvariant, Judging, TypeOK, Runs
<1>6. Deciding'
  BY <1>2 DEF Deciding, content, RunInvariant
<1>7. Recording'
  BY <1>2, <1>4 DEF Recording, Permitted, satisfied, Starts, Opens, Size
<1>8. Ending'
  BY <1>2 DEF Ending
<1>9. Judging'
  <2>1. run.verdict # "unverified" => Judged' = Judged
    BY <1>2, <1>5 DEF Judged, satisfied
  <2>2. QED
    BY <1>2, <2>1 DEF RunInvariant, Judging, FailureAfterSuccessIsReconsidered, content
<1>10. Reporting'
  BY <1>2, <1>3
  DEF RunInvariant, Reporting, Told, Permitted, satisfied, Starts, Opens, Size, Silent
<1>11. QED
  BY <1>6, <1>7, <1>8, <1>9, <1>10 DEF RunInvariant

\* Nothing has happened to a request that was just submitted.
LEMMA FreshRun ==
  ASSUME run.stage \in {"idle", "vision"}, run.decision = "undecided", run.executed = FALSE,
         run.verdict = "unverified", report = NoFile
  PROVE  RunInvariant
<1>1. Deciding /\ Recording /\ Ending
  BY DEF Deciding, Recording, Ending
<1>2. Judging /\ Reporting
  BY DEF Judging, FailureAfterSuccessIsReconsidered, Reporting
<1>3. QED
  BY <1>1, <1>2 DEF RunInvariant

\* A new request starts from an empty ledger and no files.
LEMMA SubmitStep ==
  ASSUME TypeOK, NEW p \in Prints, Submit(p)
  PROVE  RunInvariant'
<1>1. /\ run'.stage \in {"idle", "vision"} /\ run'.decision = "undecided"
      /\ run'.executed = FALSE /\ run'.verdict = "unverified"
  BY SubmitFields
<1>2. report' = NoFile
  BY DEF Submit
<1>3. Deciding' /\ Recording' /\ Ending'
  BY <1>1 DEF Deciding, Recording, Ending
<1>4. Judging' /\ Reporting'
  BY <1>1, <1>2 DEF Judging, FailureAfterSuccessIsReconsidered, Reporting
<1>5. QED
  BY <1>3, <1>4 DEF RunInvariant

\* A step that changes nothing keeps the invariant.
LEMMA StutterStep ==
  ASSUME RunInvariant, UNCHANGED vars
  PROVE  RunInvariant'
<1>1. UNCHANGED <<run, receipts, report, artifacts>>
  BY DEF vars
<1>2. Deciding' /\ Recording'
  BY <1>1 DEF RunInvariant, Deciding, content, Recording, Permitted, satisfied,
      Starts, Opens, Size, Silent
<1>3. Ending' /\ Judging'
  BY <1>1 DEF RunInvariant, Ending, Permitted, Completes, Starts, Opens, Size, satisfied,
      Judging, Judged, content, FailureAfterSuccessIsReconsidered
<1>4. Reporting'
  BY <1>1 DEF RunInvariant, Reporting, Told, Permitted, satisfied, Starts, Opens, Size, Silent
<1>5. QED
  BY <1>2, <1>3, <1>4 DEF RunInvariant

\* Every step keeps the invariant, one lemma per action.
LEMMA RunStep ==
  ASSUME TypeOK, RunInvariant, [Next]_vars
  PROVE  RunInvariant'
<1>1. ASSUME NEW reply \in Replies, RunVisionLane(reply) PROVE RunInvariant'
  <2>1. UNCHANGED disk /\ run.stage = "vision"
    BY <1>1 DEF RunVisionLane
  <2>2. QED
    BY <1>1, <2>1, VisionFields, EarlyStep
<1>2. ASSUME NEW reply \in Replies, RunPolicyReasoningLane(reply) PROVE RunInvariant'
  <2>1. UNCHANGED disk /\ run.stage = "policy"
    BY <1>2 DEF RunPolicyReasoningLane
  <2>2. QED
    BY <1>2, <2>1, PolicyFields, EarlyStep
<1>3. ASSUME NEW reply \in SafeguardReplies, RunSafeguard(reply) PROVE RunInvariant'
  <2>1. UNCHANGED disk /\ run.stage = "safeguard"
    BY <1>3 DEF RunSafeguard
  <2>2. QED
    BY <1>3, <2>1, SafeguardFields, EarlyStep
<1>4. QED
  BY <1>1, <1>2, <1>3, PreflightStep, StopStep, LoadStep, BrainStep, ReturnStep, RaiseStep,
     MaterializeStep, RecordStep, ConcludeStep, ReasonStep, PersistStep, WriteStep, CutStep,
     SubmitStep, StutterStep DEF Next

\* The process starts with no request in progress.
LEMMA InitFields ==
  ASSUME Init
  PROVE  /\ run \in Runs /\ run.stage = "idle" /\ run.decision = "undecided"
         /\ run.executed = FALSE /\ run.verdict = "unverified" /\ report = NoFile
<1>1. PICK p \in Prints : run = [Submitted(p, FALSE) EXCEPT !.stage = "idle"]
  BY DEF Init
<1>2. run = [stage |-> "idle", print |-> p, duplicate |-> FALSE, signals |-> {},
             assessment |-> NoAssessment, decision |-> "undecided", ledger |-> <<>>,
             executed |-> FALSE, state |-> "running", verdict |-> "unverified",
             escalated |-> FALSE]
  BY <1>1 DEF Submitted
<1>3. <<>> \in Seq(Events)
  OBVIOUS
<1>4. QED
  BY <1>2, <1>3 DEF Runs, Stages, Decisions, Verdicts, Init

\* The initial states are well typed.
LEMMA TypeInit == Init => TypeOK
<1> SUFFICES ASSUME Init PROVE TypeOK
  OBVIOUS
<1>1. <<>> \in Seq(Prints) /\ Len(<<>>) = 0
  OBVIOUS
<1>2. /\ recent = <<>> /\ known = {} /\ observed = <<>> /\ receipts = NoReceipts
      /\ report = NoFile /\ artifacts = FALSE
  BY DEF Init
<1>3. run \in Runs
  BY InitFields
<1>4. recent \in Seq(Prints) /\ Len(recent) <= Window /\ observed \in Seq(Prints)
  BY <1>1, <1>2, WindowAssumption
<1>5. QED
  BY <1>2, <1>3, <1>4 DEF TypeOK

\* The place of a run tells what was decided, recorded, executed, judged and
\* reported of it.
THEOREM RunCorrect == Spec => [](TypeOK /\ RunInvariant)
<1>1. Init => TypeOK /\ RunInvariant
  BY TypeInit, InitFields, FreshRun
<1>2. TypeOK /\ RunInvariant /\ [Next]_vars => TypeOK' /\ RunInvariant'
  BY TypeStep, RunStep DEF RunInvariant
<1>3. QED
  BY <1>1, <1>2, PTL DEF Spec

\* Every reachable state of the runtime is well typed: the replay window is
\* bounded and every report states a verdict.
THEOREM TypeCorrect == Spec => []TypeOK
  BY RunCorrect, PTL

-----------------------------------------------------------------------------
(***************************************************************************)
(* Authority.                                                              *)
(***************************************************************************)
LEMMA RiskFacts ==
  ASSUME NEW c
  PROVE  /\ RiskLevel(c) \in {Low, Moderate, High, Critical}
         /\ RiskLevel(c) = Critical <=> ActionKind(c) = "network_egress"
  BY DEF RiskLevel, ActionKind, Low, Moderate, High, Critical

\* What preflight says, by the risk of the request and the assessment.
LEMMA PreflightFacts ==
  ASSUME NEW c, NEW assessment \in {NoAssessment} \union Dispositions
  PROVE  /\ RiskLevel(c) = Critical => Preflight(c, assessment) = "block"
         /\ RiskLevel(c) = High \/ assessment >= Review =>
              Preflight(c, assessment) # "allow"
         /\ RiskLevel(c) < High /\ assessment < Review => Preflight(c, assessment) = "allow"
<1> DEFINE risk == RiskLevel(c)
<1>1. risk \in {Low, Moderate, High, Critical}
      /\ (risk = Critical <=> ActionKind(c) = "network_egress")
  BY RiskFacts
<1>2. Preflight(c, assessment) =
        Decide(ActionKind(c), MergedRisk(risk, assessment), risk = High \/ assessment >= Review)
  BY DEF Preflight
<1> HIDE DEF risk
<1>3. /\ risk = Critical => Decide(ActionKind(c), MergedRisk(risk, assessment),
                                   risk = High \/ assessment >= Review) = "block"
      /\ risk = High \/ assessment >= Review =>
           Decide(ActionKind(c), MergedRisk(risk, assessment),
                  risk = High \/ assessment >= Review) # "allow"
      /\ risk < High /\ assessment < Review =>
           Decide(ActionKind(c), MergedRisk(risk, assessment),
                  risk = High \/ assessment >= Review) = "allow"
  BY <1>1 DEF Decide, MergedRisk, Larger, Low, Moderate, High, Critical,
     Dispositions, NoAssessment, Allow, Review, Block
<1>4. QED
  BY <1>2, <1>3 DEF risk

\* The first receipts of a ledger.
LEMMA FirstReceipts ==
  ASSUME NEW l \in Seq(Events)
  PROVE  /\ Len(l) >= 2 => SubSeq(l, 1, 2) = <<l[1], l[2]>>
         /\ Len(l) >= 3 => SubSeq(l, 1, 3) = <<l[1], l[2], l[3]>>
<1>1. ASSUME Len(l) >= 2 PROVE SubSeq(l, 1, 2) = <<l[1], l[2]>>
  <2> DEFINE s == SubSeq(l, 1, 2)
             u == <<l[1], l[2]>>
  <2>1. s \in Seq(Events) /\ Len(s) = 2 /\ s[1] = l[1] /\ s[2] = l[2]
    BY <1>1, SubSeqProperties
  <2>2. u \in Seq(Events) /\ Len(u) = 2 /\ u[1] = l[1] /\ u[2] = l[2]
    BY <1>1
  <2> HIDE DEF s, u
  <2>3. s = u
    BY <2>1, <2>2, SeqEqual
  <2>4. QED
    BY <2>3 DEF s, u
<1>2. ASSUME Len(l) >= 3 PROVE SubSeq(l, 1, 3) = <<l[1], l[2], l[3]>>
  <2> DEFINE s == SubSeq(l, 1, 3)
             u == <<l[1], l[2], l[3]>>
  <2>1. s \in Seq(Events) /\ Len(s) = 3 /\ s[1] = l[1] /\ s[2] = l[2] /\ s[3] = l[3]
    BY <1>2, SubSeqProperties
  <2>2. u \in Seq(Events) /\ Len(u) = 3 /\ u[1] = l[1] /\ u[2] = l[2] /\ u[3] = l[3]
    BY <1>2
  <2> HIDE DEF s, u
  <2>3. s = u
    BY <2>1, <2>2, SeqEqual
  <2>4. QED
    BY <2>3 DEF s, u
<1>3. QED
  BY <1>1, <1>2

\* Nothing runs that governance has not let through on the record: not what
\* leaves the machine, and not what is risky or objected to without approval.
THEOREM ExecutionAuthorized == Spec => []AuthorityPrecedesExecution
<1>1. ASSUME TypeOK, RunInvariant, run.executed PROVE AuthorityPrecedesExecution
  <2>1. /\ Permitted /\ Starts(run.ledger)
        /\ run.decision = Preflight(content, run.assessment)
    BY <1>1 DEF RunInvariant, Recording, Deciding, Permitted
  <2>2. /\ run.ledger \in Seq(Events)
        /\ run.assessment \in {NoAssessment} \union Dispositions
    BY <1>1 DEF TypeOK, Runs
  <2>3. RiskLevel(content) # Critical
    BY <2>1, <2>2, PreflightFacts DEF Permitted
  <2>4. ASSUME RiskLevel(content) = High \/ run.assessment >= Review
        PROVE  /\ "approved" \in ApprovalStatuses(run.print.approvals)
               /\ SubSeq(run.ledger, 1, 3) =
                    <<"policy_review_required", "approval_recorded", "execution_started">>
    <3>1. run.decision = "require_review"
      BY <2>1, <2>2, <2>4, PreflightFacts DEF Permitted
    <3>2. "approved" \in ApprovalStatuses(run.print.approvals)
      BY <2>1, <3>1 DEF Permitted, satisfied, Satisfied
    <3>3. /\ Len(run.ledger) >= 3 /\ run.ledger[1] = "policy_review_required"
          /\ run.ledger[2] = "approval_recorded" /\ run.ledger[3] = "execution_started"
      BY <2>1, <2>2, <3>1 DEF Starts, Opens, Size
    <3>4. QED
      BY <2>2, <3>2, <3>3, FirstReceipts
  <2>5. ASSUME RiskLevel(content) < High, run.assessment < Review
        PROVE  SubSeq(run.ledger, 1, 2) = <<"policy_allowed", "execution_started">>
    <3>1. run.decision = "allow"
      BY <2>1, <2>2, <2>5, PreflightFacts
    <3>2. /\ Len(run.ledger) >= 2 /\ run.ledger[1] = "policy_allowed"
          /\ run.ledger[2] = "execution_started"
      BY <2>1, <2>2, <3>1 DEF Starts, Opens, Size
    <3>3. QED
      BY <2>2, <3>2, FirstReceipts
  <2>6. QED
    BY <2>3, <2>4, <2>5 DEF AuthorityPrecedesExecution
<1>2. TypeOK /\ RunInvariant => AuthorityPrecedesExecution
  BY <1>1 DEF AuthorityPrecedesExecution
<1>3. QED
  BY <1>2, RunCorrect, PTL

\* A failure after a success goes to the reasoning brain while hops are left.
THEOREM FailuresReconsidered == Spec => []FailureAfterSuccessIsReconsidered
<1>1. RunInvariant => FailureAfterSuccessIsReconsidered
  BY DEF RunInvariant, Judging
<1>2. QED
  BY <1>1, RunCorrect, PTL

-----------------------------------------------------------------------------
(***************************************************************************)
(* Reports.                                                                *)
(***************************************************************************)
\* The receipts of a run that passed, receipt by receipt.
LEMMA ChainFacts ==
  ASSUME NEW l \in Seq(Events), Starts(l), Len(l) = Size + 3,
         l[Size + 2] = "execution_completed", l[Size + 3] = "verification_passed"
  PROVE  l = PassedChain
<1> DEFINE opening == IF run.decision = "allow" THEN <<"policy_allowed">>
                      ELSE <<"policy_review_required", "approval_recorded">>
           rest == <<"execution_started", "execution_completed", "verification_passed">>
<1>1. /\ rest \in Seq(Events) /\ Len(rest) = 3 /\ rest[1] = "execution_started"
      /\ rest[2] = "execution_completed" /\ rest[3] = "verification_passed"
  BY DEF Events
<1>2. /\ opening \in Seq(Events) /\ Len(opening) = Size
      /\ \A i \in 1..Size : l[i] = opening[i]
  <2>1. CASE run.decision = "allow"
    <3>1. opening = <<"policy_allowed">> /\ Size = 1 /\ l[1] = "policy_allowed"
      BY <2>1 DEF Size, Starts, Opens
    <3> HIDE DEF opening
    <3>2. QED
      BY <3>1 DEF Events
  <2>2. CASE run.decision # "allow"
    <3>1. /\ opening = <<"policy_review_required", "approval_recorded">> /\ Size = 2
          /\ l[1] = "policy_review_required" /\ l[2] = "approval_recorded"
      BY <2>2 DEF Size, Starts, Opens
    <3> HIDE DEF opening
    <3>2. QED
      BY <3>1 DEF Events
  <2>3. QED
    BY <2>1, <2>2
<1>3. PassedChain = opening \o rest
  BY DEF PassedChain
<1>4. l[Size + 1] = "execution_started" /\ Size \in 1..2
  BY DEF Starts, Size
<1> HIDE DEF opening, rest
<1> DEFINE chain == opening \o rest
<1>5. /\ chain \in Seq(Events)
      /\ Len(chain) = Len(opening) + Len(rest)
      /\ \A i \in 1 .. Len(opening) + Len(rest) :
           chain[i] = IF i <= Len(opening) THEN opening[i] ELSE rest[i - Len(opening)]
  <2>1. opening \in Seq(Events) /\ rest \in Seq(Events)
    BY <1>1, <1>2
  <2>2. QED
    BY <2>1, ConcatProperties
<1> HIDE DEF chain
<1>6. /\ chain \in Seq(Events) /\ Len(chain) = Size + 3
      /\ \A i \in 1..(Size + 3) : chain[i] = IF i <= Size THEN opening[i] ELSE rest[i - Size]
  BY <1>1, <1>2, <1>5
<1>7. \A i \in 1..Len(l) : l[i] = chain[i]
  <2> SUFFICES ASSUME NEW i \in 1..(Size + 3) PROVE l[i] = chain[i]
    OBVIOUS
  <2>1. CASE i <= Size
    BY <1>2, <1>4, <1>6, <2>1
  <2>2. CASE i = Size + 1
    BY <1>1, <1>4, <1>6, <2>2
  <2>3. CASE i = Size + 2
    BY <1>1, <1>4, <1>6, <2>3
  <2>4. CASE i = Size + 3
    BY <1>1, <1>4, <1>6, <2>4
  <2>5. QED
    BY <1>4, <2>1, <2>2, <2>3, <2>4
<1>8. l = chain
  BY <1>6, <1>7, SeqEqual
<1>9. QED
  BY <1>3, <1>8 DEF chain

\* A report on disk never says more than the receipts file beside it.
THEOREM ReportsHonest == Spec => []ReportHasItsReceipts
<1>1. ASSUME TypeOK, RunInvariant, report # NoFile PROVE ReportHasItsReceipts
  <2>1. Told(report) /\ receipts \in Seq(Events) /\ Len(receipts) >= 1
    BY <1>1 DEF RunInvariant, Reporting, Told
  <2>2. receipts # NoReceipts
    <3>1. receipts[1] \in Events
      BY <2>1
    <3>2. NoReceipts[1] = "absent"
      BY DEF NoReceipts
    <3>3. QED
      BY <3>1, <3>2 DEF Events
  <2>3. report = "passed" => receipts = PassedChain /\ artifacts /\ ~run.duplicate
    BY <2>1, ChainFacts DEF Told
  <2>4. report = "failed" => Last(receipts) = "verification_failed"
    BY <2>1 DEF Told, Last
  <2>5. report = "needs_review" =>
          ToSet(receipts) \intersect {"verification_passed", "verification_failed"} = {}
    BY <2>1 DEF Told, ToSet, Silent
  <2>6. QED
    BY <2>2, <2>3, <2>4, <2>5 DEF ReportHasItsReceipts
<1>2. TypeOK /\ RunInvariant => ReportHasItsReceipts
  BY <1>1 DEF ReportHasItsReceipts
<1>3. QED
  BY <1>2, RunCorrect, PTL

-----------------------------------------------------------------------------
(***************************************************************************)
(* The replay guard.                                                       *)
(***************************************************************************)
\* The deque is the end of what was observed, and the counts are its keys.
Remembered ==
  /\ Len(recent) = IF Len(observed) < Window THEN Len(observed) ELSE Window
  /\ \A i \in 1..Len(recent) : recent[i] = observed[Len(observed) - Len(recent) + i]
  /\ known = ToSet(recent)

\* What the two sequences are, before either grows.
LEMMA GuardShape ==
  ASSUME TypeOK, Remembered
  PROVE  /\ recent \in Seq(Prints) /\ observed \in Seq(Prints)
         /\ Len(recent) \in Nat /\ Len(observed) \in Nat
         /\ Len(recent) = IF Len(observed) < Window THEN Len(observed) ELSE Window
         /\ \A i \in 1..Len(recent) : recent[i] = observed[Len(observed) - Len(recent) + i]
<1>1. recent \in Seq(Prints) /\ observed \in Seq(Prints)
  BY DEF TypeOK
<1>2. Len(recent) \in Nat /\ Len(observed) \in Nat
  BY <1>1
<1>3. Len(recent) = IF Len(observed) < Window THEN Len(observed) ELSE Window
  BY DEF Remembered
<1>4. \A i \in 1..Len(recent) : recent[i] = observed[Len(observed) - Len(recent) + i]
  BY DEF Remembered
<1>5. QED
  BY <1>1, <1>2, <1>3, <1>4

\* One more observation: the oldest leaves a full deque, and its key the counts.
LEMMA ObserveStep ==
  ASSUME TypeOK, Remembered, NEW p \in Prints, Observe(p)
  PROVE  Remembered'
<1> USE WindowAssumption
<1> DEFINE kept == IF Len(recent) = Window THEN Tail(recent) ELSE recent
           size == Len(recent)
           all == Len(observed)
<1>1. /\ recent' = Append(kept, p) /\ observed' = Append(observed, p)
      /\ known' = IF Len(recent') < Window THEN known \union {p} ELSE ToSet(recent')
  BY DEF Observe
<1>2. /\ recent \in Seq(Prints) /\ observed \in Seq(Prints) /\ size \in Nat /\ all \in Nat
      /\ size = IF all < Window THEN all ELSE Window
      /\ \A i \in 1..size : recent[i] = observed[all - size + i]
  BY GuardShape
<1>3. /\ kept \in Seq(Prints)
      /\ Len(kept) = IF size = Window THEN size - 1 ELSE size
      /\ \A i \in 1..Len(kept) :
           kept[i] = IF size = Window THEN recent[i + 1] ELSE recent[i]
  <2>1. CASE size = Window
    <3>1. recent # <<>>
      BY <2>1
    <3>2. kept = Tail(recent)
      BY <2>1
    <3>3. /\ Tail(recent) \in Seq(Prints) /\ Len(Tail(recent)) = size - 1
          /\ \A i \in 1..(size - 1) : Tail(recent)[i] = recent[i + 1]
      BY <1>2, <3>1
    <3>4. QED
      BY <2>1, <3>2, <3>3
  <2>2. CASE size # Window
    BY <1>2, <2>2
  <2>3. QED
    BY <2>1, <2>2
<1> HIDE DEF kept
<1>4. /\ recent' \in Seq(Prints) /\ Len(recent') = Len(kept) + 1
      /\ \A i \in 1..Len(kept) : recent'[i] = kept[i]
      /\ recent'[Len(kept) + 1] = p
  BY <1>1, <1>3
<1>5. /\ Len(observed') = all + 1
      /\ \A i \in 1..all : observed'[i] = observed[i]
      /\ observed'[all + 1] = p
  BY <1>1, <1>2
<1> HIDE DEF size, all
<1>6. Len(recent') = IF all + 1 < Window THEN all + 1 ELSE Window
  BY <1>2, <1>3, <1>4
<1>7. \A i \in 1..Len(recent') : recent'[i] = observed'[all + 1 - Len(recent') + i]
  <2> SUFFICES ASSUME NEW i \in 1..Len(recent')
               PROVE  recent'[i] = observed'[all + 1 - Len(recent') + i]
    OBVIOUS
  <2>1. Len(kept) \in Nat
    BY <1>3
  <2>2. CASE i = Len(kept) + 1
    BY <1>2, <1>4, <1>5, <2>1, <2>2
  <2>3. CASE i # Len(kept) + 1 /\ size = Window
    <3>a. Len(recent') = Len(kept) + 1
      BY <1>4
    <3>b. Len(kept) = size - 1
      BY <1>3, <2>3
    <3>c. i \in Int /\ 1 <= i /\ i <= Len(kept)
      BY <2>1, <2>3, <3>a
    <3>1. i \in 1..Len(kept) /\ i + 1 \in 1..size
      BY <1>2, <2>1, <3>b, <3>c
    <3>2. recent'[i] = observed[all - size + (i + 1)]
      BY <1>2, <1>3, <1>4, <2>3, <3>1
    <3>3. all - size + (i + 1) \in 1..all
      BY <1>2, <3>1
    <3>4. all + 1 - Len(recent') + i = all - size + (i + 1)
      BY <1>2, <1>3, <1>4, <2>3
    <3>5. QED
      BY <1>5, <3>2, <3>3, <3>4
  <2>4. CASE i # Len(kept) + 1 /\ size # Window
    <3>1. i \in 1..Len(kept) /\ i \in 1..size
      BY <1>2, <1>3, <1>4, <2>1, <2>4
    <3>2. recent'[i] = observed[all - size + i]
      BY <1>2, <1>3, <1>4, <2>4, <3>1
    <3>3. all - size + i \in 1..all
      BY <1>2, <3>1
    <3>4. all + 1 - Len(recent') + i = all - size + i
      BY <1>2, <1>3, <1>4, <2>4
    <3>5. QED
      BY <1>5, <3>2, <3>3, <3>4
  <2>5. QED
    BY <2>2, <2>3, <2>4
<1>8. known' = ToSet(recent')
  <2>1. CASE Len(recent') < Window
    <3>0. Len(kept) \in Nat /\ size # Window
      BY <1>2, <1>3, <1>4, <2>1
    <3>a. Len(kept) = size
      BY <1>3, <3>0
    <3>b. \A i \in 1..size : recent'[i] = recent[i]
      BY <1>3, <1>4, <3>0, <3>a
    <3>1. size # Window /\ Len(kept) = size /\ \A i \in 1..size : recent'[i] = recent[i]
      BY <3>0, <3>a, <3>b
    <3>2. /\ DOMAIN recent' = 1..(size + 1) /\ DOMAIN recent = 1..size
          /\ recent'[size + 1] = p
      BY <1>2, <1>3, <1>4, <3>1 DEF size
    <3>3. ToSet(recent') = ToSet(recent) \union {p}
      BY <1>2, <3>1, <3>2 DEF ToSet
    <3>4. QED
      BY <1>1, <2>1, <3>3 DEF Remembered
  <2>2. CASE ~(Len(recent') < Window)
    BY <1>1, <2>2
  <2>3. QED
    BY <2>1, <2>2
<1>9. Len(recent') = IF Len(observed') < Window THEN Len(observed') ELSE Window
  BY <1>5, <1>6
<1>10. \A i \in 1..Len(recent') :
          recent'[i] = observed'[Len(observed') - Len(recent') + i]
  <2>1. Len(observed') = all + 1
    BY <1>5
  <2>2. SUFFICES ASSUME NEW i \in 1..Len(recent')
                 PROVE  recent'[i] = observed'[Len(observed') - Len(recent') + i]
    OBVIOUS
  <2>3. Len(observed') - Len(recent') + i = all + 1 - Len(recent') + i
    <3>1. all \in Nat /\ Len(recent') \in Nat
      BY <1>2, <1>4
    <3>2. QED
      BY <2>1, <3>1
  <2>4. recent'[i] = observed'[all + 1 - Len(recent') + i]
    BY <1>7
  <2>5. QED
    BY <2>3, <2>4
<1>11. QED
  BY <1>8, <1>9, <1>10 DEF Remembered

\* The counts hold exactly what the last Window observations were.
LEMMA CountsAreRecent ==
  ASSUME TypeOK, Remembered, NEW p \in Prints, observed' = Append(observed, p)
  PROVE  LastObserved(Window)' = known
<1> USE WindowAssumption
<1> DEFINE size == Len(recent)
           all == Len(observed)
           last == {j \in DOMAIN observed' : j < Len(observed') /\ j >= Len(observed') - Window}
<1>1. /\ recent \in Seq(Prints) /\ observed \in Seq(Prints) /\ size \in Nat /\ all \in Nat
      /\ size = IF all < Window THEN all ELSE Window
      /\ \A i \in 1..size : recent[i] = observed[all - size + i]
  BY GuardShape
<1>2. /\ DOMAIN observed' = 1..(all + 1) /\ Len(observed') = all + 1
      /\ \A j \in 1..all : observed'[j] = observed[j]
  BY <1>1
<1>3. DOMAIN recent = 1..size
  BY <1>1
<1>4. last = (all - size + 1)..all
  <2>1. last = {j \in 1..(all + 1) : j < all + 1 /\ j >= all + 1 - Window}
    BY <1>2
  <2> HIDE DEF size, all, last
  <2>2. CASE all < Window
    BY <1>1, <2>1, <2>2
  <2>3. CASE ~(all < Window)
    BY <1>1, <2>1, <2>3
  <2>4. QED
    BY <2>2, <2>3
<1> HIDE DEF size, all, last
<1>5. {observed'[j] : j \in last} = {recent[i] : i \in 1..size}
  <2>1. ASSUME NEW j \in last PROVE observed'[j] \in {recent[i] : i \in 1..size}
    <3>1. j \in Int /\ j >= all - size + 1 /\ j <= all
      BY <1>1, <1>4
    <3>2. j \in 1..all /\ j - (all - size) \in 1..size /\ all - size + (j - (all - size)) = j
      BY <1>1, <3>1
    <3>3. observed'[j] = recent[j - (all - size)]
      BY <1>1, <1>2, <3>2
    <3>4. QED
      BY <3>2, <3>3
  <2>2. ASSUME NEW i \in 1..size PROVE recent[i] \in {observed'[j] : j \in last}
    <3>1. all - size + i \in last /\ all - size + i \in 1..all
      BY <1>1, <1>4
    <3>2. recent[i] = observed'[all - size + i]
      BY <1>1, <1>2, <3>1
    <3>3. QED
      BY <3>1, <3>2
  <2>3. QED
    BY <2>1, <2>2
<1>6. LastObserved(Window)' = {observed'[j] : j \in last}
  BY DEF LastObserved, last
<1>7. known = {recent[i] : i \in 1..size}
  BY <1>3 DEF Remembered, ToSet
<1>8. QED
  BY <1>5, <1>6, <1>7

\* What is not a submission or a crash leaves the guard and what it said.
LEMMA GuardSteps ==
  ASSUME TypeOK, [Next]_vars
  PROVE  \/ UNCHANGED guard /\ run'.print = run.print /\ run'.duplicate = run.duplicate
         \/ \E p \in Prints : Submit(p)
         \/ Crash
<1>1. ASSUME NEW reply \in Replies,
             \/ RunVisionLane(reply) \/ RunPolicyReasoningLane(reply)
             \/ InvokePrimaryBrain(reply) \/ RunReasoningLane(reply)
      PROVE  UNCHANGED guard /\ run'.print = run.print /\ run'.duplicate = run.duplicate
  <2>1. run'.print = run.print /\ run'.duplicate = run.duplicate
    BY <1>1, VisionFields, PolicyFields, BrainFields, ReasoningFields DEF Became
  <2>2. QED
    BY <1>1, <2>1
    DEF RunVisionLane, RunPolicyReasoningLane, InvokePrimaryBrain, RunReasoningLane
<1>2. ASSUME NEW reply \in SafeguardReplies, RunSafeguard(reply)
      PROVE  UNCHANGED guard /\ run'.print = run.print /\ run'.duplicate = run.duplicate
  BY <1>2, SafeguardFields DEF Became, RunSafeguard
<1>3. CASE StopBlocked \/ PauseForApproval
  <2>1. PICK state \in {"completed", "failed"} : Stopped(state)
    BY <1>3 DEF StopBlocked, PauseForApproval
  <2>2. QED
    BY <2>1, StopFields DEF Became, Stopped
<1>4. CASE EvaluatePreflight
  BY <1>4, PreflightFields DEF Became, EvaluatePreflight
<1>5. CASE LoadPack \/ PackReturns \/ PackRaises \/ RecordCompleted
  BY <1>5, LoadFields, ReturnFields, RaiseFields, RecordFields
  DEF Became, LoadPack, PackReturns, PackRaises, RecordCompleted
<1>6. CASE Conclude \/ PersistGovernanceReceipts \/ WriteRunReport \/ Raise
  BY <1>6, ConcludeFields, PersistFields, WriteFields, CutFields
  DEF Became, Conclude, PersistGovernanceReceipts, WriteRunReport, Raise
<1>7. CASE MaterializePackArtifacts \/ UNCHANGED vars
  BY <1>7 DEF MaterializePackArtifacts, vars, guard
<1>8. QED
  BY <1>1, <1>2, <1>3, <1>4, <1>5, <1>6, <1>7 DEF Next

\* A repeat is flagged exactly when the same request is among the last Window.
THEOREM FlagsExact == Spec => []FlagIsExact
<1>1. Init => Remembered /\ FlagIsExact
  <2> SUFFICES ASSUME Init PROVE Remembered /\ FlagIsExact
    OBVIOUS
  <2>1. recent = <<>> /\ known = {} /\ observed = <<>>
    BY DEF Init
  <2>2. Len(recent) = 0 /\ ToSet(recent) = {} /\ Len(observed) = 0
    BY <2>1 DEF ToSet
  <2>3. QED
    BY <2>1, <2>2, WindowAssumption DEF Remembered, FlagIsExact
<1>2. ASSUME TypeOK, Remembered, FlagIsExact, [Next]_vars
      PROVE  Remembered' /\ FlagIsExact'
  <2>1. CASE UNCHANGED guard /\ run'.print = run.print /\ run'.duplicate = run.duplicate
    BY <1>2, <2>1 DEF guard, Remembered, FlagIsExact, LastObserved
  <2>2. ASSUME NEW p \in Prints, Submit(p) PROVE Remembered' /\ FlagIsExact'
    <3>1. Observe(p) /\ observed' = Append(observed, p)
      BY <2>2 DEF Submit, Observe
    <3>2. run'.print = p /\ (run'.duplicate <=> p \in known)
      BY <1>2, <2>2, SubmitFields
    <3>3. LastObserved(Window)' = known
      BY <1>2, <3>1, CountsAreRecent
    <3>4. Remembered'
      BY <1>2, <3>1, ObserveStep
    <3>5. QED
      BY <3>2, <3>3, <3>4 DEF FlagIsExact
  <2>3. CASE Crash
    <3>1. recent' = <<>> /\ known' = {} /\ observed' = <<>>
      BY <2>3 DEF Crash
    <3>2. Len(recent') = 0 /\ ToSet(recent') = {} /\ Len(observed') = 0
      BY <3>1 DEF ToSet
    <3>3. QED
      BY <3>1, <3>2, WindowAssumption DEF Remembered, FlagIsExact
  <2>4. QED
    BY <1>2, <2>1, <2>2, <2>3, GuardSteps
<1>3. QED
  BY <1>1, <1>2, TypeCorrect, PTL DEF Spec
=============================================================================
