----------------------------- MODULE RuntimeRun -----------------------------
(***************************************************************************)
(* runtime/orchestrator.py, BlackFoxRuntime: run_prompt and execute_task   *)
(* carry one request from submission to report.  A run is sequential and   *)
(* every request gets a fresh task id, so its receipts file, its report    *)
(* and its artifacts are its own; what a run shares with the runs before   *)
(* it in the same process is the replay guard.                             *)
(*                                                                         *)
(* An exception that execute_task does not catch ends the run where it is: *)
(* the two ledgers are in memory and are lost, files and artifacts written *)
(* so far stay.  A crash does the same and empties the replay guard.       *)
(***************************************************************************)
EXTENDS RunGovernance, SequencesExt

CONSTANTS
  Prints,      \* the requests, as the guard fingerprints them
  Window,      \* TaskReplayGuard's window_size
  MaxHops,     \* the escalation budget
  MaxRuns      \* bound: requests submitted to one process

ASSUME WindowAssumption == Window \in Nat \ {0}
ASSUME MaxRunsAssumption == MaxRuns \in Nat

Content ==
  [hints : SUBSET {"network", "destructive", "context"},
   kind : {"architecture", "programming", "operations", "other"},
   labels : {"none", "few", "most"},
   images : BOOLEAN, deep : BOOLEAN, hops : Nat]

\* The approval entries come with the request's metadata.
ASSUME PrintsAssumption == Prints \subseteq [content : Content, approvals : SUBSET ApprovalEntries]

VARIABLES
  run,      \* the request in progress, or the last one
  recent,   \* the guard's deque of fingerprints
  known,    \* the keys of the guard's counts
  observed, \* every fingerprint this process has observed, in order
  receipts, \* the run's receipts file: what it holds, or NoReceipts
  report,   \* the run's report file: the status it states, or NoFile
  artifacts \* the pack's artifacts are on disk

vars == <<run, recent, known, observed, receipts, report, artifacts>>

guard == <<recent, known, observed>>
disk == <<receipts, report, artifacts>>

NoFile == "none"
NoReceipts == <<"absent">>

Stages == {"idle", "vision", "policy", "safeguard", "preflight", "gate", "dispatch",
           "pack", "materialize", "conclude", "reason", "persist", "report"}
Decisions == {"undecided", "allow", "require_review", "block"}
Verdicts == {"unverified", "passed", "failed", "needs_review"}
Events == {"policy_allowed", "policy_review_required", "policy_blocked",
           "approval_recorded", "approval_rejected", "execution_started",
           "execution_completed", "execution_failed", "verification_passed",
           "verification_failed"}

Runs ==
  [stage : Stages, print : Prints, duplicate : BOOLEAN, signals : SUBSET {"completed", "failed"},
   assessment : {NoAssessment} \union Dispositions, decision : Decisions,
   ledger : Seq(Events), executed : BOOLEAN, state : {"running", "completed", "failed"},
   verdict : Verdicts, escalated : BOOLEAN]

TypeOK ==
  /\ run \in Runs
  /\ recent \in Seq(Prints) /\ Len(recent) <= Window
  /\ known \subseteq Prints
  /\ observed \in Seq(Prints)
  /\ receipts = NoReceipts \/ receipts \in Seq(Events)
  /\ report \in {NoFile, "passed", "failed", "needs_review"}
  /\ artifacts \in BOOLEAN

Submitted(p, duplicate) ==
  [stage |-> "vision", print |-> p, duplicate |-> duplicate, signals |-> {},
   assessment |-> NoAssessment, decision |-> "undecided", ledger |-> <<>>,
   executed |-> FALSE, state |-> "running", verdict |-> "unverified", escalated |-> FALSE]

Init ==
  /\ \E p \in Prints : run = [Submitted(p, FALSE) EXCEPT !.stage = "idle"]
  /\ recent = <<>>
  /\ known = {}
  /\ observed = <<>>
  /\ receipts = NoReceipts
  /\ report = NoFile
  /\ artifacts = FALSE

content == run.print.content
satisfied == Satisfied(run.decision, run.print.approvals)

\* mutant: nothing is ever taken out of the counts.
ObserveUncounted(p) ==
  LET kept == IF Len(recent) = Window THEN Tail(recent) ELSE recent
  IN  /\ recent' = Append(kept, p)
      /\ known' = known \union {p}
      /\ observed' = Append(observed, p)

\* mutant: the deque is not bounded.
ObserveUnbounded(p) ==
  /\ recent' = Append(recent, p)
  /\ known' = IF Len(recent') < Window THEN known \union {p} ELSE ToSet(recent')
  /\ observed' = Append(observed, p)

\* TaskReplayGuard.observe: a deque of at most Window fingerprints.  The counts
\* are rebuilt from it only when it is full.
Observe(p) ==
  LET kept == IF Len(recent) = Window THEN Tail(recent) ELSE recent
  IN  /\ recent' = Append(kept, p)
      /\ known' = IF Len(recent') < Window THEN known \union {p} ELSE ToSet(recent')
      /\ observed' = Append(observed, p)

\* run_prompt and execute_task up to the two ledgers; without a route it raises.
Submit(p) ==
  /\ run.stage = "idle"
  /\ Len(observed) < MaxRuns
  /\ Observe(p)
  /\ run' = [Submitted(p, p \in known) EXCEPT
               !.stage = IF Route(p.content) = "none" THEN "idle" ELSE "vision"]
  /\ receipts' = NoReceipts
  /\ report' = NoFile
  /\ artifacts' = FALSE

(***************************************************************************)
(* The brain lanes.  The provider of a lane is absent, completes, refuses  *)
(* or fails; what counts later is which words the lane's trace contains.   *)
(***************************************************************************)
Replies == {"absent", "completed", "refused", "failed"}

LaneSignals(reply) ==
  CASE reply = "completed" -> {"completed"}
    [] reply \in {"refused", "failed"} -> {"failed"}
    [] OTHER -> {}

\* The advisory lanes turn a refusal into an assessment, traced without either word.
AdvisorySignals(reply) == IF reply = "refused" THEN {} ELSE LaneSignals(reply)

RunVisionLane(reply) ==
  /\ run.stage = "vision"
  /\ content.images \/ reply = "absent"
  /\ run' = [run EXCEPT !.stage = "policy", !.signals = run.signals \union LaneSignals(reply)]
  /\ UNCHANGED <<guard, disk>>

RunPolicyReasoningLane(reply) ==
  /\ run.stage = "policy"
  /\ run' = [run EXCEPT !.stage = "safeguard", !.signals = run.signals \union AdvisorySignals(reply)]
  /\ UNCHANGED <<guard, disk>>

\* Text that cannot be parsed is a reply that succeeded.
SafeguardSignals(reply) ==
  AdvisorySignals(IF reply.status \in {"structured", "unparseable"} THEN "completed" ELSE reply.status)

RunSafeguard(reply) ==
  /\ run.stage = "safeguard"
  /\ run' = [run EXCEPT !.stage = "preflight", !.assessment = Assessment(reply),
                        !.signals = run.signals \union SafeguardSignals(reply)]
  /\ UNCHANGED <<guard, disk>>

EvaluatePreflight ==
  /\ run.stage = "preflight"
  /\ LET decision == Preflight(content, run.assessment)
     IN  run' = [run EXCEPT !.stage = "gate", !.decision = decision,
                   !.ledger = <<PolicyReceipt(decision)>>
                                \o ApprovalReceipts(decision, run.print.approvals)]
  /\ UNCHANGED <<guard, disk>>

(***************************************************************************)
(* The gate: blocked, paused or executed.                                  *)
(***************************************************************************)
Stopped(state) ==
  /\ run' = [run EXCEPT !.stage = "conclude", !.state = state]
  /\ UNCHANGED <<guard, disk>>

StopBlocked ==
  /\ run.stage = "gate"
  /\ run.decision = "block"
  /\ Stopped("failed")

\* A paused task is marked completed.
PauseForApproval ==
  /\ run.stage = "gate"
  /\ run.decision = "require_review"
  /\ ~satisfied
  /\ Stopped("completed")

LoadPack ==
  /\ run.stage = "gate"
  /\ run.decision # "block"
  /\ satisfied
  /\ run' = [run EXCEPT !.stage = "dispatch"]
  /\ UNCHANGED <<guard, disk>>

InvokePrimaryBrain(reply) ==
  /\ run.stage = "dispatch"
  /\ run' = [run EXCEPT !.stage = "pack", !.signals = run.signals \union LaneSignals(reply),
                        !.ledger = Append(run.ledger, "execution_started")]
  /\ UNCHANGED <<guard, disk>>

PackReturns ==
  /\ run.stage = "pack"
  /\ run' = [run EXCEPT !.stage = "materialize", !.executed = TRUE]
  /\ UNCHANGED <<guard, disk>>

PackRaises ==
  /\ run.stage = "pack"
  /\ run' = [run EXCEPT !.stage = "conclude", !.executed = TRUE, !.state = "failed",
                        !.signals = run.signals \union {"failed"},
                        !.ledger = Append(run.ledger, "execution_failed")]
  /\ UNCHANGED <<guard, disk>>

\* The artifacts are written before the execution is recorded as completed.
MaterializePackArtifacts ==
  /\ run.stage = "materialize"
  /\ artifacts' = TRUE
  /\ UNCHANGED <<run, guard, receipts, report>>

RecordCompleted ==
  /\ run.stage = "materialize"
  /\ artifacts
  /\ run' = [run EXCEPT !.stage = "conclude", !.state = "completed",
                        !.signals = run.signals \union {"completed"},
                        !.ledger = Append(run.ledger, "execution_completed")]
  /\ UNCHANGED <<guard, disk>>

(***************************************************************************)
(* The tail that every branch shares: sentinel, evaluation, verification,  *)
(* escalation and the reasoning lane, then the two files.                  *)
(***************************************************************************)
sentinelError == SentinelError(run.decision, satisfied, run.executed)

Conclude ==
  /\ run.stage = "conclude"
  /\ LET evaluation == Evaluate(run.state, run.decision, satisfied, run.duplicate, run.executed)
         verdict == Verify(evaluation, run.decision, satisfied)
         score == EscalationScore(Route(content) # "few",
                                  Contradiction(run.state, run.signals), verdict,
                                  content.deep, run.decision = "require_review")
         escalate == ShouldEscalate(score, content.hops, MaxHops)
     IN  run' = [run EXCEPT !.stage = IF escalate THEN "reason" ELSE "persist",
                            !.verdict = verdict, !.escalated = escalate]
  /\ UNCHANGED <<guard, disk>>

RunReasoningLane(reply) ==
  /\ run.stage = "reason"
  /\ run' = [run EXCEPT !.stage = "persist", !.signals = run.signals \union LaneSignals(reply)]
  /\ UNCHANGED <<guard, disk>>

\* mutant: the ledger is persisted before the verification is recorded in it.
PersistUnverified ==
  /\ run.stage = "persist"
  /\ run' = [run EXCEPT !.stage = "report",
                        !.ledger = run.ledger \o VerificationReceipts(run.verdict)]
  /\ receipts' = run.ledger
  /\ UNCHANGED <<guard, report, artifacts>>

PersistGovernanceReceipts ==
  /\ run.stage = "persist"
  /\ LET ledger == run.ledger \o VerificationReceipts(run.verdict)
     IN  /\ run' = [run EXCEPT !.stage = "report", !.ledger = ledger]
         /\ receipts' = ledger
  /\ UNCHANGED <<guard, report, artifacts>>

WriteRunReport ==
  /\ run.stage = "report"
  /\ report' = RunStatus(run.verdict, sentinelError)
  /\ run' = [run EXCEPT !.stage = "idle"]
  /\ UNCHANGED <<guard, receipts, artifacts>>

\* An exception nothing catches: a pack that cannot be loaded, a file that
\* cannot be written, a brain or a pack whose error has no text (the records
\* of that failure refuse an empty message).  The pack may have run.
Raise ==
  /\ run.stage # "idle"
  /\ run' = [run EXCEPT !.stage = "idle", !.executed = run.executed \/ run.stage = "pack"]
  /\ UNCHANGED <<guard, disk>>

Crash ==
  /\ observed # <<>>
  /\ run' = [run EXCEPT !.stage = "idle", !.executed = run.executed \/ run.stage = "pack"]
  /\ recent' = <<>>
  /\ known' = {}
  /\ observed' = <<>>
  /\ UNCHANGED disk

Next ==
  \/ \E p \in Prints : Submit(p)
  \/ \E reply \in Replies :
       \/ RunVisionLane(reply) \/ RunPolicyReasoningLane(reply)
       \/ InvokePrimaryBrain(reply) \/ RunReasoningLane(reply)
  \/ \E reply \in SafeguardReplies : RunSafeguard(reply)
  \/ EvaluatePreflight \/ StopBlocked \/ PauseForApproval \/ LoadPack
  \/ PackReturns \/ PackRaises \/ MaterializePackArtifacts \/ RecordCompleted
  \/ Conclude \/ PersistGovernanceReceipts \/ WriteRunReport
  \/ Raise \/ Crash

Spec == Init /\ [][Next]_vars

-----------------------------------------------------------------------------

\* execute_task: the pack runs only for what may run, and only after the
\* ledger says so.  A request that leaves the machine never runs; a request of
\* high risk, or one the safeguard brain objects to, runs only with an approval;
\* and whatever runs has its policy receipt, and its approval's, before its start.
AuthorityPrecedesExecution ==
  run.executed =>
    /\ RiskLevel(content) # Critical
    /\ RiskLevel(content) = High \/ run.assessment >= Review =>
         /\ "approved" \in ApprovalStatuses(run.print.approvals)
         /\ SubSeq(run.ledger, 1, 3) =
              <<"policy_review_required", "approval_recorded", "execution_started">>
    /\ RiskLevel(content) < High /\ run.assessment < Review =>
         SubSeq(run.ledger, 1, 2) = <<"policy_allowed", "execution_started">>

LastObserved(n) ==
  {observed[i] : i \in {j \in DOMAIN observed : j < Len(observed) /\ j >= Len(observed) - n}}

\* TaskReplayGuard.observe: a request is flagged exactly when the same request
\* is among the Window observed before it by this process, whatever the guard's
\* own counts have forgotten or not yet forgotten.
FlagIsExact ==
  observed # <<>> => (run.duplicate <=> run.print \in LastObserved(Window))

PassedChain ==
  (IF run.decision = "allow" THEN <<"policy_allowed">>
   ELSE <<"policy_review_required", "approval_recorded">>)
    \o <<"execution_started", "execution_completed", "verification_passed">>

\* _finalize_run: a report on disk never says more than the receipts file beside
\* it, wherever the run was cut: passed means executed to the end, verified, with
\* its artifacts written and not a repeat; failed means a failed verification is
\* on record; needs_review means no verdict is.
ReportHasItsReceipts ==
  report # NoFile =>
    /\ receipts # NoReceipts
    /\ report = "passed" => receipts = PassedChain /\ artifacts /\ ~run.duplicate
    /\ report = "failed" => Last(receipts) = "verification_failed"
    /\ report = "needs_review" =>
         ToSet(receipts) \intersect {"verification_passed", "verification_failed"} = {}

\* TaskStateTraceContradictionCheck and BrainEscalationPolicy.evaluate: a run
\* that failed although one of its traces reports a completion goes to the
\* reasoning brain, unless the budget of hops is spent.
FailureAfterSuccessIsReconsidered ==
  run.verdict = "failed" /\ "completed" \in run.signals /\ content.hops < MaxHops
    => run.escalated

\* docs/governed-execution-contract.md:289, of an approval: it "does not count
\* when: the status is missing or invalid".
MissingStatusDoesNotCount ==
  run.executed /\ run.decision = "require_review" => "approved" \in run.print.approvals
=============================================================================
