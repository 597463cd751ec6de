--------------------------- MODULE RunGovernance ----------------------------
(***************************************************************************)
(* The decisions of one run of the runtime: what a request asks for, its   *)
(* risk, what the safeguard brain adds to it, the policy decision, the     *)
(* approvals that came with the request, and after the run what sentinel,  *)
(* evaluation, verification and escalation conclude.  Nothing here has a   *)
(* state: RuntimeRun applies these operators in the order of execute_task. *)
(*                                                                         *)
(* Risk levels and safeguard dispositions are numbers in the order that    *)
(* _risk_rank and _max_disposition give them.                              *)
(***************************************************************************)
EXTENDS Integers, Sequences

Low == 1
Moderate == 2
High == 3
Critical == 4

NoAssessment == 0 \* the safeguard lane was skipped or its provider failed
Allow == 1
Review == 2
Block == 3

Dispositions == {Allow, Review, Block}

Larger(a, b) == IF a >= b THEN a ELSE b

(***************************************************************************)
(* Before the run.                                                         *)
(***************************************************************************)

\* How confidently the switchboard routes the request, with the two packs that
\* the runtime registers: a kind that a pack supports is certain, labels are
\* not, and nothing else matches.
Route(content) ==
  IF content.kind \in {"architecture", "programming", "operations"} THEN "certain"
  ELSE content.labels

\* hints: which families of words or labels the request contains.
ActionKind(content) ==
  IF "network" \in content.hints THEN "network_egress"
  ELSE IF "destructive" \in content.hints THEN "state_mutation"
  ELSE "artifact_export"

RiskLevel(content) ==
  CASE ActionKind(content) = "network_egress" -> Critical
    [] ActionKind(content) = "state_mutation" -> High
    [] OTHER -> IF content.kind = "operations" THEN High
                ELSE IF content.kind = "programming" \/ "context" \in content.hints
                THEN Moderate
                ELSE Low

\* A reply of the safeguard provider: the disposition it states, and the one
\* its findings imply (NoAssessment when it lists none).
SafeguardReplies ==
  [status : {"structured"}, said : Dispositions, found : {NoAssessment} \union Dispositions]
    \union
  [status : {"absent", "failed", "refused", "unparseable"}, said : {Allow}, found : {NoAssessment}]

Assessment(reply) ==
  CASE reply.status \in {"absent", "failed"} -> NoAssessment
    [] reply.status = "refused" -> Block
    [] reply.status = "unparseable" -> Review
    [] OTHER -> Larger(reply.said, reply.found)

MergedRisk(risk, assessment) ==
  IF assessment >= Review THEN Larger(risk, High) ELSE risk

Decide(kind, risk, requiresApproval) ==
  IF kind = "network_egress" \/ risk = Critical THEN "block"
  ELSE IF risk = High \/ requiresApproval THEN "require_review"
  ELSE "allow"

\* mutant: the safeguard's assessment is only reported.
PreflightAlone(content, assessment) ==
  Decide(ActionKind(content), RiskLevel(content), RiskLevel(content) = High)

Preflight(content, assessment) ==
  LET risk == RiskLevel(content)
  IN  Decide(ActionKind(content), MergedRisk(risk, assessment),
             risk = High \/ assessment >= Review)

ApprovalEntries == {"approved", "rejected", "canceled", "pending", "unstated", "invalid"}

\* An entry without a status counts as approved; one with an unknown status is
\* dropped.
ApprovalStatuses(entries) ==
  {IF e = "unstated" THEN "approved" ELSE e : e \in entries \ {"invalid"}}

Satisfied(decision, entries) ==
  decision = "require_review" => "approved" \in ApprovalStatuses(entries)

PolicyReceipt(decision) ==
  CASE decision = "allow" -> "policy_allowed"
    [] decision = "require_review" -> "policy_review_required"
    [] OTHER -> "policy_blocked"

ApprovalReceipts(decision, entries) ==
  IF decision # "require_review" THEN <<>>
  ELSE IF Satisfied(decision, entries) THEN <<"approval_recorded">>
  ELSE IF ApprovalStatuses(entries) \intersect {"rejected", "canceled"} # {}
  THEN <<"approval_rejected">>
  ELSE <<>>

(***************************************************************************)
(* After the run.                                                          *)
(***************************************************************************)

\* The two default checks that report an error.
SentinelError(decision, satisfied, executed) ==
  executed /\ (decision = "block" \/ (decision = "require_review" /\ ~satisfied))

\* mutant: a failed task is not compared with its traces.
ContradictionOnCompletion(state, signals) ==
  state = "completed" /\ "failed" \in signals

\* The default check that only warns: signals are the words of the task's traces.
Contradiction(state, signals) ==
  \/ state = "completed" /\ "failed" \in signals
  \/ state = "failed" /\ "completed" \in signals

Evaluate(state, decision, satisfied, duplicate, executed) ==
  IF state = "failed" \/ decision = "block" \/ SentinelError(decision, satisfied, executed)
  THEN "failed"
  ELSE IF duplicate \/ (decision = "require_review" /\ ~satisfied) THEN "needs_review"
  ELSE "passed"

Verify(evaluation, decision, satisfied) ==
  IF evaluation = "failed" THEN "failed"
  ELSE IF evaluation = "needs_review" \/ (decision = "require_review" /\ ~satisfied)
  THEN "needs_review"
  ELSE "passed"

RunStatus(verification, sentinelError) ==
  IF sentinelError THEN "failed" ELSE verification

VerificationReceipts(verification) ==
  CASE verification = "passed" -> <<"verification_passed">>
    [] verification = "failed" -> <<"verification_failed">>
    [] OTHER -> <<>>

EscalationScore(confident, contradiction, verification, deep, reviewed) ==
    (IF confident THEN 0 ELSE 30) + (IF contradiction THEN 35 ELSE 0)
  + (IF verification = "failed" THEN 35 ELSE 0) + (IF deep THEN 60 ELSE 0)
  + (IF reviewed THEN 15 ELSE 0)

ShouldEscalate(score, hopsUsed, hopsAllowed) ==
  score >= 50 /\ hopsUsed < hopsAllowed
=============================================================================
