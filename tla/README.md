# A verification project for IX-BlackFox

IX-BlackFox is a control plane between AI agents and the tools they use.  An
agent's request is authenticated, evaluated against delegated authority and
evidence, authorized by a signed receipt, sent to a provider once, and answered
with a second signed receipt.  This directory holds TLA+ models of the parts of
it in which order, concurrency and failure matter, the TLC runs that check them
and the TLAPS proofs about them.  Paths below are relative to
`src/ix_blackfox/` unless they start with `docs/`.

## 1. The system

### Components, their state and their operations

| Component | State | Operations | How it interacts |
| --- | --- | --- | --- |
| Operation coordinator (`autonomy/`) | one SQLite row per operation: plan, epoch, facts, approval, budgets, an attempt and an observation per step; a journal of events | propose, subject, dispatch; inspect, approve, conditions, suspend, close, observation-target, observe | calls the gateway under a *permit*, whose `guard` holds the operation's write transaction across the provider call |
| Integration mesh, commands (`integration_mesh/runtime.py`, `ledger.py`) | mesh database: a row per request key (reserved or complete), the recorded result | dispatch; inspect-request | claims evidence, signs receipts, calls the provider |
| Integration mesh, audit relay (`integration_mesh/audit.py`, `cli.py`) | mesh database: a cursor per sink, an outbox of events with state, attempts, deadline and lease token | sync, deliver_one, requeue | reads the receipt stream, posts to external sinks |
| Authority receipts (`live_gateway/receipts.py`, `authority_crypto/`) | authority database: the chain of receipts and the single-use evidence claimed; per process a replayed copy, its generation and policy | append, claim, get, page, verify, export | shared by the gateways of a deployment; keys come from a trust policy file |
| Live authority gateway (`live_gateway/service.py`, `authority.py`, `evidence.py`) | configuration; evidence files | handle_api, handle_mcp, operation requests | decides authority, drives the three components above |
| Kernel (`kernel/`) | lifecycle status; versioned shared state; task records | initialize, start, stop; put, compare_and_set, delete | used by the runtime |
| Event bus, switchboard (`bus/`, `switchboard/`) | subscribers and history; capabilities | publish, subscribe; register, route | used by the runtime |
| Runtime (`runtime/orchestrator.py` and lanes) | replay window of the process; per run the traces, a receipt ledger, a receipts file, artifacts and a report | run_prompt, execute_task | drives packs, brains, governance, sentinel, memory, vault |
| Control plane and repair loops (`runtime/control_plane.py`, `*repair*.py`, `run_bundle.py`) | attempts of one repair; the ledger of the process; the bundle and manifest of a run id | run_programming_repair, run_authored_programming_repair | drive authoring and tools over one workspace |
| Governance (`governance/`) | approval requests and votes | submit, vote, resolve, record | used by the runtime |
| Agents, tools, forge, sandbox | registries, workspaces, tickets | authorize, apply patches, run commands | used by the runtime and the command line |
| Brains, packs, memory, vault, sentinel, eval, observability | registries, append-only stores, health and budget counters | register, route, append, evaluate | used by the runtime |
| Authoring (`authoring/`) | none: a request, a context, proposals and their receipts | parse, compile, evaluate, rank | called by the authored repair; reads the workspace |
| Operating, assurance, audit, review board, reliability, repository, workflow | documents and records | parse, build, verify, report | batch commands |

### What is hard

* **Several writers, several databases.**  Gateway processes share three SQLite
  files (operations, mesh, authority).  No transaction spans two of them or the
  provider.  A dispatch is a chain of eight or more separately durable steps,
  and it can stop between any two.
* **Ambiguity.**  A lost answer, a failed commit after the call and a dead
  process all leave a command that may have taken effect.  Such a command must
  stay blocked, never be repeated, and never be reported as not attempted.
* **Authority that moves.**  Approvals, conditions, evidence, policies and keys
  expire or are withdrawn while a dispatch is under way.
* **Optimistic appends.**  Receipts are signed outside any transaction, by
  processes that each keep a copy of the chain.
* **A workspace that is not one's own.**  A patch is compiled from what the files
  hold, judged, ranked, and applied later, file by file, while editors and other
  processes write to the same tree.
* **Evidence of a run.**  Receipts, artifacts and a report are written in several
  steps, any of which may fail, and a reader later takes them for the truth.
* **Many gates, one execution.**  Risk, policy, approvals, advisories, replay and
  the sentinel each look at a part of a request, at different times.
* **Leases.**  A relay may stall beyond its lease and report late.

What makes each component correct is listed with its properties in section 4;
`PROJECT.json` lists the hazards line by line.

## 2. Modules

| Module | Models | Role |
| --- | --- | --- |
| `ProviderEffects` | what an operation promises to the provider | abstract specification |
| `OperationCoordinator` | `autonomy/` with the managed path through the gateway, the mesh ledger and the receipts | implements `ProviderEffects` |
| `OperationCoordinator_proofs`, `ReceiptStream_proofs`, `MeshDispatch_proofs`, `AuditRelay_proofs`, `RuntimeRun_proofs`, `RepairRun_proofs` | | theorems about the module each is named for |
| `OperationEffects_proofs`, `OperationEvidence_proofs` | | theorems about `OperationCoordinator`: its effects on the provider, and its evidence |
| `ReceiptLog` | the chain an auditor replays (`VerifiedStreamState`) | abstract specification |
| `ReceiptStream` | `AuthorityReceiptStore` in several processes | implements `ReceiptLog` |
| `IdempotentCommands` | what a request key promises its callers | abstract specification |
| `MeshDispatch` | `dispatch` for unmanaged callers | implements `IdempotentCommands` |
| `AuditRelay` | sync, delivery and requeue | |
| `KernelLifecycle` | `BlackFoxKernel` | |
| `RunGovernance` | routing, risk, policy, approvals, safeguard, sentinel, verification, escalation | pure decisions, used by `RuntimeRun` |
| `RuntimeRun` | `run_prompt` and `execute_task` | composes `RunGovernance` with the replay guard, the packs, the brains and the files |
| `PatchAuthoring` | parser, compiler, policy gate, hypotheses, ranker | pure decisions, used by `RepairRun` |
| `RepairRun` | the control plane, the authored repair, the repair loop, the patch tool, the test tool, the bundle | composes `PatchAuthoring` with the workspace |
| `MCOperationCoordinator`, `MCReceiptStream`, `MCMeshDispatch`, `MCRuntimeRun`, `MCRepairRun` | | constants for TLC |

Definitions keep the names of the code where they can: `_check_ready` is
`Ready`, `_guard` is `EnterGuard`/`GuardRefuses`/`CommitAttempt`/
`RollbackAttempt`, `deliver_one` is `LeaseHead`/`Exhaust`/`Send`/`Report`,
`apply_plan` is `CompareChange`/`WriteChange`, once for each file.
Definitions marked *mutant* are faulty variants of the definition after them;
no specification uses them.  They show, one for each property, that the property
notices a plausible bug.

### OperationCoordinator

One operation, after its plan was proposed.  `op`, `steps` and `binding` are the
row; `worker` holds, for each dispatch, the next step of the code and the
response it will report; `ledger` and `receipts` are the two other databases;
`gate` is the write lock while `_guard` keeps its transaction open; `calls` is a
history variable.  An action is a transaction or a write to another database.
Evidence is a record of its target, verdict and production time.  Digests are
the values they are computed from: `Snapshot` is the epoch, facts, expiry and
policy over which `_snapshot` computes one.  A request id is a digest over the
binding, which contains the attempt number, so that number stands for it.
`Observe` chooses any evidence an observer can have signed since the
reservation.  `Redeploy` restarts the gateways with another operation policy.
Left out: the text checks of a proposal, authentication, the journal (`binding`
keeps what a later step reads of it) and everything inside the authority
decision.

### ReceiptStream

Each process has a store with a copy of the chain, the policy under which the
copy was checked, and `dirty`, which says that `PRAGMA data_version` has moved:
another connection has committed.  Receipts are records whose signature is the
key; the predecessor digest is the place in the sequence.  The lock of a store
serializes its callers (`Free`).  Signing is a step of its own, so commits,
revocations and crashes fall before, during and after it.  The policy is a file of
its own, which SQLite's lock does not cover.  So the write transaction has two
steps: `Compare` begins it, which waits for that of another process (`WriteFree`),
and compares generation and policy; `Commit` inserts and commits.  Others cannot
write receipts in between, but the policy may be replaced.  `began` is history: the
standing of each key that the write transaction under way found.  The fixed limit
of 16 tries is `MaxTries`.  A policy changes by listing a key or revoking it for
good.

### MeshDispatch

Callers present request keys with subjects.  Each database write is an action.
The stream of receipts is a set here, `ReceiptStream` being its own model.
Whether authority holds is not modelled: `Accept` and `Revalidate` may succeed
or, through `Fail`, not.  A result is replayed under the same test as in
`response_for`.

### AuditRelay

One sink, several relays.  The digest of a receipt fixes all receipts before it,
so it is the sequence of their bodies, and a stream restored from a backup that
grows differently has different digests.  Deadlines count down in `Tick`.  A relay
runs as `cli.py` does: one `Sync`, then deliveries (`Deliver`) while they are
accepted, and the limit of a run is left open.  `verifiable` says that the trust
policy can be read and verifies the stream; it turns at any time
(`PolicyTurns`).  While it is false, or the source does not extend the cursor, a
sync raises and its run ends before any delivery, which changes nothing: such a run
is a stutter.
`wire` holds what was sent: each event may arrive late, repeatedly or never.
The sink deduplicates by event id, as its contract says.

### KernelLifecycle

The three locked sections of `start` are three actions.

### RuntimeRun

One process, one request after another.  `run` is the task in progress with its
traces, its ledger and its verdict; `receipts`, `report` and `artifacts` are what
it has put on disk; `recent` and `known` are the replay guard's deque and the
keys of its counts, `observed` a history variable.  A lane, a gate or a write is
an action; `Raise` is an exception that `execute_task` does not catch, `Crash` a
process that dies.  A request is what the code finds in it (which hints its words
give, which kind of work they ask for, how many labels of the escalation policy
apply), not its words.  Every task id is fresh, so two runs share no file.
Brains and packs answer anything their result types admit, or raise.

### PatchAuthoring and RepairRun

`files` and `marker` are the workspace, `job` the run, `ledger` the repair
receipts of the process, `bundle` and `manifest` the directory of the run id.
`theirs`, `edited`, `written` and `tested` are history.  An authored run reads a
context, parses all responses, compiles them one by one, decides, and hands one
patch to the same loop an explicit run uses.  Between any two steps others may
write a file or move the marker (`Edit`, `MoveMarker`).

A file's text is a sequence of snippets, none for no file: an empty file is not
told from an absent one.  What patterns find in paths, proposals and objectives
are labels, and a size is small, medium or large.  A path that is a link resolves
to a file or to `Outside`; where links lead stays as it is.  The patch tool takes
two steps for each file.  `CompareChange` reads it, compares it and settles the
text to be written; `WriteChange` writes, and deletes where that text is none,
whatever the file holds by then.  No lock is held in between.  A write may be cut
short by an error or a crash (`WriteFails`, `LeaveTorn`), leaving the old text or a
beginning of the new one, which may break off inside a snippet (`Fragment`).
`torn` is history: the files that others wrote between a comparison and its write,
and those whose write was cut short, until others write them again.  A change is of
one of three modes: for one exact text; for any text (`before_text_optional`, or a
deletion that states no text); or for the one occurrence of a snippet
(`replace_text`).  The root's marker is looked for before the first file and again
for the result, when all are written.  Reading the files of one proposal is one
step, and so is a run of the tests; receipts of tools are counted as an artifact
without content; authoring receipts are the outcome of each response.  Scores are ten times the code's, in integers.  The
check for equal patch digests never fires, since a digest covers a random id, and
is left out.  Both runs use one run id: nothing refuses that, and separate ids
share nothing but the workspace.

## 3. Runs

| Run | Instance | Shows |
| --- | --- | --- |
| `OperationChain` | 1 worker, two steps, one depending on the other, 2 attempts, 3 epochs, 3 instants, evidence window 1 | approvals, evidence, conditions and close against the steps of a dispatch |
| `OperationRace` | 2 workers, 2 independent steps, costs 1 and 2 of 3, 2 attempts, 3 epochs | racing, crashing workers; budgets; refinement |
| `OperationLiveness` | 2 workers, 1 redeployment | every dispatch ends, under fairness |
| `OperationTransportState` | 1 worker | finding 1 |
| `ReceiptStream` | 2 processes with different keys, 3 requests, two with the same evidence, 2 tries | optimistic appends under revocation, before and after the last comparison, and crashes |
| `MeshDispatch` | 2 callers, 2 keys, 2 subjects, 2 approvals, one unusable result | request keys and single-use evidence |
| `AuditRelay` | 2 relays, 2 receipts with 2 bodies, 2 attempts, lease 1, delay 1 | runs that sync and deliver, stalls, restore, a policy that fails, requeue, with liveness |
| `KernelStop` | 2 threads | finding 2 |
| `RuntimeRun` | 8 requests, 4 runs, window 2, 1 hop of escalation | every way through the gates, with exceptions and crashes; the replay window; the report against its receipts |
| `RuntimeApproval` | the same | finding 3 |
| `RepairRun` | 11 requests, 2 runs of 2 attempts, 3 files, a link, a refused path, 1 change by others | authored and explicit repairs against a workspace that moves between any two steps, and writes cut short; the bundle of a run id used twice |
| `RepairStale` | the same | finding 4 |

Why the bounds are enough for the questions asked:

* Two attempts and two steps let a step be tried twice, or two steps compete;
  the budgets are then exactly exhausted (`OperationRace`: cost 3 of 3) or
  exceeded by one.  Three epochs let an approval be given, withdrawn and given
  again, with an observation of each epoch.  Three instants let evidence become
  stale and a plan expire.
* Two workers, relays or processes are one that acts and one that interferes.
  What needs a third one, in the operation, is covered by the proof.
* Three requests make a third receipt land behind two conflicting ones; two
  tries let an append lose once and win, or lose for good.
* Two receipts and page size 1 give a head, a successor and a cursor in
  between; a lease of 1 with ticks at any time lets a relay overrun it.

* Four requests fill a window of two, let a fingerprint leave it and come back;
  the eight requests differ in every gate's answer.
* The eleven requests hold two proposals under one id, a link to a reviewed file,
  a tie of the ranker, a response that is unreadable, one that makes the parser
  raise, one beyond the limit, two changes of one file, an empty answer, every
  disposition, and explicit patches of all three modes that succeed, are refused at
  their first or second file, or run out.  One change by others is enough to make any step stale;
  two runs are enough to overwrite a bundle.

Fairness is assumed only for work that a thread or a scheduler has started: a
dispatch in service goes on (`OperationCoordinator!FairSpec`).  For the relay
(`AuditRelay!FairSpec`) four things: time passes; some relay is run again and again
(`docs/wave17-enterprise-integration-mesh.md:94`), so that a sync which stays
possible is made; a run that has leased an event goes on, since requests to a sink
time out; and not every run ends between its sync and its first transaction, which
is strong fairness of `Deliver`, the runs being new ones each time.  The fairness
of each relay is not assumed: any one may stall for good.  It does not make
deliveries happen while syncs fail: `Deliver` needs a run that has synced, and
`NothingStuck` promises progress only if from some time on the policy verifies the
stream and the source extends the cursor.  Nobody has to approve, observe, requeue,
restore, mend a policy or accept anything.  Deadlock is checked in `RuntimeRun`
and not elsewhere: an
operation whose budgets are spent, a stream whose keys are revoked, a relay
with nothing to deliver and a workspace without its marker rightly stop.

## 4. Properties

Operation: `AtMostOneCallPerStep`, `PhaseIsTruthful`, `ReceiptsBracketCall`,
`OneUnreconciledAttempt`, `VerifiedClosure`, `ReservationOwned` (invariants);
`CallUnderApproval`, `ObservationRetained`, `ClosedIsFinal` (actions);
`DispatchEnds` (liveness); `ImplementsProviderEffects` (refinement).
Receipts: `CopyIsCurrent`, `ProofOfCall`, `AppendUnderTrust`,
`ImplementsReceiptLog`.  Mesh: `ResultsAreProven`, `UnresolvedStaysBlocked`,
`ImplementsIdempotentCommands`, and the `MeshInvariant` their proofs rest on.
Relay: `OrderedDelivery`, `DeliveredMeansReceived`, `DeliveredIsFinal`,
`HeadOfLine`, `NothingStuck`.
Runtime: `AuthorityPrecedesExecution`, `FlagIsExact`, `ReportHasItsReceipts`,
`FailureAfterSuccessIsReconsidered`.  Repair: `ReviewedFilesUntouched`,
`NoLostEdit`, `VerifiedMeansTested`, `BundleTellsOneRun`,
`EveryResponseIsAccounted`.
Each is stated in words above its definition.

### Findings

1. **An attempted step may be recorded as not attempted.**  After the provider
   has answered and the outcome is signed, `response_for`
   (`integration_mesh/runtime.py:143`) reads the trust policy again.  If that
   raises `OSError`, `_proof_unavailable` (`live_gateway/service.py:483`) takes
   it for a failure before the call.  The step stays blocked (the response is a
   503, so `_finish_dispatch` frees nothing), but `transport_state` says
   `not_attempted`, which `docs/wave18-governed-autonomy.md:48` excludes.
2. **A stopped kernel can be started.**  `start` looks at the status, releases
   the lock, and later sets `RUNNING` without looking again
   (`kernel/runtime.py:139`), against its own rule at line 134.

3. **An approval without a status counts.**  `runtime/approval.py:140` reads a
   missing status as `approved`; `docs/governed-execution-contract.md:289` says
   that an approval does not count when "the status is missing or invalid".
4. **A stale patch may execute in part.**  `apply_plan`
   (`tools/patch_apply.py:332`) checks and writes one file after the other; a
   patch whose second file is stale is refused with its first file written, and
   nothing puts it back.  `docs/wave3-threat-model.md:375`: "A stale patch must not
   execute."

### Observations that no run states

* `autonomy/coordinator.py:584` says no other reserved attempt can exist in the
  guard.  One can: a worker dies after recording its authorization, the attempt
  is observed as recovered, and another step is reserved.  No decision relies
  on the comment.
* `integration_mesh/audit.py`: an exhausted budget and `requeue` leave the lease
  token in the row.  A stalled relay can then mark a dead row delivered (the
  sink did accept it), or turn a requeued one dead without a new attempt.
  `docs/wave17-enterprise-integration-mesh.md:96` says a dead event blocks "until
  the operator resolves it".  The model does the same, and no property forbids it.
* While the trust policy is unreadable, or the restored source does not extend the
  cursor, every run of a relay ends at its sync (`integration_mesh/cli.py:75`):
  events copied earlier are not delivered either.
* `live_gateway/receipts.py:229` compares the policy before and after signing; a
  policy that is replaced and put back in between goes unnoticed.  The model
  assumes the documented rotation, under which this cannot happen.
* The policy file may be replaced between that comparison and the commit
  (`live_gateway/receipts.py:234`).  The receipt is then committed by a signer that
  has just been revoked, and the next append finds it.  The model has this;
  `AppendUnderTrust` therefore speaks of the policy that the write transaction found
  when it began.
* Between the comparison of a file (`tools/patch_apply.py:419`) and its write (line
  445; 384 and 392 for a new file, 468 and 487 for a deletion) an edit by others is
  overwritten unseen.  A write that is cut short leaves the file emptied or
  half written.  The model has both; `NoLostEdit` promises nothing of such a file
  until others write it again.
* A repeated request that governance allows is executed, gets no verification
  receipt, and its report says "Run paused pending governance approval."
* A pack or brain that raises with an empty message makes `mark_failed`, or the
  failure record, raise in turn: the run ends without a report.
* Approval entries are rebound to the request they come with, and an approval
  outweighs a rejection of the same request.
* `contains_authorable_hypothesis` (`authoring/hypotheses.py:267`) asks for any
  hypothesis: an objective in unsafe words is authored for when a failing test
  founds another one, although the unsafe one says "Do not author a patch for
  unsafe objective language."
* One proposal with a blank note, or with two changes of one file, raises a
  `ValueError` that ends the authored run; the other candidates are lost
  (`runtime/authoring_repair.py:502`).  Responses beyond `max_raw_proposals`
  leave no receipt.
* `authoring_evidence` given as a generator is used up by the first `tuple()`; the
  gate then sees no evidence.
* A patch whose tests fail stays applied, and with `stop_on_blocked_patch=False` a
  blocked patch still ends the loop, as failed.
* A bundle is written in place: `BundleTellsOneRun` holds because the digests of
  the manifest tell a mixed directory from a whole one, not because it is refused.

## 5. Proofs

`OperationCoordinator_proofs` proves, for every plan, every number of workers
and every value of the bounds, from the assumptions on the constants alone
(`PlanAssumption`, `LimitAssumption`, `NoneAssumption`):

| Theorem | States |
| --- | --- |
| `TypeCorrect` | `Spec => []TypeOK` |
| `DispatchCorrect` | `Spec => []DispatchInvariant` |
| `SingleCall` | `Spec => []AtMostOneCallPerStep` |
| `TruthfulPhase` | `Spec => []PhaseIsTruthful` |

`AtMostOneCallPerStep` is not inductive: a state in which two workers hold the
same request satisfies it and a step later does not.  `DispatchInvariant` adds
what the code relies on without saying so, in four parts.  `Ownership`: a
dispatch in flight has a request of its own, which is the attempt of its step,
reserved or attempted.  `Numbering`: requests are exactly the attempts charged,
each sealed once, and later numbers are untouched.  `Sending`: a request that
was sent is still the attempt of its step and is not free; an attempted step was
sent.  `Standing`: the place of a worker in the code says whether its request
was sent, and a worker about to report a clean denial has not sent it.  `TypeOK`
and `DispatchInvariant` are together inductive, one lemma per action; TLC checks
the invariant in `OperationRace`.  The two safety theorems follow from it
without another induction.

`OperationEffects_proofs` and `OperationEvidence_proofs` build on it, from the
same assumptions:

| Theorem | States |
| --- | --- |
| `ReservationKept` | `Spec => []ReservationOwned` |
| `CoordinatorImplementsEffects` | `Spec => ImplementsProviderEffects` |
| `CallsBracketed` | `Spec => []ReceiptsBracketCall` |
| `CallApproved` | `Spec => CallUnderApproval` |
| `ClosedForGood` | `Spec => ClosedIsFinal` |
| `EvidenceKept` | `Spec => ObservationRetained` |
| `OneUnreconciled` | `Spec => []OneUnreconciledAttempt` |
| `VerifiedRestsOnVerified` | `Spec => []VerifiedClosure` |

The refinement maps `Reserve` to `Hold`, `ProviderCall` to `Send`,
`CommitAttempt` to `Settle`, a `Finish` that frees the step to `Release`, and all
else to a stutter.  `BracketInvariant` adds to `ReceiptsBracketCall` what the
place of each worker says about its receipts, ledger row and mark, since the
authorization is written in three databases some steps before the call.
`Guarded`: a worker between the guard and the commit holds the gate, and until its
call the approval, the conditions and the verified dependencies that the guard
checked still stand.  Only the clock may have moved: a window that was open when
the guard looked can have passed when the call goes out, which is why
`CallUnderApproval` does not speak of the time.
`ObservationInvariant`: only a retained attempt has an observation, of a target
that the present epoch and policy have reached; so a new epoch or policy makes
every earlier observation stale at once, and a reservation, which takes a step
that is not retained, has none to discard.  `EvidenceSteps` splits the steps of
the operation into those that leave the evidence, those that move its target,
observations and reservations; the last three theorems follow along this split.

`MeshDispatch_proofs` proves, for all sets of callers, request keys, subjects,
evidence and results, from `MeshAssumption`:

| Theorem | States |
| --- | --- |
| `TypeCorrect` | `Spec => []TypeOK` |
| `MeshCorrect` | `Spec => [](TypeOK /\ MeshInvariant)` |
| `ProvenResults` | `Spec => []ResultsAreProven` |
| `UnresolvedBlocked` | `Spec => UnresolvedStaysBlocked` |
| `MeshImplementsCommands` | `Spec => ImplementsIdempotentCommands` |

That a result has its proof is not inductive: the proof is written in three
databases, several steps before the result is returned, and other dispatches run
in between.  `MeshInvariant` says in five parts why they cannot disturb it.
`KeyOwned`: a dispatch past its reservation is the only one of its key, and the
row is reserved for its subject.  `EvidenceOwned`: evidence past its claim is
used up, and belongs to one dispatch or one sending.  `CallStanding`: the place
of a dispatch says whether its key was sent, which receipts are signed and
whether the ledger has the authorization.  `RowStanding`: a sent key has one
sending, of the subject its row is bound to.  `Recorded`: a completed row is
proven, and replays and returned results agree with it.  The refinement maps
`Reserve` to `Bind`, `Call` to `Send`, `Complete` and `Replay` to `Return`, and
every other action to a stutter.

`ReceiptStream_proofs` proves, for any number of processes, requests, keys and
evidence and any limit of tries, from `StreamAssumption`:

| Theorem | States |
| --- | --- |
| `StreamCorrect` | `Spec => []StreamInvariant` |
| `TypeCorrect` | `Spec => []TypeOK` |
| `CurrentCopies` | `Spec => []CopyIsCurrent` |
| `CallsProven` | `Spec => []ProofOfCall` |
| `AppendTrusted` | `Spec => AppendUnderTrust` |
| `StreamImplementsLog` | `Spec => ImplementsReceiptLog` |

An append is checked, signed, compared and inserted in four steps, with
commits, revocations and crashes between them, so neither the refinement nor the
trust follows from the copies alone.  `Serving`: an append under way belongs to a
waiting request of its own process, so no other step changes what it will
append.  `Checked`: what is signed was accepted after the copy it is signed on,
which from the comparison on is the table, because the transaction keeps others
from writing.  `Older`: a standing only advances, so the policy of a copy, if it is
in force at the comparison, was in force ever since the copy was checked; this is
where the proof needs that a policy never returns.  `Inserting`: there is one write
transaction at a time, its copy is current, and `began`, the policy of that copy,
trusts the signer to the commit, whatever has become of the file.
`Endorsed`: a copy is trusted by the policy it was checked under, its own
signer included.  `Standing`: the place of a request says which receipts the
stream holds of it.

`AuditRelay_proofs` proves, for any number of relays, any outbox limit, lease and
retry limit, from the assumptions of `AuditRelay`:

| Theorem | States |
| --- | --- |
| `RelayCorrect` | `Spec => []RelayInvariant` |
| `TypeCorrect` | `Spec => []TypeOK` |
| `DeliveryOrdered` | `Spec => []OrderedDelivery` |
| `DeliveredReceived` | `Spec => []DeliveredMeansReceived` |
| `DeliveredFinal` | `Spec => DeliveredIsFinal` |
| `HeadFirst` | `Spec => HeadOfLine` |

`Copied`: row `n` of the outbox is receipt `n` of the stream that was copied.
`Released`: a delivered row has no lease and no delay.  `InLine`: a delivery under
way, and every event on the wire, has only delivered rows before it, however long
ago its lease was lost; this is what carries a late arrival.  `Grows` states what
no step does to the outbox: remove a row, reorder rows, or change a delivered one.

`RuntimeRun_proofs` proves, for all requests, replay windows and hop budgets and
any number of runs, from `WindowAssumption` and `PrintsAssumption`:

| Theorem | States |
| --- | --- |
| `RunCorrect` | `Spec => [](TypeOK /\ RunInvariant)` |
| `TypeCorrect` | `Spec => []TypeOK` |
| `ExecutionAuthorized` | `Spec => []AuthorityPrecedesExecution` |
| `FailuresReconsidered` | `Spec => []FailureAfterSuccessIsReconsidered` |
| `ReportsHonest` | `Spec => []ReportHasItsReceipts` |
| `FlagsExact` | `Spec => []FlagIsExact` |

None of the properties is inductive: each looks at the end of a pipeline whose
earlier stages earned it.  `RunInvariant` follows the place of the run.
`Deciding`: nothing has run before the gate, and the decision is the one its
request and its assessment call for.  `Recording`: how far the ledger has come at
each place, receipt by receipt, and that it holds no verdict before the last.
`Ending`: a run that is judged as completed, if governance let it execute, has its
completion on record and its artifacts on disk.  `Judging`: the verdict is the
one that the run has earned, and it is not lost in the stages that follow.
`Reporting`: there is no report before the receipts it rests on.  `FlagsExact`
has an invariant of its own, `Remembered`: the deque is the end of what was
observed, and the counts are its keys; a deque that is not yet full has forgotten
nothing, which is why counts that are rebuilt only when it is full stay exact.

`RepairRun_proofs` proves, for all requests, workspaces, labels, links and limits,
and any number of runs and of changes made by others, from the assumptions of
`PatchAuthoring` and `RepairRun`:

| Theorem | States |
| --- | --- |
| `RepairCorrect` | `Spec => [](TypeOK /\ RepairInvariant)` |
| `TypeCorrect` | `Spec => []TypeOK` |
| `ReviewedFilesKept` | `Spec => []ReviewedFilesUntouched` |
| `EditsKept` | `Spec => []NoLostEdit` |
| `VerifiedTested` | `Spec => []VerifiedMeansTested` |
| `BundlesTellOneRun` | `Spec => []BundleTellsOneRun` |
| `ResponsesAccounted` | `Spec => []EveryResponseIsAccounted` |

Each property speaks of a whole attempt, a whole authoring or a whole bundle, and
`RepairInvariant` says what is true of a part of one.  `Compiling`: of the
responses before the next one, those compiled are the candidates in their order,
so the n-th candidate is that of the n-th compiled response; without it the
receipts could be about another response than the one selected.  `Reviewing`: the
patches of an authored run that is in the loop name only files that want no
review, which the gate saw to while the files could still change.  `Trying`: the
first `Reached` of the changes attempted have been made, each to the file its
name leads to.  `Keeping`: a file that is not torn is what these changes, and no
more of them, make of what others left there; the text about to be written is what
the change makes of the file, which it matches, unless the file is torn; and a file
holds what was last written to it, unless others have written since.  It is `NoLostEdit` at the place where the loop is, and it is
what the comparison with the text before earns: a change is made only of a text that it
matches and that the file may have.  `Recording`: the receipts of the run are
the last ones, from its start on, and in the bundle its verdict is theirs.
`Telling`: a manifest is of one whole run.  The proof has one lemma per part, with
one step per action.

The model folds over sequences: over the changes attempted (`MadeOf`), the
responses (`Parsed`), the patches (`FlattenSeq`).  The library's induction theorems
take an operator as a parameter, which no installed prover instantiates.  The first
part of the module does without: a set of naturals that is not empty has a least
element (from `WFMin`), so a set that has zero and the successor of every member
is all of them (`SetInduction`), a step given as a function can be iterated
(`Recursion`), and the library's fold is that iteration (`FoldIsIterate`).
`MadeOfGrows`, `ParsedType` and `FlattenGrows` say what each fold does with one
more element, and the rest cites nothing else of them.

Only model-checked: `DispatchEnds` and `NothingStuck`, since the prover does not
support liveness under fairness.  The other runs that no theorem speaks of are the
findings, which are counterexamples.

## 6. Not modelled

`PROJECT.json` lists every part with its reason.  In short: the gateway's
authority decision is an input; configuration, formatting and cryptography are
taken as given; the reporting packages hold no state.  Most of the repository's
lines are such code: record types with their validation, conversions to and from
JSON, demonstrations, batch reports over finished evidence (operating, assurance,
audit, review board, reliability, repository, workflow).  They are sequential
functions of their input that unit tests reach well, and a model of one would
restate it.  Forge, agents and sandbox decide over single requests and are not on
any modelled path; voted approvals, brain budgets and provider health are state
machines of their own that nothing in the runtime drives together.

## 7. Plan

1. Done: the operation, the receipts, the mesh, the relay, the kernel life cycle;
   the runtime's pipeline with its governance; authoring, repair loop, patch tool
   and bundle.
2. Next: the gateway's authority decision and the agents' delegation as operators
   with a reference definition, in place of the free choice in `OperationCoordinator`
   and `MeshDispatch`; forge tickets, budgets, health and voted approvals.
3. Proofs: done for every invariant and action property that a passing run checks.
   Next to them: that the ranking of `PatchAuthoring` does not depend on the order
   of the responses, but for ties.
