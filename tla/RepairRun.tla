------------------------------ MODULE RepairRun ------------------------------
(***************************************************************************)
(* runtime/control_plane.py, EngineeringControlPlane: repair runs over one *)
(* workspace.  An explicit run takes an operator's patches; an authored    *)
(* run has one made of the responses of a proposal provider.  The repair   *)
(* loop applies a patch file by file and runs the tests, and what happened *)
(* is written to the run's bundle, the manifest last.                      *)
(*                                                                         *)
(* The workspace is not the control plane's alone: between any two steps   *)
(* somebody else may write a file or take the marker away; also between    *)
(* the comparison of a file with what a change expects and the write,      *)
(* which nothing guards.  Reading the files of one proposal is one step    *)
(* here, and so is a run of the tests.  All runs are given one run id,     *)
(* which nothing refuses: they share the bundle.                           *)
(***************************************************************************)
EXTENDS PatchAuthoring

CONSTANTS
  Requests,      \* what a run may be asked to do
  InitialFiles,  \* the workspaces to start from
  TheirTexts,    \* what others may make of a file
  MaxAttempts,   \* RepairLoopConfig.max_attempts
  MaxResponses,  \* AuthoredRepairRuntimeConfig.max_raw_proposals
  MaxEdits,      \* bound: changes made by others
  MaxRuns        \* bound: runs, of any number of processes

ASSUME BoundsAssumption ==
  /\ MaxAttempts \in Nat \ {0} /\ MaxResponses \in Nat \ {0}
  /\ MaxEdits \in Nat /\ MaxRuns \in Nat

ASSUME RequestsAssumption ==
  Requests \subseteq [authored : BOOLEAN, objective : SUBSET ObjectiveWords, evidence : Evidence,
                      responses : Seq(Proposals), patches : Seq(Seq(Changes))]

ASSUME FilesAssumption == InitialFiles \subseteq [Files -> Contents] /\ TheirTexts \subseteq Contents

VARIABLES
  files,    \* the workspace
  marker,   \* the workspace marker is there
  job,      \* the run in progress, or the last one
  ledger,   \* the repair receipts this process holds
  bundle,   \* the artifacts of the run id, by kind
  manifest, \* what the manifest says of them, or NoManifest
  theirs,   \* each file as others left it when the run began, or later
  edited,   \* the files others have written since the run last wrote them
  torn,     \* those others wrote between the run's comparison and its write, and
            \* those whose write was cut short: until others write them again
  written,  \* the changes the run has made, in order, with the texts written
  tested,   \* at the last run of the tests: the workspace, and edited
  edits, runs

workspace == <<files, marker, theirs, edited, torn, edits>>
vars == <<workspace, job, ledger, bundle, manifest, written, tested, runs>>

Kinds == <<"report", "operator_summary", "verification", "tool_receipts", "repair_receipts", "trace">>

NoArtifact == [run |-> 0, body |-> <<>>]
NoManifest == [k \in ToSet(Kinds) |-> [run |-> 0, body |-> <<"absent">>]]

Stages == {"idle", "context", "parse", "compile", "attempt", "apply", "write", "test", "bundle"}
Loops == {"running", "succeeded", "failed", "blocked", "exhausted"}
PatchResults == {"none", "succeeded", "invalid", "error", "blocked"}
\* Failed: or errored, or timed out; unclear: no tests were run, or none can tell.
TestResults == {"passed", "failed", "unclear", "blocked"}
AuthoredStatuses == {"none", "authored", "requires_review", "blocked", "no_candidate", "failed"}

Jobs ==
  [request : Requests, stage : Stages, next : Nat, targets : SUBSET Files,
   proposals : Seq(Proposals), candidates : Seq([proposal : Proposals, changes : Seq(Changes)]),
   outcomes : Seq({"open", "compiled", "rejected", "selected"}), status : AuthoredStatuses,
   patches : Seq(Seq(Changes)), attempt : Nat, at : Nat, text : Contents, loop : Loops,
   patch : PatchResults,
   tests : Seq(TestResults)]

TypeOK ==
  /\ files \in [Files -> Contents] /\ theirs \in [Files -> Contents]
  /\ marker \in BOOLEAN
  /\ job \in Jobs
  /\ edited \subseteq Files /\ torn \subseteq Files
  /\ written \in Seq([change : Changes, text : Contents])
  /\ Len(job.tests) <= MaxAttempts /\ Len(job.candidates) <= MaxResponses
  /\ tested.files \in [Files -> Contents] /\ tested.edited \subseteq Files
  /\ \A i \in DOMAIN ledger : ledger[i].run \in 1..runs
  /\ \A k \in ToSet(Kinds) : bundle[k].run \in 0..runs
  /\ edits \in 0..MaxEdits /\ runs \in 0..MaxRuns

Responses(request) ==
  IF Len(request.responses) > MaxResponses THEN SubSeq(request.responses, 1, MaxResponses)
  ELSE request.responses

Job(request, stage) ==
  [request |-> request, stage |-> stage, next |-> 1, targets |-> {}, proposals |-> <<>>,
   candidates |-> <<>>, outcomes |-> [i \in DOMAIN Responses(request) |-> "open"],
   status |-> "none", patches |-> request.patches, attempt |-> 0, at |-> 1,
   text |-> Absent, loop |-> "running", patch |-> "none", tests |-> <<>>]

Init ==
  /\ files \in InitialFiles
  /\ marker = TRUE
  /\ \E r \in Requests : job = Job(r, "idle")
  /\ ledger = <<>>
  /\ bundle = [k \in ToSet(Kinds) |-> NoArtifact]
  /\ manifest = NoManifest
  /\ theirs = files
  /\ edited = {} /\ torn = {}
  /\ written = <<>>
  /\ tested = [files |-> files, edited |-> {}]
  /\ edits = 0 /\ runs = 0

Receipt(kind, result) == [run |-> runs, kind |-> kind, result |-> result]

(***************************************************************************)
(* Submission.  Without its marker the workspace is refused, by an         *)
(* exception.                                                              *)
(***************************************************************************)
Submit(r) ==
  /\ job.stage = "idle"
  /\ runs < MaxRuns
  /\ marker
  /\ runs' = runs + 1
  /\ job' = Job(r, IF r.authored THEN "context" ELSE "attempt")
  /\ ledger' = IF r.authored THEN ledger
               ELSE Append(ledger, [Receipt("started", "running") EXCEPT !.run = runs + 1])
  /\ theirs' = files /\ edited' = {} /\ torn' = {} /\ written' = <<>>
  /\ tested' = [files |-> files, edited |-> {}]
  /\ UNCHANGED <<files, marker, edits, bundle, manifest>>

(***************************************************************************)
(* Authoring.  An exception that is not an AuthoringError ends it FAILED,  *)
(* and nothing is executed.                                                *)
(***************************************************************************)
Authoring == UNCHANGED <<workspace, ledger, bundle, manifest, written, tested, runs>>

AuthoringFails == job' = [job EXCEPT !.stage = "idle", !.status = "failed"]

\* Files that carry a secret's or a blocked name are left out of the context.
CollectContext ==
  /\ job.stage = "context"
  /\ \/ /\ job' = [job EXCEPT !.stage = IF job.outcomes = <<>> THEN "idle" ELSE "parse",
                     !.status = IF job.outcomes = <<>> THEN "no_candidate" ELSE "none",
                     !.targets = {f \in Files : files[f] # Absent
                                    /\ Labels[f] \intersect RefusedLabels = {}}]
     \/ AuthoringFails  \* the context, or the provider
  /\ Authoring

\* The proposals of the responses that are not rejected, in their order.
Parsed(responses) ==
  FoldLeft(LAMBDA parsed, p : IF ParserRejects(p) THEN parsed ELSE Append(parsed, p),
           <<>>, responses)

ParseProposals ==
  /\ job.stage = "parse"
  /\ LET responses == Responses(job.request)
         raises == \E i \in DOMAIN responses : ParserRaises(responses[i])
         outcomes == [i \in DOMAIN responses |->
                        IF ParserRejects(responses[i]) /\ \A j \in 1..i : ~ParserRaises(responses[j])
                        THEN "rejected" ELSE "open"]
     IN  job' = [job EXCEPT !.stage = IF raises THEN "idle" ELSE "compile",
                   !.status = IF raises THEN "failed" ELSE "none",
                   !.proposals = IF raises THEN <<>> ELSE Parsed(responses),
                   !.outcomes = outcomes]
  /\ Authoring

\* One proposal, against the files as they are now.
CompileProposal ==
  /\ job.stage = "compile"
  /\ job.next \in DOMAIN job.outcomes
  /\ LET p == Responses(job.request)[job.next]
         done == [job EXCEPT !.next = job.next + 1]
     IN  CASE job.outcomes[job.next] = "rejected" -> job' = done
           [] job.outcomes[job.next] = "open" /\ CompilerRejects(p, files) ->
                job' = [done EXCEPT !.outcomes[job.next] = "rejected"]
           [] job.outcomes[job.next] = "open" /\ CompilerRaises(p, files) -> AuthoringFails
           [] OTHER ->
                \/ job' = [done EXCEPT !.outcomes[job.next] = "compiled",
                             !.candidates = Append(job.candidates, Candidate(p, files))]
                \/ AuthoringFails  \* a file that cannot be read
  /\ Authoring

ranked == Ranked(job.candidates, job.proposals, job.request.objective, job.request.evidence, job.targets)

\* The candidates compiled from the first j responses.
Compiled(j) == {k \in 1..j : job.outcomes[k] = "compiled"}

\* The candidate that was compiled from the j-th response.
CandidateOf(j) == Cardinality(Compiled(j))

\* mutant: a candidate that is available and not the best gets no receipt.
SettledBest(best) ==
  [j \in DOMAIN job.outcomes |->
     IF job.outcomes[j] # "compiled" THEN job.outcomes[j]
     ELSE IF CandidateOf(j) \in best THEN "selected"
     ELSE IF ranked[CandidateOf(j)].disposition = "available" THEN job.outcomes[j]
     ELSE "rejected"]

\* The report's receipts: the candidate selected, if any, then all the others.
Settled(best) ==
  [j \in DOMAIN job.outcomes |->
     IF job.outcomes[j] # "compiled" THEN job.outcomes[j]
     ELSE IF CandidateOf(j) \in best THEN "selected" ELSE "rejected"]

\* The gate and the ranker select nothing: nothing is executed.
DecideNone ==
  /\ job.stage = "compile"
  /\ job.next > Len(job.outcomes)
  /\ AuthoredStatus(ranked) # "authored"
  /\ job' = [job EXCEPT !.stage = "idle", !.status = AuthoredStatus(ranked), !.outcomes = Settled({})]
  /\ Authoring

\* The one patch selected is handed to the loop, if the marker is still there.
DecideAuthored ==
  /\ job.stage = "compile"
  /\ job.next > Len(job.outcomes)
  /\ AuthoredStatus(ranked) = "authored"
  /\ \E best \in Best(ranked) :
       job' = [job EXCEPT !.stage = IF marker THEN "attempt" ELSE "idle", !.status = "authored",
                 !.outcomes = Settled({best}), !.patches = <<job.candidates[best].changes>>]
  /\ ledger' = IF marker THEN Append(ledger, Receipt("started", "running")) ELSE ledger
  /\ UNCHANGED <<workspace, bundle, manifest, written, tested, runs>>

(***************************************************************************)
(* The repair loop.                                                        *)
(***************************************************************************)
Looping == UNCHANGED <<marker, theirs, edits, bundle, manifest, runs>>

Ended(j, loop) == [j EXCEPT !.stage = "bundle", !.at = 1, !.loop = loop]

\* mutant: after a patch that could not be applied the next one is tried.
AttachPatchResultAndGoOn(result) ==
  LET attached == [job EXCEPT !.patch = result]
      receipt == Receipt("patch", result)
  IN  CASE result = "succeeded" ->
             /\ job' = [attached EXCEPT !.stage = "test"]
             /\ ledger' = Append(ledger, receipt)
        [] result # "succeeded" /\ job.attempt < MaxAttempts ->
             /\ job' = [attached EXCEPT !.stage = "attempt"]
             /\ ledger' = Append(ledger, receipt)
        [] OTHER ->
             /\ job' = Ended(attached, "exhausted")
             /\ ledger' = ledger \o <<receipt, Receipt("terminated", "exhausted")>>

\* A patch that is not applied ends the loop, whatever has been written of it.
AttachPatchResult(result) ==
  LET attached == [job EXCEPT !.patch = result]
      receipt == Receipt("patch", result)
      loop == IF result = "blocked" THEN "blocked" ELSE "failed"
  IN  IF result = "succeeded"
      THEN /\ job' = [attached EXCEPT !.stage = "test"]
           /\ ledger' = Append(ledger, receipt)
      ELSE /\ job' = Ended(attached, loop)
           /\ ledger' = ledger \o <<receipt, Receipt("terminated", loop)>>

\* The receipts of a start are followed by PatchApplyTool's look at the marker.
StartAttempt ==
  /\ job.stage = "attempt"
  /\ job.attempt < Len(job.patches)
  /\ job' = [job EXCEPT !.stage = "apply", !.attempt = job.attempt + 1, !.at = 1, !.patch = "none"]
  /\ ledger' = Append(ledger, Receipt("attempt_started", "running"))
  /\ UNCHANGED <<files, edited, torn, written, tested>> /\ Looping

patch == job.patches[job.attempt]

\* What a change may be applied to, and what it makes of it.  One for any text
\* wants the file to be there, and is compared with nothing.
Matches(change, text) ==
  CASE change.mode = "exact" -> text = change.before
    [] change.mode = "any" -> text # Absent
    [] change.mode = "part" -> Occurrences(text, change.before[1]) = 1

Patched(change, text) ==
  IF change.mode = "part" THEN Replaced(text, change.before[1], change.after[1]) ELSE change.after

\* mutant: the file is written without a look at what it holds.
AppliesAnyway(change) ==
  Resolves[change.path] # Outside

\* _apply_add, _apply_modify, _apply_delete: the file holds what the change expects.
Applies(change) ==
  /\ Resolves[change.path] # Outside
  /\ Matches(change, files[Resolves[change.path]])

\* The text to be written is settled here, of what the file holds now.
CompareChange ==
  /\ job.stage = "apply"
  /\ job.at > 1 \/ marker
  /\ job.at \in DOMAIN patch
  /\ LET change == patch[job.at]
     IN  /\ Applies(change)
         /\ job' = [job EXCEPT !.stage = "write", !.text = Patched(change, files[Resolves[change.path]])]
  /\ UNCHANGED <<files, edited, torn, ledger, written, tested>> /\ Looping

target == Resolves[patch[job.at].path]

\* One file, whatever it holds by now; the files before it are not put back.  A
\* file to be deleted has to be there.
WriteChange ==
  /\ job.stage = "write"
  /\ job.text = Absent => files[target] # Absent
  /\ files' = [files EXCEPT ![target] = job.text]
  /\ written' = Append(written, [change |-> patch[job.at], text |-> job.text])
  /\ edited' = edited \ {target}
  /\ job' = [job EXCEPT !.stage = "apply", !.at = job.at + 1]
  /\ UNCHANGED <<torn, ledger, tested>> /\ Looping

\* The marker is looked for before the first file, and again for the report.
RefuseChange ==
  /\ job.stage = "apply"
  /\ \/ (job.at = 1 \/ job.at = Len(patch) + 1) /\ ~marker /\ AttachPatchResult("blocked")
     \/ /\ job.at > 1 \/ marker
        /\ job.at \in DOMAIN patch
        /\ ~Applies(patch[job.at])
        /\ AttachPatchResult(IF Resolves[patch[job.at].path] = Outside THEN "blocked" ELSE "invalid")
  /\ UNCHANGED <<files, edited, torn, written, tested>> /\ Looping

\* A file that cannot be read; or the report of the patch, all its files being written.
PatchToolFails ==
  /\ job.stage = "apply"
  /\ job.at > 1 \/ marker
  /\ AttachPatchResult("error")
  /\ UNCHANGED <<files, edited, torn, written, tested>> /\ Looping

\* What a write of a text may leave that does not come to its end.
CutShort(text) ==
  {text} \union {SubSeq(text, 1, k) \o <<Fragment>> : k \in 0..(Len(text) - 1)}

\* The file is emptied before it is written.
LeaveTorn ==
  /\ torn' = torn \union {target}
  /\ \E text \in {files[target]} \union CutShort(job.text) : files' = [files EXCEPT ![target] = text]

WriteFails ==
  /\ job.stage = "write"
  /\ LeaveTorn
  /\ AttachPatchResult("error")
  /\ UNCHANGED <<edited, written, tested>> /\ Looping

PersistPatchReport ==
  /\ job.stage = "apply"
  /\ job.at = Len(patch) + 1
  /\ marker
  /\ AttachPatchResult("succeeded")
  /\ UNCHANGED <<files, edited, torn, written, tested>> /\ Looping

\* mutant: one attempt too many.
LoopAfterOneMore(result) ==
  CASE result = "passed" -> "succeeded"
    [] result = "blocked" -> "blocked"
    [] OTHER -> IF job.attempt > MaxAttempts THEN "exhausted" ELSE "running"

\* attach_test_result.
LoopAfter(result) ==
  CASE result = "passed" -> "succeeded"
    [] result = "blocked" -> "blocked"
    [] OTHER -> IF job.attempt >= MaxAttempts THEN "exhausted" ELSE "running"

\* TestRunnerTool: blocked without the marker, and when the command is not one it
\* may run; a run whose output cannot be stored counts as failed.
RunTests(result) ==
  /\ job.stage = "test"
  /\ ~marker => result = "blocked"
  /\ tested' = [files |-> files, edited |-> edited]
  /\ LET attached == [job EXCEPT !.tests = Append(job.tests, result)]
         receipt == Receipt("test", result)
         loop == LoopAfter(result)
     IN  IF loop = "running"
         THEN /\ job' = [attached EXCEPT !.stage = "attempt"]
              /\ ledger' = Append(ledger, receipt)
         ELSE /\ job' = Ended(attached, loop)
              /\ ledger' = ledger \o <<receipt, Receipt("terminated", loop)>>
  /\ UNCHANGED <<files, edited, torn, written>> /\ Looping

\* mutant: the receipt of the end is forgotten on this way out.
StopUnrecorded ==
  /\ job.stage = "attempt"
  /\ job.attempt = Len(job.patches)
  /\ job' = Ended(job, "failed")
  /\ UNCHANGED <<ledger, files, edited, torn, written, tested>> /\ Looping

\* stop_by_operator: no patch is left.
StopWithoutPatches ==
  /\ job.stage = "attempt"
  /\ job.attempt = Len(job.patches)
  /\ job' = Ended(job, "failed")
  /\ ledger' = Append(ledger, Receipt("terminated", "failed"))
  /\ UNCHANGED <<files, edited, torn, written, tested>> /\ Looping

(***************************************************************************)
(* The bundle.  A failed write raises, and leaves what was written before. *)
(***************************************************************************)
VerificationStatus ==
  CASE job.loop = "blocked" -> "blocked"
    [] job.loop = "succeeded" /\ Last(job.tests) = "passed" -> "verified"
    [] job.loop # "blocked" /\ job.tests = <<>> -> "inconclusive"
    [] OTHER -> IF Last(job.tests) = "failed" THEN "failed" ELSE "partial"

Artifact(kind) ==
  [run |-> runs,
   body |-> CASE kind \in {"report", "operator_summary"} -> <<job.loop>>
              [] kind = "verification" -> <<VerificationStatus>>
              [] kind = "tool_receipts" -> <<>>
              [] kind = "repair_receipts" -> ledger
              [] kind = "trace" -> <<job.loop, Len(ledger)>>]

WriteArtifact ==
  /\ job.stage = "bundle"
  /\ job.at \in DOMAIN Kinds
  /\ bundle' = [bundle EXCEPT ![Kinds[job.at]] = Artifact(Kinds[job.at])]
  /\ job' = [job EXCEPT !.at = job.at + 1]
  /\ UNCHANGED <<workspace, ledger, manifest, written, tested, runs>>

PersistManifest ==
  /\ job.stage = "bundle"
  /\ job.at = Len(Kinds) + 1
  /\ manifest' = [k \in ToSet(Kinds) |-> Artifact(k)]
  /\ job' = [job EXCEPT !.stage = "idle"]
  /\ UNCHANGED <<workspace, ledger, bundle, written, tested, runs>>

Raise ==
  /\ job.stage = "bundle"
  /\ job' = [job EXCEPT !.stage = "idle"]
  /\ UNCHANGED <<workspace, ledger, bundle, manifest, written, tested, runs>>

Crash ==
  /\ job.stage # "idle"
  /\ job' = [job EXCEPT !.stage = "idle"]
  /\ ledger' = <<>>
  /\ IF job.stage = "write" THEN LeaveTorn ELSE UNCHANGED <<files, torn>>
  /\ UNCHANGED <<marker, theirs, edited, edits, bundle, manifest, written, tested, runs>>

(***************************************************************************)
(* The others.                                                             *)
(***************************************************************************)
Others ==
  /\ job.stage # "idle"
  /\ edits < MaxEdits
  /\ edits' = edits + 1
  /\ UNCHANGED <<job, ledger, bundle, manifest, written, tested, runs>>

Edit(f, text) ==
  /\ text # files[f]
  /\ files' = [files EXCEPT ![f] = text]
  /\ theirs' = [theirs EXCEPT ![f] = text]
  /\ edited' = edited \union {f}
  /\ torn' = IF job.stage = "write" /\ target = f THEN torn \union {f} ELSE torn \ {f}
  /\ UNCHANGED marker /\ Others

MoveMarker ==
  /\ marker' = ~marker
  /\ UNCHANGED <<files, theirs, edited, torn>> /\ Others

Next ==
  \/ \E r \in Requests : Submit(r)
  \/ CollectContext \/ ParseProposals \/ CompileProposal \/ DecideNone \/ DecideAuthored
  \/ StartAttempt \/ CompareChange \/ WriteChange \/ RefuseChange \/ PatchToolFails \/ WriteFails
  \/ PersistPatchReport
  \/ \E result \in TestResults : RunTests(result)
  \/ StopWithoutPatches \/ WriteArtifact \/ PersistManifest \/ Raise \/ Crash
  \/ \E f \in Files, text \in TheirTexts : Edit(f, text)
  \/ MoveMarker

Spec == Init /\ [][Next]_vars

-----------------------------------------------------------------------------

Attempted == FlattenSeq(SubSeq(job.patches, 1, job.attempt))

\* AuthoringPolicyGate and RepairCandidateRanker: an authored run writes no file
\* that wants a review or is refused, whatever link leads to it, however many
\* proposals go by one id, and whatever others write meanwhile; where the links
\* lead is taken to stay as it is.
ReviewedFilesUntouched ==
  job.request.authored =>
    \A f \in Files : Labels[f] \intersect (ReviewedLabels \union RefusedLabels) # {}
                       => files[f] = theirs[f]

\* What these changes, each tried once and in their order, may make of a file.
MadeOf(f, texts, changes) ==
  FoldLeft(LAMBDA made, c : IF Resolves[c.path] = f
                            THEN made \union {Patched(c, t) : t \in {u \in made : Matches(c, u)}}
                            ELSE made,
           texts, changes)

\* PatchApplyTool._apply_modify: an edit that others made before the comparison is
\* not lost.  A file holds what they left there, or what the patches tried so far,
\* in their order, make of it: each change of a text that it may be applied to.
\* Not so a file they write after the comparison and before the write, where their
\* text is overwritten unseen, nor one whose write was cut short: until they write
\* it again.
NoLostEdit == \A f \in Files \ torn : files[f] \in MadeOf(f, {theirs[f]}, Attempted)

WrittenTo(i) == Resolves[written[i].change.path]

\* The changes made to a file that no later one was made to.
LastWrites == {i \in DOMAIN written : \A j \in DOMAIN written : WrittenTo(j) = WrittenTo(i) => j <= i}

\* ProgrammingRepairRuntime.run and verification_summary: what is verified was
\* tested as it stands.  Every patch tried was written to its last file, none was
\* given up half way, and when the tests passed each file held what the run had
\* last written to it, but for those that others had written after it.
VerifiedMeansTested ==
  job.loop # "running" /\ VerificationStatus = "verified" =>
    /\ Len(job.tests) = job.attempt
    /\ [i \in DOMAIN written |-> written[i].change] = Attempted
    /\ \A i \in LastWrites :
         tested.files[WrittenTo(i)] = written[i].text \/ WrittenTo(i) \in tested.edited

\* The receipts of a run are all the receipts from some place on.
OwnReceipts(run, receipts, first) ==
  \A i \in DOMAIN receipts : receipts[i].run = run <=> i >= first

\* RunBundleWriter: a manifest that agrees with the artifacts beside it tells of
\* one run, from its first receipt to its last, and its verdict is the one the
\* receipts end with; a run that was cut short, or is being overwritten, is never
\* taken for another one.
BundleTellsOneRun ==
  manifest # NoManifest /\ manifest = bundle =>
    LET run == bundle["report"].run
        receipts == bundle["repair_receipts"].body
        before == receipts[Len(receipts) - 1]
    IN  /\ \A k \in ToSet(Kinds) : bundle[k].run = run
        /\ \E first \in 1..(Len(receipts) - 1) :
             OwnReceipts(run, receipts, first) /\ receipts[first].kind = "started"
        /\ Last(receipts).kind = "terminated"
        /\ Last(receipts).result = bundle["report"].body[1]
        /\ bundle["verification"].body[1] = "verified" <=>
             before.kind = "test" /\ before.result = "passed"

\* AuthoredRepairRuntime._report: unless authoring failed, every response it read
\* is on record as rejected, but the one that was selected; and the patch handed
\* over changes the files which that one names.
EveryResponseIsAccounted ==
  job.status \notin {"none", "failed"} =>
    /\ ToSet(job.outcomes) \subseteq {"rejected", "selected"}
    /\ job.status # "authored" => "selected" \notin ToSet(job.outcomes)
    /\ job.status = "authored" =>
         \E i \in DOMAIN job.outcomes :
           /\ \A j \in DOMAIN job.outcomes : job.outcomes[j] = "selected" <=> i = j
           /\ ChangedPaths(job.patches[1]) = AffectedNames(job.request.responses[i])

\* docs/wave3-threat-model.md, threat 7: "If before text does not match, the patch
\* is stale. A stale patch must not execute."
StalePatchDoesNotExecute ==
  job.patch = "invalid" => Len(written) = Len(FlattenSeq(SubSeq(job.patches, 1, job.attempt - 1)))
=============================================================================
