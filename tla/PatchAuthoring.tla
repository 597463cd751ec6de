--------------------------- MODULE PatchAuthoring ---------------------------
(***************************************************************************)
(* authoring/: how proposals become at most one patch.  The response       *)
(* parser, the compiler, the policy gate, the hypothesis engine and the    *)
(* ranker are functions of what they are given; RepairRun says when each   *)
(* is called.                                                              *)
(*                                                                         *)
(* A file's text is a sequence of snippets, the empty one standing for no  *)
(* file; a Fragment is what a write that is cut short leaves of a snippet, *)
(* which may be nothing.  What the code finds by matching words is given   *)
(* as labels: of a path, of a proposal's text, of an objective, of the     *)
(* failure evidence.  Scores are ten times the code's.                     *)
(***************************************************************************)
EXTENDS Integers, SequencesExt, FiniteSetsExt

CONSTANTS
  Files,     \* the files of the workspace, by their resolved path
  Names,     \* the relative paths a proposal may write
  Resolves,  \* the file a path stands for, links followed, or Outside
  Labels,    \* what the patterns of the gate and of the ranker see in a path
  Snippets   \* pieces of text

Outside == "outside"  \* refused: a blocked root, or a link out of the workspace

ReviewedLabels == {"governance", "test", "dependency", "sensitive"}
RefusedLabels == {"blocked", "secret"}

ASSUME NamesAssumption == Files \subseteq Names
ASSUME ResolvesAssumption ==
  /\ Resolves \in [Names -> Files \union {Outside}]
  /\ \A f \in Files : Resolves[f] \in {f, Outside}
ASSUME LabelsAssumption == Labels \in [Names -> SUBSET (ReviewedLabels \union RefusedLabels \union {"src"})]

Fragment == "fragment"
Contents == Seq(Snippets \union {Fragment})
Absent == <<>>

\* PatchAuthoringMutation and PatchFileChange.  A change is for one exact text, for
\* any text (before_text_optional), or for a part of it (replace_text), one snippet.
Mutations == [create : BOOLEAN, path : Names, before : Snippets, after : Snippets]
Changes ==
  {c \in [mode : {"exact", "any", "part"}, path : Names, before : Contents, after : Contents] :
     c.mode = "part" => Len(c.before) = 1 /\ Len(c.after) = 1}

Forms == {"sound", "unreadable", "forbidden", "blank"}

\* A response and, when it parses, the proposal in it.
Proposals ==
  [id : STRING, form : Forms, confidence : 0..100, words : SUBSET {"delete_like", "unsafe"},
   size : {"small", "medium", "large"}, mutations : Seq(Mutations)]

(***************************************************************************)
(* The parser and the compiler.                                            *)
(***************************************************************************)

\* An AuthoringError: the response is rejected and the next one is read.
ParserRejects(p) ==
  \/ p.form \in {"unreadable", "forbidden"}
  \/ p.mutations = <<>>
  \/ \E m \in ToSet(p.mutations) : ~m.create /\ m.before = m.after
  \/ \E i, j \in DOMAIN p.mutations :
       /\ i # j
       /\ p.mutations[i].create /\ p.mutations[j].create
       /\ p.mutations[i].path = p.mutations[j].path

\* A ValueError: an assumption, a risk note or an expected test without text.
ParserRaises(p) == ~ParserRejects(p) /\ p.form = "blank"

AffectedNames(p) == {m.path : m \in ToSet(p.mutations)}

Occurrences(text, snippet) == Cardinality({i \in DOMAIN text : text[i] = snippet})

Replaced(text, old, new) == [i \in DOMAIN text |-> IF text[i] = old THEN new ELSE text[i]]

CannotCompile(m, files) ==
  \/ Resolves[m.path] = Outside
  \/ m.create /\ files[Resolves[m.path]] # Absent
  \/ ~m.create /\ Occurrences(files[Resolves[m.path]], m.before) # 1

\* An AuthoringCompilationError: stale, ambiguous, or a path the policy refuses.
CompilerRejects(p, files) == \E m \in ToSet(p.mutations) : CannotCompile(m, files)

\* A ValueError of PatchDiff: two changes of one file.
CompilerRaises(p, files) ==
  /\ ~CompilerRejects(p, files)
  /\ \E i, j \in DOMAIN p.mutations :
       i # j /\ Resolves[p.mutations[i].path] = Resolves[p.mutations[j].path]

\* A replacement is compiled to the whole text before and the whole text after.
CompiledChange(m, files) ==
  LET file == Resolves[m.path]
      text == files[file]
  IN  [mode |-> "exact", path |-> file, before |-> text,
       after |-> IF m.create THEN <<m.after>> ELSE Replaced(text, m.before, m.after)]

\* CompiledPatchCandidate.  It carries the proposal's digest: the proposal itself.
Candidate(p, files) ==
  [proposal |-> p,
   changes |-> [i \in DOMAIN p.mutations |-> CompiledChange(p.mutations[i], files)]]

ChangedPaths(changes) == {c.path : c \in ToSet(changes)}

(***************************************************************************)
(* The policy gate.  Proposals are found by their id: of two with the same *)
(* id, the later one is what the candidate is compared with.               *)
(***************************************************************************)
Strengths == {"none", "missing", "weak", "direct"}

ProposalById(proposals, id) ==
  proposals[CHOOSE i \in DOMAIN proposals :
              proposals[i].id = id /\ \A j \in DOMAIN proposals : proposals[j].id = id => j <= i]

\* mutant: the candidate is not compared with the proposal found.
ConsistentByName(p, candidate) == candidate.proposal.id = p.id

\* Same proposal, and the files changed are the paths the proposal names.
Consistent(p, candidate) ==
  /\ candidate.proposal = p
  /\ ChangedPaths(candidate.changes) = AffectedNames(p)

PathLabels(p) == UNION {Labels[name] : name \in AffectedNames(p)}

PolicyDecision(p, candidate, strength) ==
  CASE ~Consistent(p, candidate)
         \/ PathLabels(p) \intersect RefusedLabels # {}
         \/ p.words # {} -> "block"
    [] OTHER ->
         IF \/ PathLabels(p) \intersect ReviewedLabels # {}
            \/ \E m \in ToSet(p.mutations) : m.create
            \/ p.confidence < 50
            \/ strength # "direct"
            \/ Len(p.mutations) > 4
            \/ p.size = "large"
         THEN "require_review" ELSE "allow"

(***************************************************************************)
(* The hypotheses, of an objective's words, the evidence and the files in  *)
(* the context.                                                            *)
(***************************************************************************)
FailureClasses == {"import_error", "missing_symbol", "syntax_error", "assertion_mismatch", "other"}
Evidence == [strength : Strengths, class : FailureClasses \union {"unmatched"}, failing : BOOLEAN]
ObjectiveWords == {"unsafe", "governance", "weakening"}

Labelled(files, label) == {f \in files : label \in Labels[f]}

Narrowed(some, all) == IF some = {} THEN all ELSE some

Hypothesis(class, rank, authorable, paths) ==
  [class |-> class, rank |-> rank, authorable |-> authorable, paths |-> paths]

Founded(objective, evidence, targets) ==
  LET governed == Labelled(targets, "governance")
      tests == Labelled(targets, "test")
      class == CASE evidence.class # "unmatched" -> evidence.class
                 [] evidence.failing /\ evidence.strength = "direct" -> "assertion_mismatch"
                 [] OTHER -> "unmatched"
  IN  {h \in {Hypothesis("unsafe_request", 0, FALSE, targets),
              Hypothesis("governance_risk", 1, FALSE, Narrowed(governed, targets)),
              Hypothesis(class, 10, TRUE, targets),
              Hypothesis("test_weakening_risk", 20, FALSE, Narrowed(tests, targets)),
              Hypothesis("insufficient_evidence", 50, FALSE, targets)} :
         CASE h.rank = 0 -> "unsafe" \in objective
           [] h.rank = 1 -> "governance" \in objective \/ governed # {}
           [] h.rank = 10 -> class # "unmatched"
           [] h.rank = 20 -> "weakening" \in objective \/ tests # {}
           [] OTHER -> evidence.strength \in {"none", "missing"}}

\* When nothing else is found: an unknown failure, which may be authored for.
Hypotheses(objective, evidence, targets) ==
  LET founded == Founded(objective, evidence, targets)
  IN  IF founded = {} THEN {Hypothesis("unknown", 60, TRUE, targets)} ELSE founded

Authorable(hypotheses) == \E h \in hypotheses : h.authorable

SelectedHypothesis(hypotheses) ==
  CHOOSE h \in hypotheses : \A g \in hypotheses : h.rank <= g.rank

(***************************************************************************)
(* The ranker.                                                             *)
(***************************************************************************)
PathRisk(changes) ==
  LET penalty(path) ==
        (IF "governance" \in Labels[path] THEN 300 ELSE 0)
        + (IF "test" \in Labels[path] THEN 120 ELSE 0)
        + (IF "dependency" \in Labels[path] THEN 250 ELSE 0)
        - (IF "src" \in Labels[path] THEN 80 ELSE 0)
      total == MapThenSumSet(penalty, ChangedPaths(changes))
  IN  IF total > 0 THEN total ELSE 0

HypothesisScore(candidate, hypotheses) ==
  LET selected == SelectedHypothesis(hypotheses)
  IN  CASE ~Authorable(hypotheses) -> -250
        [] ChangedPaths(candidate.changes) \intersect selected.paths # {} -> 100
        [] selected.class \in FailureClasses \ {"other"} -> 50
        [] OTHER -> 0

Score(candidate, proposal, decision, strength, hypotheses) ==
  LET policy == CASE decision = "allow" -> 200
                  [] decision = "require_review" -> -200
                  [] OTHER -> -1000
      evidence == CASE strength = "direct" -> 150
                    [] strength = "weak" -> 50
                    [] OTHER -> -150
      size == CASE candidate.proposal.size = "small" -> 120
                [] candidate.proposal.size = "large" -> -200
                [] OTHER -> 0
      creates == Cardinality({i \in DOMAIN proposal.mutations : proposal.mutations[i].create})
  IN  500 + 3 * proposal.confidence + policy + evidence + size - 100 * creates
        + HypothesisScore(candidate, hypotheses) - PathRisk(candidate.changes)

\* The disposition of one candidate, before the best is selected.
Disposition(candidate, proposal, decision, score, hypotheses) ==
  CASE decision = "block" -> "blocked"
    [] decision # "block"
         /\ \/ candidate.proposal # proposal
            \/ ~Authorable(hypotheses)
            \/ proposal.confidence < 35
            \/ PathRisk(candidate.changes) > 350
            \/ candidate.proposal.size = "large" -> "rejected"
    [] OTHER ->
         IF decision = "require_review" THEN "requires_review"
         ELSE IF score < 400 THEN "rejected" ELSE "available"

SizeRank(candidate) ==
  CASE candidate.proposal.size = "small" -> 1
    [] candidate.proposal.size = "medium" -> 2
    [] OTHER -> 3

\* Earlier in the ranking; candidates that tie here are ordered by random ids.
Precedes(a, b) ==
  \/ a.score > b.score
  \/ /\ a.score = b.score
     /\ \/ PathRisk(a.candidate.changes) < PathRisk(b.candidate.changes)
        \/ /\ PathRisk(a.candidate.changes) = PathRisk(b.candidate.changes)
           /\ SizeRank(a.candidate) < SizeRank(b.candidate)

\* RepairCandidateRanker.rank, with the gate's decisions: one entry per candidate.
Ranked(candidates, proposals, objective, evidence, targets) ==
  LET hypotheses == Hypotheses(objective, evidence, targets)
      entry(candidate) ==
        LET proposal == ProposalById(proposals, candidate.proposal.id)
            decision == PolicyDecision(proposal, candidate, evidence.strength)
            score == Score(candidate, proposal, decision, evidence.strength, hypotheses)
        IN  [candidate |-> candidate, score |-> score,
             disposition |-> Disposition(candidate, proposal, decision, score, hypotheses)]
  IN  [i \in DOMAIN candidates |-> entry(candidates[i])]

\* The candidates that may come out first and available.
Best(ranked) ==
  {i \in DOMAIN ranked :
     /\ ranked[i].disposition = "available"
     /\ \A j \in DOMAIN ranked :
          ranked[j].disposition = "available" => ~Precedes(ranked[j], ranked[i])}

\* AuthoredRepairRuntime._status_from_selection.
AuthoredStatus(ranked) ==
  LET dispositions == {ranked[i].disposition : i \in DOMAIN ranked}
  IN  CASE "available" \in dispositions -> "authored"
        [] dispositions = {"blocked"} -> "blocked"
        [] "available" \notin dispositions /\ "requires_review" \in dispositions -> "requires_review"
        [] OTHER -> "no_candidate"
=============================================================================
