---------------------------- MODULE MeshDispatch ----------------------------
(***************************************************************************)
(* Commands that callers send through the integration mesh                 *)
(* (integration_mesh/runtime.py, dispatch without a permit): concurrent    *)
(* callers, on gateways that share the mesh database and the authority     *)
(* database, present a request key with a command.                         *)
(*                                                                         *)
(* A subject is the command with the identity it is evaluated under;       *)
(* single-use evidence is bound to it, and where policy asks for evidence  *)
(* of that kind the request presents some.  Each write to a database is a step *)
(* of its own; a dispatch can end between any two of them, because the     *)
(* process dies or because the step raises.  The stream of signed receipts *)
(* is taken as ReceiptLog promises it, a set being enough here.            *)
(***************************************************************************)
EXTENDS Naturals

CONSTANTS
  Callers,    \* requests in service, each by a thread of some gateway
  Keys,       \* request ids: digests of agent, connector, tool and caller key
  Subjects,
  Evidence,
  EvidenceOf, \* subject -> the single-use evidence bound to it
  Results,    \* what the provider may answer
  Unusable,   \* the results the configured transport cannot return
  None        \* no subject, no result

ASSUME MeshAssumption ==
  /\ EvidenceOf \in [Subjects -> SUBSET Evidence]
  /\ Unusable \subseteq Results
  /\ None \notin Subjects /\ None \notin Results

VARIABLES
  ledger,   \* mesh_requests
  claims,   \* evidence_claims
  receipts, \* signed authorizations and outcomes
  caller,   \* the dispatch each caller waits for
  sent,     \* history: every provider call
  returned  \* history: every result a caller got

vars == <<ledger, claims, receipts, caller, sent, returned>>

Rows == [state : {"absent", "reserved", "complete"}, subject : Subjects \union {None},
         authorization : BOOLEAN, result : Results \union {None}]

Receipts == [kind : {"authorization", "outcome"}, key : Keys, subject : Subjects,
             evidence : SUBSET Evidence, result : Results \union {None}]

Sendings == [key : Keys, subject : Subjects, evidence : SUBSET Evidence,
             result : Results \union {None}]

Answers == [key : Keys, subject : Subjects, result : Results]

PCs == {"idle", "reserve", "replay", "claim", "sign", "ledger", "revalidate",
        "call", "outcome", "complete"}

Dispatches == [pc : PCs, key : Keys \union {None}, subject : Subjects \union {None},
               evidence : SUBSET Evidence, result : Results \union {None}]

TypeOK ==
  /\ ledger \in [Keys -> Rows]
  /\ claims \subseteq Evidence
  /\ receipts \subseteq Receipts
  /\ caller \in [Callers -> Dispatches]
  /\ sent \subseteq Sendings
  /\ returned \subseteq Answers

Absent == [state |-> "absent", subject |-> None, authorization |-> FALSE, result |-> None]

Idle == [pc |-> "idle", key |-> None, subject |-> None, evidence |-> {}, result |-> None]

Init ==
  /\ ledger = [k \in Keys |-> Absent]
  /\ claims = {}
  /\ receipts = {}
  /\ caller = [c \in Callers |-> Idle]
  /\ sent = {}
  /\ returned = {}

Key(c) == caller[c].key

Subject(c) == caller[c].subject

Row(c) == ledger[Key(c)]

Goto(c, pc) == caller' = [caller EXCEPT ![c] = [caller[c] EXCEPT !.pc = pc]]

Receipt(kind, k, s, evidence, r) ==
  [kind |-> kind, key |-> k, subject |-> s, evidence |-> evidence, result |-> r]

Signed(kind, c) ==
  Receipt(kind, Key(c), Subject(c), caller[c].evidence, caller[c].result)

Sending(k, s, evidence, r) ==
  [key |-> k, subject |-> s, evidence |-> evidence, result |-> r]

\* The result goes back to the caller.
Returned(c) ==
  returned \union {[key |-> Key(c), subject |-> Subject(c), result |-> caller[c].result]}

\* Authority allows the subject, and the request passes the checks that come
\* before the reservation.
Accept(c, k, s, evidence) ==
  /\ caller[c].pc = "idle"
  /\ evidence = {} => EvidenceOf[s] = {}
  /\ caller' = [caller EXCEPT ![c] = [pc |-> "reserve", key |-> k, subject |-> s,
                                      evidence |-> evidence, result |-> None]]
  /\ UNCHANGED <<ledger, claims, receipts, sent, returned>>

\* mutant: a reservation is taken over by a duplicate of its command.
ReserveAgain(c) ==
  /\ caller[c].pc = "reserve"
  /\ \/ Row(c).state = "absent"
     \/ Row(c).state = "reserved" /\ Row(c).subject = Subject(c)
  /\ ledger' = [ledger EXCEPT ![Key(c)] = [Absent EXCEPT !.state = "reserved",
                                                         !.subject = Subject(c)]]
  /\ Goto(c, "claim")
  /\ UNCHANGED <<claims, receipts, sent, returned>>

\* ledger.reserve, new key.
Reserve(c) ==
  /\ caller[c].pc = "reserve"
  /\ Row(c).state = "absent"
  /\ ledger' = [ledger EXCEPT ![Key(c)] = [Absent EXCEPT !.state = "reserved",
                                                         !.subject = Subject(c)]]
  /\ Goto(c, "claim")
  /\ UNCHANGED <<claims, receipts, sent, returned>>

\* ledger.reserve, known key: a conflict, or a reservation of the same subject,
\* is answered 409.
Refuse(c) ==
  /\ caller[c].pc = "reserve"
  /\ \/ Row(c).state # "absent" /\ Row(c).subject # Subject(c)
     \/ Row(c).state = "reserved"
  /\ caller' = [caller EXCEPT ![c] = Idle]
  /\ UNCHANGED <<ledger, claims, receipts, sent, returned>>

\* ledger.reserve returns the recorded result.
Recall(c) ==
  /\ caller[c].pc = "reserve"
  /\ Row(c).state = "complete" /\ Row(c).subject = Subject(c)
  /\ caller' = [caller EXCEPT ![c] = [caller[c] EXCEPT !.pc = "replay",
                                                            !.result = Row(c).result]]
  /\ UNCHANGED <<ledger, claims, receipts, sent, returned>>

\* response_for: the result is returned if the signed outcome vouches for it.
Replay(c) ==
  /\ caller[c].pc = "replay"
  /\ \E r \in receipts : /\ r.kind = "outcome" /\ r.key = Key(c)
                         /\ r.subject = Subject(c) /\ r.result = caller[c].result
  /\ returned' = Returned(c)
  /\ caller' = [caller EXCEPT ![c] = Idle]
  /\ UNCHANGED <<ledger, claims, receipts, sent>>

\* mutant: evidence claimed before is accepted.
ClaimAgain(c) ==
  /\ caller[c].pc = "claim"
  /\ claims' = claims \union caller[c].evidence
  /\ Goto(c, "sign")
  /\ UNCHANGED <<ledger, receipts, sent, returned>>

\* claim_single_use_evidence
Claim(c) ==
  /\ caller[c].pc = "claim"
  /\ caller[c].evidence \cap claims = {}
  /\ claims' = claims \union caller[c].evidence
  /\ Goto(c, "sign")
  /\ UNCHANGED <<ledger, receipts, sent, returned>>

\* _commit_authorization
CommitAuthorization(c) ==
  /\ caller[c].pc = "sign"
  /\ receipts' = receipts \union {Signed("authorization", c)}
  /\ Goto(c, "ledger")
  /\ UNCHANGED <<ledger, claims, sent, returned>>

\* ledger.authorized
LedgerAuthorized(c) ==
  /\ caller[c].pc = "ledger"
  /\ ledger' = IF Row(c).state = "reserved"
               THEN [ledger EXCEPT ![Key(c)] = [Row(c) EXCEPT !.authorization = TRUE]]
               ELSE ledger
  /\ Goto(c, "revalidate")
  /\ UNCHANGED <<claims, receipts, sent, returned>>

\* _revalidate_before_dispatch: identity, evidence and trust still hold.
Revalidate(c) ==
  /\ caller[c].pc = "revalidate"
  /\ Goto(c, "call")
  /\ UNCHANGED <<ledger, claims, receipts, sent, returned>>

\* request_upstream: the provider gets the command; its answer may be lost.
Call(c, r) ==
  /\ caller[c].pc = "call"
  /\ sent' = sent \union {Sending(Key(c), Subject(c), caller[c].evidence, r)}
  /\ caller' = [caller EXCEPT ![c] = [caller[c] EXCEPT !.pc = "outcome", !.result = r]]
  /\ UNCHANGED <<ledger, claims, receipts, returned>>

\* mutant: a failure to sign the outcome is ignored.
OutcomeUnsigned(c) ==
  /\ caller[c].pc = "outcome"
  /\ IF caller[c].result \in Unusable \union {None}
     THEN caller' = [caller EXCEPT ![c] = Idle]
     ELSE Goto(c, "complete")
  /\ UNCHANGED <<ledger, claims, receipts, sent, returned>>

\* mutant: the empty answer of a failed transport is recorded as a result.
OutcomeEmpty(c) ==
  /\ caller[c].pc = "outcome"
  /\ receipts' = receipts \union {Signed("outcome", c)}
  /\ Goto(c, "complete")
  /\ UNCHANGED <<ledger, claims, sent, returned>>

\* The signed outcome; without an answer, or with one the transport cannot
\* return, the reservation is retained.
Outcome(c) ==
  /\ caller[c].pc = "outcome"
  /\ receipts' = receipts \union {Signed("outcome", c)}
  /\ IF caller[c].result \in Unusable \union {None}
     THEN caller' = [caller EXCEPT ![c] = Idle]
     ELSE Goto(c, "complete")
  /\ UNCHANGED <<ledger, claims, sent, returned>>

\* ledger.complete, and the response.
Complete(c) ==
  /\ caller[c].pc = "complete"
  /\ Row(c).state = "reserved"
  /\ ledger' = [ledger EXCEPT ![Key(c)] = [Row(c) EXCEPT !.state = "complete",
                                                     !.result = caller[c].result]]
  /\ returned' = Returned(c)
  /\ caller' = [caller EXCEPT ![c] = Idle]
  /\ UNCHANGED <<claims, receipts, sent>>

\* A step raises and the caller gets an error, or the process dies.
Fail(c) ==
  /\ caller[c].pc # "idle"
  /\ caller' = [caller EXCEPT ![c] = Idle]
  /\ UNCHANGED <<ledger, claims, receipts, sent, returned>>

Next ==
  \E c \in Callers :
    \/ \E k \in Keys, s \in Subjects :
         \E evidence \in SUBSET EvidenceOf[s] : Accept(c, k, s, evidence)
    \/ Reserve(c) \/ Refuse(c) \/ Recall(c) \/ Replay(c)
    \/ Claim(c) \/ CommitAuthorization(c) \/ LedgerAuthorized(c) \/ Revalidate(c)
    \/ \E r \in Results \union {None} : Call(c, r)
    \/ Outcome(c) \/ Complete(c) \/ Fail(c)

Spec == Init /\ [][Next]_vars

(***************************************************************************)
(* Properties.                                                             *)
(***************************************************************************)
\* Dispatches past their reservation.
Busy(c) == caller[c].pc \notin {"idle", "reserve", "replay"}

Owners(k) == {c \in Callers : Key(c) = k /\ Busy(c)}

\* A result reaches a caller only under a completed key, with the signed
\* authorization and the signed outcome of the same sending behind it and its
\* evidence used up (dispatch, response_for).
ResultsAreProven ==
  \A a \in returned :
    /\ ledger[a.key].state = "complete" /\ ledger[a.key].authorization
    /\ \E o \in receipts, p \in receipts :
         /\ o.kind = "outcome" /\ p.kind = "authorization"
         /\ o.key = a.key /\ p.key = a.key
         /\ o.subject = a.subject /\ p.subject = a.subject
         /\ o.result = a.result
         /\ o.evidence = p.evidence /\ o.evidence \subseteq claims

\* A reservation whose dispatch has ended is never sent, completed or taken
\* over, whatever duplicates arrive (ledger.reserve): it waits for an operator.
UnresolvedStaysBlocked ==
  [][\A k \in Keys : (ledger[k].state = "reserved" /\ Owners(k) = {}) =>
       /\ ledger'[k] = ledger[k]
       /\ \A x \in sent' \ sent : x.key # k]_vars

(***************************************************************************)
(* The inductive invariant behind these properties, in parts.              *)
(***************************************************************************)
Claimed(c) == Busy(c) /\ caller[c].pc # "claim"

After(c) == caller[c].pc \in {"outcome", "complete"}

\* A dispatch past its reservation has the key for itself, and the row is its.
KeyOwned ==
  /\ \A c, d \in Callers : (Busy(c) /\ Busy(d) /\ Key(c) = Key(d)) => c = d
  /\ \A c \in Callers : caller[c].pc # "idle" =>
       /\ Key(c) \in Keys /\ Subject(c) \in Subjects
       /\ caller[c].evidence \subseteq EvidenceOf[Subject(c)]
       /\ caller[c].evidence = {} => EvidenceOf[Subject(c)] = {}
  /\ \A c \in Callers : Busy(c) => Row(c).state = "reserved" /\ Row(c).subject = Subject(c)

\* Evidence past its claim is used up, and used by one dispatch or sending.
EvidenceOwned ==
  /\ \A x \in sent : x.evidence \subseteq claims
  /\ \A c \in Callers : Claimed(c) => caller[c].evidence \subseteq claims
  /\ \A c, d \in Callers :
       (Claimed(c) /\ Claimed(d) /\ c # d) => caller[c].evidence \cap caller[d].evidence = {}
  /\ \A c \in Callers, x \in sent :
       (Claimed(c) /\ ~After(c)) => caller[c].evidence \cap x.evidence = {}

\* The place of a dispatch tells whether its key was sent, and what is signed.
CallStanding ==
  \A c \in Callers :
    /\ caller[c].pc \notin {"idle", "replay", "outcome", "complete"} => caller[c].result = None
    /\ (Busy(c) /\ ~After(c)) => \A x \in sent : x.key # Key(c)
    /\ After(c) =>
         Sending(Key(c), Subject(c), caller[c].evidence, caller[c].result) \in sent
    /\ caller[c].pc \in {"ledger", "revalidate", "call", "outcome", "complete"} =>
         Receipt("authorization", Key(c), Subject(c), caller[c].evidence, None) \in receipts
    /\ caller[c].pc \in {"revalidate", "call", "outcome", "complete"} => Row(c).authorization
    /\ caller[c].pc = "complete" => caller[c].result # None /\ Signed("outcome", c) \in receipts

\* A row knows its subject; a sending is the only one of its key.
RowStanding ==
  /\ \A k \in Keys : ledger[k].state = "absent" <=> ledger[k].subject = None
  /\ \A x \in sent : ledger[x.key].subject = x.subject
  /\ \A x, y \in sent : x.key = y.key => x = y

\* A completed row is proven by what was sent and signed.
RowProven ==
  \A k \in Keys : ledger[k].state = "complete" =>
    \E x \in sent :
      /\ x.key = k /\ x.result = ledger[k].result /\ x.result # None
      /\ ledger[k].authorization
      /\ Receipt("authorization", k, x.subject, x.evidence, None) \in receipts
      /\ Receipt("outcome", k, x.subject, x.evidence, x.result) \in receipts

\* What is being replayed, and what was returned, is what the row says.
ReplayRecorded ==
  \A c \in Callers : caller[c].pc = "replay" =>
    /\ Row(c).state = "complete" /\ Row(c).subject = Subject(c)
    /\ caller[c].result = Row(c).result

AnswerRecorded ==
  \A a \in returned :
    /\ ledger[a.key].state = "complete" /\ ledger[a.key].subject = a.subject
    /\ ledger[a.key].result = a.result

Recorded == RowProven /\ ReplayRecorded /\ AnswerRecorded

MeshInvariant == KeyOwned /\ EvidenceOwned /\ CallStanding /\ RowStanding /\ Recorded

\* The mesh implements request keys that are bound, sent and answered once.
Bound == [k \in Keys |-> ledger[k].subject]

SentKeys == {x.key : x \in sent}

Spent == UNION {x.evidence : x \in sent}

Answer == [k \in Keys |-> IF \E x \in sent : x.key = k
                          THEN (CHOOSE x \in sent : x.key = k).result ELSE None]

Commands == INSTANCE IdempotentCommands WITH
  bound <- Bound, sent <- SentKeys, spent <- Spent, result <- Answer

ImplementsIdempotentCommands == Commands!Spec
=============================================================================
