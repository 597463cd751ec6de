------------------------- MODULE MeshDispatch_proofs -------------------------
(***************************************************************************)
(* Theorems about MeshDispatch, for all sets of callers, request keys,     *)
(* subjects and evidence.                                                  *)
(***************************************************************************)
EXTENDS MeshDispatch, TLAPS

USE MeshAssumption

\* The initial rows and dispatches are well typed.
LEMMA TypeInit == Init => TypeOK
  BY DEF Init, TypeOK, Absent, Idle, Rows, Dispatches, PCs

\* A dispatch that moves on, or ends, keeps its type.
LEMMA GotoType ==
  ASSUME TypeOK, NEW c \in Callers, NEW pc \in PCs, Goto(c, pc)
  PROVE  caller' \in [Callers -> Dispatches]
  BY DEF TypeOK, Goto, Dispatches

LEMMA EndType ==
  ASSUME TypeOK, NEW c \in Callers, caller' = [caller EXCEPT ![c] = Idle]
  PROVE  caller' \in [Callers -> Dispatches]
  BY DEF TypeOK, Idle, Dispatches, PCs

\* What a dispatch in progress carries.
LEMMA Carried ==
  ASSUME TypeOK, KeyOwned, NEW c \in Callers, caller[c].pc # "idle"
  PROVE  /\ Key(c) \in Keys /\ Subject(c) \in Subjects
         /\ caller[c].evidence \subseteq Evidence
         /\ caller[c].result \in Results \union {None}
         /\ caller[c].pc \in PCs
  BY DEF TypeOK, KeyOwned, Dispatches

\* Every action keeps the types of the variables it changes.
LEMMA TypeStep == TypeOK /\ MeshInvariant /\ [Next]_vars => TypeOK'
<1> SUFFICES ASSUME TypeOK, MeshInvariant, [Next]_vars PROVE TypeOK'
  OBVIOUS
<1>0. KeyOwned /\ CallStanding /\ Recorded
  BY DEF MeshInvariant
<1>1. ASSUME NEW c \in Callers, NEW k \in Keys, NEW s \in Subjects,
             NEW evidence \in SUBSET EvidenceOf[s], Accept(c, k, s, evidence)
      PROVE  TypeOK'
  BY <1>1 DEF Accept, TypeOK, Dispatches, PCs
<1>2. ASSUME NEW c \in Callers, Reserve(c) PROVE TypeOK'
  <2>1. Key(c) \in Keys /\ Subject(c) \in Subjects
    BY <1>0, <1>2, Carried DEF Reserve
  <2>2. ledger' \in [Keys -> Rows]
    BY <1>2, <2>1 DEF Reserve, TypeOK, Rows, Absent
  <2>3. caller' \in [Callers -> Dispatches]
    BY <1>2, GotoType DEF Reserve, PCs
  <2>4. QED
    BY <1>2, <2>2, <2>3 DEF Reserve, TypeOK
<1>3. ASSUME NEW c \in Callers, Refuse(c) PROVE TypeOK'
  BY <1>3, EndType DEF Refuse, TypeOK
<1>4. ASSUME NEW c \in Callers, Recall(c) PROVE TypeOK'
  <2>1. Key(c) \in Keys
    BY <1>0, <1>4, Carried DEF Recall
  <2>2. Row(c).result \in Results \union {None}
    BY <2>1 DEF TypeOK, Rows, Row
  <2>3. caller' \in [Callers -> Dispatches]
    BY <1>4, <2>2 DEF Recall, TypeOK, Dispatches, PCs
  <2>4. QED
    BY <1>4, <2>3 DEF Recall, TypeOK
<1>5. ASSUME NEW c \in Callers, Replay(c) PROVE TypeOK'
  <2>1. Key(c) \in Keys /\ Subject(c) \in Subjects /\ caller[c].result \in Results \union {None}
    BY <1>0, <1>5, Carried DEF Replay
  <2>2. caller[c].result # None
    BY <1>0, <1>5, <2>1 DEF Replay, Recorded, RowProven, ReplayRecorded, Row
  <2>3. returned' \subseteq Answers
    <3>1. [key |-> Key(c), subject |-> Subject(c), result |-> caller[c].result] \in Answers
      BY <2>1, <2>2 DEF Answers
    <3>2. QED
      BY <1>5, <3>1 DEF Replay, TypeOK, Returned
  <2>4. QED
    BY <1>5, <2>3, EndType DEF Replay, TypeOK
<1>6. ASSUME NEW c \in Callers, Claim(c) PROVE TypeOK'
  <2>1. caller[c].evidence \subseteq Evidence
    BY <1>0, <1>6, Carried DEF Claim
  <2>2. QED
    BY <1>6, <2>1, GotoType DEF Claim, TypeOK, PCs
<1>7. ASSUME NEW c \in Callers, CommitAuthorization(c) PROVE TypeOK'
  <2>1. Signed("authorization", c) \in Receipts
    BY <1>0, <1>7, Carried DEF CommitAuthorization, Signed, Receipt, Receipts
  <2>2. QED
    BY <1>7, <2>1, GotoType DEF CommitAuthorization, TypeOK, PCs
<1>8. ASSUME NEW c \in Callers, LedgerAuthorized(c) PROVE TypeOK'
  <2>1. Key(c) \in Keys
    BY <1>0, <1>8, Carried DEF LedgerAuthorized
  <2>2. ledger' \in [Keys -> Rows]
    BY <1>8, <2>1 DEF LedgerAuthorized, TypeOK, Rows, Row
  <2>3. QED
    BY <1>8, <2>2, GotoType DEF LedgerAuthorized, TypeOK, PCs
<1>9. ASSUME NEW c \in Callers, Revalidate(c) PROVE TypeOK'
  BY <1>9, GotoType DEF Revalidate, TypeOK, PCs
<1>10. ASSUME NEW c \in Callers, NEW r \in Results \union {None}, Call(c, r) PROVE TypeOK'
  <2>1. Sending(Key(c), Subject(c), caller[c].evidence, r) \in Sendings
    BY <1>0, <1>10, Carried DEF Call, Sending, Sendings
  <2>2. caller' \in [Callers -> Dispatches]
    BY <1>10 DEF Call, TypeOK, Dispatches, PCs
  <2>3. QED
    BY <1>10, <2>1, <2>2 DEF Call, TypeOK
<1>11. ASSUME NEW c \in Callers, Outcome(c) PROVE TypeOK'
  <2>1. Signed("outcome", c) \in Receipts
    BY <1>0, <1>11, Carried DEF Outcome, Signed, Receipt, Receipts
  <2>2. caller' \in [Callers -> Dispatches]
    BY <1>11, GotoType, EndType DEF Outcome, PCs
  <2>3. QED
    BY <1>11, <2>1, <2>2 DEF Outcome, TypeOK
<1>12. ASSUME NEW c \in Callers, Complete(c) PROVE TypeOK'
  <2>1. Key(c) \in Keys /\ Subject(c) \in Subjects /\ caller[c].result \in Results \union {None}
    BY <1>0, <1>12, Carried DEF Complete
  <2>2. caller[c].result # None
    BY <1>0, <1>12 DEF Complete, CallStanding
  <2>3. ledger' \in [Keys -> Rows]
    BY <1>12, <2>1 DEF Complete, TypeOK, Rows, Row
  <2>4. returned' \subseteq Answers
    BY <1>12, <2>1, <2>2 DEF Complete, TypeOK, Returned, Answers
  <2>5. QED
    BY <1>12, <2>3, <2>4, EndType DEF Complete, TypeOK
<1>13. ASSUME NEW c \in Callers, Fail(c) PROVE TypeOK'
  BY <1>13, EndType DEF Fail, TypeOK
<1>14. CASE UNCHANGED vars
  BY <1>14 DEF vars, TypeOK
<1>15. QED
  BY <1>1, <1>2, <1>3, <1>4, <1>5, <1>6, <1>7, <1>8, <1>9, <1>10, <1>11, <1>12,
     <1>13, <1>14 DEF Next

LEMMA InvariantInit == Init => MeshInvariant
<1> SUFFICES ASSUME Init PROVE MeshInvariant
  OBVIOUS
<1>1. KeyOwned /\ EvidenceOwned /\ CallStanding
  BY DEF Init, Idle, KeyOwned, EvidenceOwned, CallStanding, Busy, Claimed, After
<1>2. RowStanding /\ Recorded
  BY DEF Init, Idle, Absent, RowStanding, Recorded, RowProven, ReplayRecorded, AnswerRecorded
<1>3. QED
  BY <1>1, <1>2 DEF MeshInvariant

\* A step of one dispatch leaves the others where they are.
LEMMA Moves ==
  ASSUME TypeOK, NEW c \in Callers, NEW pc \in PCs, Goto(c, pc)
  PROVE  /\ \A d \in Callers : d # c => caller'[d] = caller[d]
         /\ caller'[c].pc = pc /\ caller'[c].key = caller[c].key
         /\ caller'[c].subject = caller[c].subject
         /\ caller'[c].evidence = caller[c].evidence
         /\ caller'[c].result = caller[c].result
  BY DEF TypeOK, Goto, Dispatches

LEMMA Ends ==
  ASSUME TypeOK, NEW c \in Callers, caller' = [caller EXCEPT ![c] = Idle]
  PROVE  /\ \A d \in Callers : d # c => caller'[d] = caller[d]
         /\ caller'[c].pc = "idle"
  BY DEF TypeOK, Idle

\* What is sent and returned has a key of the ledger.
LEMMA KnownKeys ==
  ASSUME TypeOK
  PROVE  (\A x \in sent : x.key \in Keys) /\ (\A a \in returned : a.key \in Keys)
  BY DEF TypeOK, Sendings, Answers

\* Completed rows that a step leaves alone stay proven, ...
LEMMA RowsStayProven ==
  ASSUME RowProven, sent \subseteq sent', receipts \subseteq receipts',
         \A k \in Keys : ledger'[k].state = "complete" => ledger'[k] = ledger[k]
  PROVE  RowProven'
<1> SUFFICES ASSUME NEW k \in Keys, ledger'[k].state = "complete"
             PROVE  RowProven!(k)'
  BY DEF RowProven
<1>1. PICK x \in sent :
        /\ x.key = k /\ x.result = ledger[k].result /\ x.result # None
        /\ ledger[k].authorization
        /\ Receipt("authorization", k, x.subject, x.evidence, None) \in receipts
        /\ Receipt("outcome", k, x.subject, x.evidence, x.result) \in receipts
  BY DEF RowProven
<1>2. QED
  BY <1>1 DEF Receipt

\* ... and so do the results that were returned from them, ...
LEMMA AnswersStayRecorded ==
  ASSUME TypeOK, AnswerRecorded, UNCHANGED returned,
         \A k \in Keys : ledger[k].state = "complete" => ledger'[k] = ledger[k]
  PROVE  AnswerRecorded'
  BY KnownKeys DEF AnswerRecorded

\* ... and those in replay, while no other dispatch begins to replay.
LEMMA ReplaysStayRecorded ==
  ASSUME KeyOwned, ReplayRecorded, NEW c \in Callers, caller'[c].pc # "replay",
         \A d \in Callers : d # c => caller'[d] = caller[d],
         \A k \in Keys : ledger[k].state = "complete" => ledger'[k] = ledger[k]
  PROVE  ReplayRecorded'
  BY DEF KeyOwned, ReplayRecorded, Key, Subject, Row

\* A dispatch that ends leaves the invariant as it was.
LEMMA EndStep ==
  ASSUME TypeOK, MeshInvariant, NEW c \in Callers,
         caller' = [caller EXCEPT ![c] = Idle],
         receipts \subseteq receipts', UNCHANGED <<ledger, claims, sent, returned>>
  PROVE  MeshInvariant'
<1>1. /\ \A d \in Callers : d # c => caller'[d] = caller[d]
      /\ caller'[c].pc = "idle"
  BY Ends
<1>2. KeyOwned'
  BY <1>1 DEF MeshInvariant, KeyOwned, Busy, Key, Subject, Row
<1>3. EvidenceOwned'
  BY <1>1 DEF MeshInvariant, EvidenceOwned, Claimed, After, Busy
<1>4. CallStanding'
  BY <1>1 DEF MeshInvariant, CallStanding, Busy, After, Key, Subject, Row, Signed, Receipt, Sending
<1>5. RowStanding'
  BY <1>1 DEF MeshInvariant, RowStanding
<1>6. Recorded'
  BY <1>1, RowsStayProven, ReplaysStayRecorded, AnswersStayRecorded DEF MeshInvariant, Recorded
<1>7. QED
  BY <1>2, <1>3, <1>4, <1>5, <1>6 DEF MeshInvariant

\* A new dispatch has nothing yet.
LEMMA AcceptStep ==
  ASSUME TypeOK, MeshInvariant, NEW c \in Callers, NEW k \in Keys, NEW s \in Subjects,
         NEW evidence \in SUBSET EvidenceOf[s], Accept(c, k, s, evidence)
  PROVE  MeshInvariant'
<1>1. /\ \A d \in Callers : d # c => caller'[d] = caller[d]
      /\ caller'[c] = [pc |-> "reserve", key |-> k, subject |-> s,
                       evidence |-> evidence, result |-> None]
      /\ UNCHANGED <<ledger, claims, receipts, sent, returned>>
      /\ evidence = {} => EvidenceOf[s] = {}
  BY DEF Accept, TypeOK
<1>2. KeyOwned'
  BY <1>1 DEF MeshInvariant, KeyOwned, Busy, Key, Subject, Row
<1>3. EvidenceOwned'
  BY <1>1 DEF MeshInvariant, EvidenceOwned, Claimed, After, Busy
<1>4. CallStanding'
  BY <1>1 DEF MeshInvariant, CallStanding, Busy, After, Key, Subject, Row, Signed, Receipt, Sending
<1>5. RowStanding'
  BY <1>1 DEF MeshInvariant, RowStanding
<1>6. Recorded'
  BY <1>1, RowsStayProven, ReplaysStayRecorded, AnswersStayRecorded DEF MeshInvariant, Recorded
<1>7. QED
  BY <1>2, <1>3, <1>4, <1>5, <1>6 DEF MeshInvariant

\* A reservation takes a key that has no row, hence no dispatch and no sending.
LEMMA ReserveStep ==
  ASSUME TypeOK, MeshInvariant, NEW c \in Callers, Reserve(c)
  PROVE  MeshInvariant'
<1> DEFINE k == caller[c].key
<1>1. /\ caller[c].pc = "reserve" /\ k \in Keys /\ caller[c].subject \in Subjects
      /\ ledger[k].state = "absent" /\ ledger[k].subject = None
      /\ \A d \in Callers : Busy(d) => d # c /\ Key(d) # k
      /\ \A x \in sent : x.key # k
  <2>1. caller[c].pc = "reserve" /\ ledger[k].state = "absent"
    BY DEF Reserve, Row, Key
  <2>2. k \in Keys /\ caller[c].subject \in Subjects
    BY <2>1 DEF MeshInvariant, KeyOwned, Key, Subject
  <2>3. ledger[k].subject = None
    BY <2>1, <2>2 DEF MeshInvariant, RowStanding
  <2>4. \A d \in Callers : Busy(d) => d # c /\ Key(d) # k
    BY <2>1 DEF MeshInvariant, KeyOwned, Busy, Key, Row
  <2>5. \A x \in sent : x.key # k
    BY <2>3 DEF MeshInvariant, RowStanding, TypeOK, Sendings
  <2>6. QED
    BY <2>1, <2>2, <2>3, <2>4, <2>5
<1>2. /\ \A d \in Callers : d # c => caller'[d] = caller[d]
      /\ caller'[c].pc = "claim" /\ caller'[c].key = caller[c].key
      /\ caller'[c].subject = caller[c].subject
      /\ caller'[c].evidence = caller[c].evidence
      /\ caller'[c].result = caller[c].result
  BY Moves DEF Reserve, PCs
<1>3. /\ \A j \in Keys : j # k => ledger'[j] = ledger[j]
      /\ ledger'[k] = [state |-> "reserved", subject |-> caller[c].subject,
                       authorization |-> FALSE, result |-> None]
      /\ UNCHANGED <<claims, receipts, sent, returned>>
  BY <1>1 DEF Reserve, TypeOK, Absent, Key, Subject
<1> HIDE DEF k
<1>4. KeyOwned'
  BY <1>1, <1>2, <1>3 DEF MeshInvariant, KeyOwned, Busy, Key, Subject, Row, k
<1>5. EvidenceOwned'
  BY <1>1, <1>2, <1>3 DEF MeshInvariant, EvidenceOwned, Claimed, After, Busy
<1>6. CallStanding'
  BY <1>1, <1>2, <1>3 DEF MeshInvariant, CallStanding, KeyOwned, Busy, After, Key, Subject, Row, Signed, Receipt, Sending, k
<1>7. RowStanding'
  BY <1>1, <1>2, <1>3, KnownKeys DEF MeshInvariant, RowStanding
<1>8. Recorded'
  BY <1>1, <1>2, <1>3, RowsStayProven, ReplaysStayRecorded, AnswersStayRecorded DEF MeshInvariant, Recorded
<1>9. QED
  BY <1>4, <1>5, <1>6, <1>7, <1>8 DEF MeshInvariant

\* A result is recalled from a completed row.
LEMMA RecallStep ==
  ASSUME TypeOK, MeshInvariant, NEW c \in Callers, Recall(c)
  PROVE  MeshInvariant'
<1>1. /\ caller[c].pc = "reserve" /\ Row(c).state = "complete" /\ Row(c).subject = Subject(c)
      /\ \A d \in Callers : d # c => caller'[d] = caller[d]
      /\ caller'[c].pc = "replay" /\ caller'[c].key = caller[c].key
      /\ caller'[c].subject = caller[c].subject
      /\ caller'[c].evidence = caller[c].evidence
      /\ caller'[c].result = Row(c).result
      /\ UNCHANGED <<ledger, claims, receipts, sent, returned>>
  BY DEF Recall, TypeOK, Dispatches
<1>2. KeyOwned'
  BY <1>1 DEF MeshInvariant, KeyOwned, Busy, Key, Subject, Row
<1>3. EvidenceOwned'
  BY <1>1 DEF MeshInvariant, EvidenceOwned, Claimed, After, Busy
<1>4. CallStanding'
  BY <1>1 DEF MeshInvariant, CallStanding, Busy, After, Key, Subject, Row, Signed, Receipt, Sending
<1>5. RowStanding'
  BY <1>1 DEF MeshInvariant, RowStanding
<1>6. Recorded'
  <2>1. ReplayRecorded'
    BY <1>1 DEF MeshInvariant, Recorded, ReplayRecorded, Key, Subject, Row
  <2>2. QED
    BY <1>1, <2>1, RowsStayProven, AnswersStayRecorded DEF MeshInvariant, Recorded
<1>7. QED
  BY <1>2, <1>3, <1>4, <1>5, <1>6 DEF MeshInvariant

\* A replayed result is the one the row records.
LEMMA ReplayStep ==
  ASSUME TypeOK, MeshInvariant, NEW c \in Callers, Replay(c)
  PROVE  MeshInvariant'
<1>1. /\ caller[c].pc = "replay"
      /\ \A d \in Callers : d # c => caller'[d] = caller[d]
      /\ caller'[c].pc = "idle"
      /\ UNCHANGED <<ledger, claims, receipts, sent>>
  BY Ends DEF Replay
<1>2. returned' = returned \union
        {[key |-> Key(c), subject |-> Subject(c), result |-> caller[c].result]}
  BY DEF Replay, Returned
<1>3. KeyOwned'
  BY <1>1 DEF MeshInvariant, KeyOwned, Busy, Key, Subject, Row
<1>4. EvidenceOwned'
  BY <1>1 DEF MeshInvariant, EvidenceOwned, Claimed, After, Busy
<1>5. CallStanding'
  BY <1>1 DEF MeshInvariant, CallStanding, Busy, After, Key, Subject, Row, Signed, Receipt, Sending
<1>6. RowStanding'
  BY <1>1 DEF MeshInvariant, RowStanding
<1>7. Recorded'
  <2>1. AnswerRecorded'
    BY <1>1, <1>2 DEF MeshInvariant, Recorded, ReplayRecorded, AnswerRecorded, Key, Subject, Row
  <2>2. QED
    BY <1>1, <2>1, RowsStayProven, ReplaysStayRecorded DEF MeshInvariant, Recorded
<1>8. QED
  BY <1>3, <1>4, <1>5, <1>6, <1>7 DEF MeshInvariant

\* Evidence nobody claimed is of no dispatch past its claim and of no sending.
LEMMA ClaimStep ==
  ASSUME TypeOK, MeshInvariant, NEW c \in Callers, Claim(c)
  PROVE  MeshInvariant'
<1>1. /\ caller[c].pc = "claim"
      /\ caller[c].evidence \cap claims = {}
      /\ \A d \in Callers : d # c => caller'[d] = caller[d]
      /\ caller'[c].pc = "sign" /\ caller'[c].key = caller[c].key
      /\ caller'[c].subject = caller[c].subject
      /\ caller'[c].evidence = caller[c].evidence
      /\ caller'[c].result = caller[c].result
      /\ claims' = claims \union caller[c].evidence
      /\ UNCHANGED <<ledger, receipts, sent, returned>>
  BY Moves DEF Claim, PCs
<1>2. KeyOwned'
  BY <1>1 DEF MeshInvariant, KeyOwned, Busy, Key, Subject, Row
<1>3. EvidenceOwned'
  BY <1>1 DEF MeshInvariant, EvidenceOwned, Claimed, After, Busy
<1>4. CallStanding'
  BY <1>1 DEF MeshInvariant, CallStanding, Busy, After, Key, Subject, Row, Signed, Receipt, Sending
<1>5. RowStanding'
  BY <1>1 DEF MeshInvariant, RowStanding
<1>6. Recorded'
  BY <1>1, RowsStayProven, ReplaysStayRecorded, AnswersStayRecorded DEF MeshInvariant, Recorded
<1>7. QED
  BY <1>2, <1>3, <1>4, <1>5, <1>6 DEF MeshInvariant

\* The authorization is signed.
LEMMA CommitStep ==
  ASSUME TypeOK, MeshInvariant, NEW c \in Callers, CommitAuthorization(c)
  PROVE  MeshInvariant'
<1>1. /\ caller[c].pc = "sign"
      /\ \A d \in Callers : d # c => caller'[d] = caller[d]
      /\ caller'[c].pc = "ledger" /\ caller'[c].key = caller[c].key
      /\ caller'[c].subject = caller[c].subject
      /\ caller'[c].evidence = caller[c].evidence
      /\ caller'[c].result = caller[c].result
      /\ receipts' = receipts \union {Signed("authorization", c)}
      /\ UNCHANGED <<ledger, claims, sent, returned>>
  BY Moves DEF CommitAuthorization, PCs
<1>2. KeyOwned'
  BY <1>1 DEF MeshInvariant, KeyOwned, Busy, Key, Subject, Row
<1>3. EvidenceOwned'
  BY <1>1 DEF MeshInvariant, EvidenceOwned, Claimed, After, Busy
<1>4. CallStanding'
  <2>1. Signed("authorization", c)
          = Receipt("authorization", Key(c), Subject(c), caller[c].evidence, None)
    BY <1>1 DEF MeshInvariant, CallStanding, Signed
  <2>2. QED
    BY <1>1, <2>1 DEF MeshInvariant, CallStanding, Busy, After, Key, Subject, Row, Signed, Receipt, Sending
<1>5. RowStanding'
  BY <1>1 DEF MeshInvariant, RowStanding
<1>6. Recorded'
  BY <1>1, RowsStayProven, ReplaysStayRecorded, AnswersStayRecorded DEF MeshInvariant, Recorded
<1>7. QED
  BY <1>2, <1>3, <1>4, <1>5, <1>6 DEF MeshInvariant

\* The row of a dispatch past its reservation is reserved: the ledger takes the
\* digest of its authorization.
LEMMA AuthorizedStep ==
  ASSUME TypeOK, MeshInvariant, NEW c \in Callers, LedgerAuthorized(c)
  PROVE  MeshInvariant'
<1> DEFINE k == caller[c].key
<1>1. /\ caller[c].pc = "ledger"
      /\ \A d \in Callers : d # c => caller'[d] = caller[d]
      /\ caller'[c].pc = "revalidate" /\ caller'[c].key = caller[c].key
      /\ caller'[c].subject = caller[c].subject
      /\ caller'[c].evidence = caller[c].evidence
      /\ caller'[c].result = caller[c].result
      /\ UNCHANGED <<claims, receipts, sent, returned>>
  BY Moves DEF LedgerAuthorized, PCs
<1>2. k \in Keys /\ ledger[k].state = "reserved"
  BY <1>1 DEF MeshInvariant, KeyOwned, Busy, Key, Row
<1>3. /\ \A j \in Keys : j # k => ledger'[j] = ledger[j]
      /\ ledger'[k].state = ledger[k].state /\ ledger'[k].subject = ledger[k].subject
      /\ ledger'[k].result = ledger[k].result /\ ledger'[k].authorization = TRUE
  BY <1>2 DEF LedgerAuthorized, TypeOK, Rows, Key, Row
<1> HIDE DEF k
<1>4. KeyOwned'
  BY <1>1, <1>3 DEF MeshInvariant, KeyOwned, Busy, Key, Subject, Row, k
<1>5. EvidenceOwned'
  BY <1>1 DEF MeshInvariant, EvidenceOwned, Claimed, After, Busy
<1>6. CallStanding'
  BY <1>1, <1>3 DEF MeshInvariant, CallStanding, KeyOwned, Busy, After, Key, Subject, Row, Signed, Receipt, Sending, k
<1>7. RowStanding'
  BY <1>1, <1>3, KnownKeys DEF MeshInvariant, RowStanding
<1>8. Recorded'
  <2>1. \A j \in Keys : (ledger[j].state = "complete" \/ ledger'[j].state = "complete") => ledger'[j] = ledger[j]
    BY <1>2, <1>3
  <2>2. QED
    BY <1>1, <2>1, RowsStayProven, ReplaysStayRecorded, AnswersStayRecorded DEF MeshInvariant, Recorded
<1>9. QED
  BY <1>4, <1>5, <1>6, <1>7, <1>8 DEF MeshInvariant

LEMMA RevalidateStep ==
  ASSUME TypeOK, MeshInvariant, NEW c \in Callers, Revalidate(c)
  PROVE  MeshInvariant'
<1>1. /\ caller[c].pc = "revalidate"
      /\ \A d \in Callers : d # c => caller'[d] = caller[d]
      /\ caller'[c].pc = "call" /\ caller'[c].key = caller[c].key
      /\ caller'[c].subject = caller[c].subject
      /\ caller'[c].evidence = caller[c].evidence
      /\ caller'[c].result = caller[c].result
      /\ UNCHANGED <<ledger, claims, receipts, sent, returned>>
  BY Moves DEF Revalidate, PCs
<1>2. KeyOwned'
  BY <1>1 DEF MeshInvariant, KeyOwned, Busy, Key, Subject, Row
<1>3. EvidenceOwned'
  BY <1>1 DEF MeshInvariant, EvidenceOwned, Claimed, After, Busy
<1>4. CallStanding'
  BY <1>1 DEF MeshInvariant, CallStanding, Busy, After, Key, Subject, Row, Signed, Receipt, Sending
<1>5. RowStanding'
  BY <1>1 DEF MeshInvariant, RowStanding
<1>6. Recorded'
  BY <1>1, RowsStayProven, ReplaysStayRecorded, AnswersStayRecorded DEF MeshInvariant, Recorded
<1>7. QED
  BY <1>2, <1>3, <1>4, <1>5, <1>6 DEF MeshInvariant

\* The sending is the first of its key, and its evidence is of no other.
LEMMA CallStep ==
  ASSUME TypeOK, MeshInvariant, NEW c \in Callers, NEW r \in Results \union {None}, Call(c, r)
  PROVE  MeshInvariant'
<1> DEFINE x == Sending(Key(c), Subject(c), caller[c].evidence, r)
<1>1. /\ caller[c].pc = "call"
      /\ \A d \in Callers : d # c => caller'[d] = caller[d]
      /\ caller'[c].pc = "outcome" /\ caller'[c].key = caller[c].key
      /\ caller'[c].subject = caller[c].subject
      /\ caller'[c].evidence = caller[c].evidence
      /\ caller'[c].result = r
      /\ UNCHANGED <<ledger, claims, receipts, returned>>
  BY DEF Call, TypeOK, Dispatches
<1>2. /\ sent' = sent \union {x}
      /\ x.key = caller[c].key /\ x.subject = caller[c].subject
      /\ x.evidence = caller[c].evidence /\ x.result = r
  BY DEF Call, Sending, Key, Subject
<1> HIDE DEF x
<1>3. KeyOwned'
  BY <1>1 DEF MeshInvariant, KeyOwned, Busy, Key, Subject, Row
<1>4. EvidenceOwned'
  BY <1>1, <1>2 DEF MeshInvariant, EvidenceOwned, Claimed, After, Busy
<1>5. CallStanding'
  <2>1. \A d \in Callers : Busy(d) /\ Key(d) = Key(c) => d = c
    BY <1>1 DEF MeshInvariant, KeyOwned, Busy
  <2>2. ASSUME NEW d \in Callers, d # c PROVE CallStanding!(d)'
    BY <1>1, <1>2, <2>1, <2>2 DEF MeshInvariant, CallStanding, Busy, After, Key, Subject, Row, Signed, Receipt, Sending
  <2>3. CallStanding!(c)'
    BY <1>1, <1>2 DEF MeshInvariant, CallStanding, Busy, After, Key, Subject, Row, Signed, Receipt, Sending, x
  <2>4. QED
    BY <2>2, <2>3 DEF CallStanding
<1>6. RowStanding'
  BY <1>1, <1>2 DEF MeshInvariant, KeyOwned, CallStanding, Busy, After, Key, Subject, Row, RowStanding
<1>7. Recorded'
  BY <1>1, <1>2, RowsStayProven, ReplaysStayRecorded, AnswersStayRecorded DEF MeshInvariant, Recorded
<1>8. QED
  BY <1>3, <1>4, <1>5, <1>6, <1>7 DEF MeshInvariant

\* The outcome is signed, and the dispatch ends or completes its row.
LEMMA OutcomeStep ==
  ASSUME TypeOK, MeshInvariant, NEW c \in Callers, Outcome(c)
  PROVE  MeshInvariant'
<1>1. CASE caller[c].result \in Unusable \union {None}
  BY <1>1, EndStep DEF Outcome
<1>2. CASE caller[c].result \notin Unusable \union {None}
  <2>1. /\ caller[c].pc = "outcome"
        /\ \A d \in Callers : d # c => caller'[d] = caller[d]
        /\ caller'[c].pc = "complete" /\ caller'[c].key = caller[c].key
        /\ caller'[c].subject = caller[c].subject
        /\ caller'[c].evidence = caller[c].evidence
        /\ caller'[c].result = caller[c].result
        /\ UNCHANGED <<ledger, claims, sent, returned>>
        /\ receipts' = receipts \union {Signed("outcome", c)}
    BY <1>2, Moves DEF Outcome, PCs
  <2>2. KeyOwned'
    BY <2>1 DEF MeshInvariant, KeyOwned, Busy, Key, Subject, Row
  <2>3. EvidenceOwned'
    BY <2>1 DEF MeshInvariant, EvidenceOwned, Claimed, After, Busy
  <2>4. CallStanding'
    BY <1>2, <2>1 DEF MeshInvariant, CallStanding, Busy, After, Key, Subject, Row, Signed, Receipt, Sending
  <2>5. RowStanding'
    BY <2>1 DEF MeshInvariant, RowStanding
  <2>6. Recorded'
    BY <2>1, RowsStayProven, ReplaysStayRecorded, AnswersStayRecorded DEF MeshInvariant, Recorded
  <2>7. QED
    BY <2>2, <2>3, <2>4, <2>5, <2>6 DEF MeshInvariant
<1>3. QED
  BY <1>1, <1>2

\* The row takes the result of its sending, and only its dispatch ends.
LEMMA CompleteStep ==
  ASSUME TypeOK, MeshInvariant, NEW c \in Callers, Complete(c)
  PROVE  MeshInvariant'
<1> DEFINE k == caller[c].key
<1>1. /\ caller[c].pc = "complete"
      /\ \A d \in Callers : d # c => caller'[d] = caller[d]
      /\ caller'[c].pc = "idle"
      /\ UNCHANGED <<claims, receipts, sent>>
      /\ returned' = returned \union
           {[key |-> k, subject |-> caller[c].subject, result |-> caller[c].result]}
  BY Ends DEF Complete, Returned, Key, Subject
<1>2. /\ k \in Keys /\ ledger[k].state = "reserved" /\ ledger[k].subject = caller[c].subject
      /\ \A d \in Callers : Busy(d) /\ Key(d) = k => d = c
  BY <1>1 DEF MeshInvariant, KeyOwned, Busy, Key, Subject, Row
<1>3. /\ ledger[k].authorization /\ caller[c].result # None
      /\ Sending(k, caller[c].subject, caller[c].evidence, caller[c].result) \in sent
      /\ Receipt("authorization", k, caller[c].subject, caller[c].evidence, None) \in receipts
      /\ Receipt("outcome", k, caller[c].subject, caller[c].evidence, caller[c].result) \in receipts
  BY <1>1 DEF MeshInvariant, CallStanding, After, Signed, Key, Subject, Row
<1>4. /\ \A j \in Keys : j # k => ledger'[j] = ledger[j]
      /\ ledger'[k].state = "complete" /\ ledger'[k].subject = ledger[k].subject
      /\ ledger'[k].result = caller[c].result
      /\ ledger'[k].authorization = ledger[k].authorization
  BY <1>2 DEF Complete, TypeOK, Rows, Key, Row
<1> HIDE DEF k
<1>5. KeyOwned'
  BY <1>1, <1>2, <1>4 DEF MeshInvariant, KeyOwned, Busy, Key, Subject, Row
<1>6. EvidenceOwned'
  BY <1>1 DEF MeshInvariant, EvidenceOwned, Claimed, After, Busy
<1>7. CallStanding'
  BY <1>1, <1>2, <1>4 DEF MeshInvariant, CallStanding, KeyOwned, Busy, After, Key, Subject, Row, Signed, Receipt, Sending
<1>8. RowStanding'
  BY <1>1, <1>2, <1>4, KnownKeys DEF MeshInvariant, RowStanding
<1>9. Recorded'
  <2>1. \A j \in Keys : ledger[j].state = "complete" => ledger'[j] = ledger[j]
    BY <1>2, <1>4
  <2>2. RowProven'
    <3>1. PICK x \in sent : /\ x.key = k /\ x.subject = caller[c].subject
                            /\ x.evidence = caller[c].evidence /\ x.result = caller[c].result
      BY <1>3 DEF Sending
    <3>2. ASSUME NEW j \in Keys, j = k PROVE RowProven!(j)'
      BY <1>1, <1>3, <1>4, <3>1, <3>2 DEF Receipt
    <3>3. ASSUME NEW j \in Keys, j # k PROVE RowProven!(j)'
      BY <1>1, <1>4, <3>3 DEF MeshInvariant, Recorded, RowProven, Receipt
    <3>4. QED
      BY <3>2, <3>3 DEF RowProven
  <2>3. AnswerRecorded'
    BY <1>1, <1>2, <1>4, <2>1, KnownKeys DEF MeshInvariant, Recorded, AnswerRecorded
  <2>4. QED
    BY <1>1, <2>1, <2>2, <2>3, ReplaysStayRecorded DEF MeshInvariant, Recorded
<1>10. QED
  BY <1>5, <1>6, <1>7, <1>8, <1>9 DEF MeshInvariant

LEMMA InvariantStep == TypeOK /\ MeshInvariant /\ [Next]_vars => MeshInvariant'
<1> SUFFICES ASSUME TypeOK, MeshInvariant, [Next]_vars PROVE MeshInvariant'
  OBVIOUS
<1>1. ASSUME NEW c \in Callers, Refuse(c) \/ Fail(c) PROVE MeshInvariant'
  BY <1>1, EndStep DEF Refuse, Fail
<1>2. CASE UNCHANGED vars
  <2>1. KeyOwned' /\ EvidenceOwned'
    BY <1>2 DEF vars, MeshInvariant, KeyOwned, EvidenceOwned, Busy, Claimed, After, Key, Subject, Row
  <2>2. CallStanding'
    BY <1>2 DEF vars, MeshInvariant, CallStanding, Busy, After, Key, Subject, Row, Signed, Receipt, Sending
  <2>3. RowStanding'
    BY <1>2 DEF vars, MeshInvariant, RowStanding
  <2>4. RowProven' /\ AnswerRecorded'
    BY <1>2, RowsStayProven, AnswersStayRecorded DEF vars, MeshInvariant, Recorded
  <2>5. ReplayRecorded'
    BY <1>2 DEF vars, MeshInvariant, Recorded, ReplayRecorded, Key, Subject, Row
  <2>6. QED
    BY <2>1, <2>2, <2>3, <2>4, <2>5 DEF MeshInvariant, Recorded
<1>3. QED
  BY <1>1, <1>2, AcceptStep, ReserveStep, RecallStep, ReplayStep, ClaimStep, CommitStep,
     AuthorizedStep, RevalidateStep, CallStep, OutcomeStep, CompleteStep DEF Next

\* Every reachable state of the mesh is well typed, and every part of the
\* invariant above holds in it (dispatch, reserve, complete).
THEOREM MeshCorrect == Spec => [](TypeOK /\ MeshInvariant)
<1>1. Init => TypeOK /\ MeshInvariant
  BY TypeInit, InvariantInit
<1>2. TypeOK /\ MeshInvariant /\ [Next]_vars => (TypeOK /\ MeshInvariant)'
  BY TypeStep, InvariantStep
<1>3. QED
  BY <1>1, <1>2, PTL DEF Spec

THEOREM TypeCorrect == Spec => []TypeOK
  BY MeshCorrect, PTL

\* However callers race and dispatches die, a result that reaches a caller has
\* its signed authorization and outcome behind it, and its evidence used up
\* (dispatch, response_for).
THEOREM ProvenResults == Spec => []ResultsAreProven
<1>1. TypeOK /\ MeshInvariant => ResultsAreProven
  <2> SUFFICES ASSUME TypeOK, MeshInvariant, NEW a \in returned
               PROVE  ResultsAreProven!(a)
    BY DEF ResultsAreProven
  <2>1. /\ ledger[a.key].state = "complete" /\ ledger[a.key].subject = a.subject
        /\ ledger[a.key].result = a.result /\ a.key \in Keys
    BY KnownKeys DEF MeshInvariant, Recorded, AnswerRecorded
  <2>2. PICK x \in sent :
          /\ x.key = a.key /\ x.result = a.result /\ ledger[a.key].authorization
          /\ Receipt("authorization", a.key, x.subject, x.evidence, None) \in receipts
          /\ Receipt("outcome", a.key, x.subject, x.evidence, x.result) \in receipts
    BY <2>1 DEF MeshInvariant, Recorded, RowProven
  <2>3. x.subject = a.subject /\ x.evidence \subseteq claims
    BY <2>1, <2>2 DEF MeshInvariant, RowStanding, EvidenceOwned
  <2>4. QED
    BY <2>1, <2>2, <2>3 DEF Receipt
<1>2. QED
  BY <1>1, MeshCorrect, PTL

\* A reservation without its dispatch is left as it is, whatever duplicates
\* arrive (ledger.reserve).
THEOREM UnresolvedBlocked == Spec => UnresolvedStaysBlocked
<1> DEFINE Blocked == \A k \in Keys : (ledger[k].state = "reserved" /\ Owners(k) = {}) =>
       /\ ledger'[k] = ledger[k]
       /\ \A x \in sent' \ sent : x.key # k
<1>1. TypeOK /\ MeshInvariant /\ [Next]_vars => [Blocked]_vars
  <2> SUFFICES ASSUME TypeOK, MeshInvariant, Next, NEW k \in Keys,
                      ledger[k].state = "reserved", Owners(k) = {}
               PROVE  ledger'[k] = ledger[k] /\ \A x \in sent' \ sent : x.key # k
    BY DEF vars
  <2>1. \A c \in Callers : Key(c) = k => ~Busy(c)
    BY DEF Owners
  <2>2. PICK c \in Callers : Next!(c)
    BY DEF Next
  <2>3. CASE Reserve(c)
    BY <2>3 DEF Reserve, Row, TypeOK
  <2>4. CASE LedgerAuthorized(c)
    BY <2>1, <2>4 DEF LedgerAuthorized, Busy, TypeOK
  <2>5. CASE Complete(c)
    BY <2>1, <2>5 DEF Complete, Busy, TypeOK
  <2>6. CASE \E r \in Results \union {None} : Call(c, r)
    BY <2>1, <2>6 DEF Call, Busy, Sending
  <2>7. CASE \/ \E j \in Keys, s \in Subjects :
                  \E evidence \in SUBSET EvidenceOf[s] : Accept(c, j, s, evidence)
             \/ Refuse(c) \/ Recall(c) \/ Replay(c) \/ Claim(c) \/ CommitAuthorization(c)
             \/ Revalidate(c) \/ Outcome(c) \/ Fail(c)
    BY <2>7 DEF Accept, Refuse, Recall, Replay, Claim, CommitAuthorization, Revalidate,
       Outcome, Fail
  <2>8. QED
    BY <2>2, <2>3, <2>4, <2>5, <2>6, <2>7
<1>2. QED
  BY <1>1, MeshCorrect, PTL DEF Spec, UnresolvedStaysBlocked

\* The provider's answer to the one sending of a key.
LEMMA AnswerOfSending ==
  ASSUME TypeOK, RowStanding, NEW x \in sent
  PROVE  x.key \in Keys /\ Answer[x.key] = x.result
<1>1. x.key \in Keys
  BY KnownKeys
<1>2. (CHOOSE y \in sent : y.key = x.key) = x
  BY DEF RowStanding
<1>3. QED
  BY <1>1, <1>2 DEF Answer

\* What a step leaves alone, the promise does not see change.
LEMMA SendingsKept ==
  ASSUME UNCHANGED sent PROVE UNCHANGED <<SentKeys, Spent, Answer>>
  BY DEF SentKeys, Spent, Answer

LEMMA BoundKept ==
  ASSUME \A k \in Keys : ledger'[k].subject = ledger[k].subject PROVE Bound' = Bound
  BY DEF Bound

\* A reservation binds the key.
LEMMA ReserveBinds ==
  ASSUME TypeOK, MeshInvariant, NEW c \in Callers, Reserve(c)
  PROVE  \E k \in Keys, s \in Subjects : Commands!Bind(k, s)
<1>1. Key(c) \in Keys /\ Subject(c) \in Subjects /\ ledger[Key(c)].subject = None
  BY DEF Reserve, MeshInvariant, KeyOwned, RowStanding, Row
<1>2. Bound[Key(c)] = None
  BY <1>1 DEF Bound
<1>3. Bound' = [Bound EXCEPT ![Key(c)] = Subject(c)]
  BY <1>1 DEF Bound, Reserve, Absent, TypeOK
<1>4. UNCHANGED <<SentKeys, Spent, Answer, returned>>
  BY SendingsKept DEF Reserve
<1>5. QED
  BY <1>1, <1>2, <1>3, <1>4 DEF Commands!Bind

\* The provider call sends it, with evidence nothing else has spent.
LEMMA CallSends ==
  ASSUME TypeOK, MeshInvariant, NEW c \in Callers, NEW r \in Results \union {None}, Call(c, r)
  PROVE  \E k \in Keys, evidence \in SUBSET UNION {EvidenceOf[s] : s \in Subjects} :
           Commands!Send(k, evidence, r)
<1> DEFINE k == Key(c)
           evidence == caller[c].evidence
           x == Sending(k, Subject(c), evidence, r)
<1>1. caller[c].pc = "call" /\ Busy(c) /\ ~After(c) /\ Claimed(c)
  BY DEF Call, Busy, After, Claimed
<1>2. /\ k \in Keys /\ Subject(c) \in Subjects /\ ledger[k].subject = Subject(c)
      /\ evidence \subseteq EvidenceOf[Subject(c)]
      /\ evidence = {} => EvidenceOf[Subject(c)] = {}
  BY <1>1 DEF MeshInvariant, KeyOwned, Row
<1>3. \A y \in sent : y.key # k /\ y.evidence \cap evidence = {}
  BY <1>1 DEF MeshInvariant, CallStanding, EvidenceOwned
<1>4. /\ sent' = sent \union {x} /\ x.key = k /\ x.evidence = evidence /\ x.result = r
      /\ UNCHANGED <<ledger, returned>>
  BY DEF Call, Sending
<1>5. evidence \in SUBSET UNION {EvidenceOf[s] : s \in Subjects}
  BY <1>2
<1> HIDE DEF k, evidence, x
<1>6. Bound[k] = Subject(c) /\ Subject(c) # None /\ Bound' = Bound
  BY <1>2, <1>4, BoundKept DEF Bound
<1>7. k \notin SentKeys /\ SentKeys' = SentKeys \union {k}
  BY <1>3, <1>4 DEF SentKeys
<1>8. evidence \cap Spent = {} /\ Spent' = Spent \union evidence
  BY <1>3, <1>4 DEF Spent
<1>9. Answer' = [Answer EXCEPT ![k] = r]
  <2>1. ASSUME NEW j \in Keys, j # k PROVE Answer'[j] = Answer[j]
    <3>1. \A y : (y \in sent' /\ y.key = j) <=> (y \in sent /\ y.key = j)
      BY <1>4, <2>1
    <3>2. (CHOOSE y \in sent' : y.key = j) = (CHOOSE y \in sent : y.key = j)
      BY <3>1
    <3>3. QED
      BY <3>1, <3>2 DEF Answer
  <2>2. ASSUME NEW j \in Keys, j = k PROVE Answer'[j] = r
    <3>1. (CHOOSE y \in sent' : y.key = j) = x
      BY <1>3, <1>4, <2>2
    <3>2. QED
      BY <1>4, <2>2, <3>1 DEF Answer
  <2>3. /\ Answer = [j \in Keys |-> Answer[j]]
        /\ Answer' = [j \in Keys |-> Answer'[j]]
    BY DEF Answer
  <2>4. Answer' = [j \in Keys |-> IF j = k THEN r ELSE Answer[j]]
    BY <2>1, <2>2, <2>3
  <2>5. QED
    BY <2>3, <2>4
<1>10. Commands!Send(k, evidence, r)
  BY <1>2, <1>4, <1>6, <1>7, <1>8, <1>9 DEF Commands!Send
<1>11. QED
  BY <1>2, <1>5, <1>10

\* A recorded result and a replayed one are the provider's answer.
LEMMA ResultReturns ==
  ASSUME TypeOK, MeshInvariant, NEW c \in Callers, Complete(c) \/ Replay(c)
  PROVE  \E k \in Keys : Commands!Return(k)
<1> DEFINE k == Key(c)
<1>1. k \in Keys /\ ledger[k].subject = Subject(c)
  BY DEF Complete, Replay, MeshInvariant, KeyOwned, Recorded, ReplayRecorded, Busy, Row
<1>2. Answer[k] = caller[c].result /\ caller[c].result # None
  <2>1. CASE Complete(c)
    <3>1. Sending(k, Subject(c), caller[c].evidence, caller[c].result) \in sent
          /\ caller[c].result # None
      BY <2>1 DEF Complete, MeshInvariant, CallStanding, After
    <3>2. QED
      BY <3>1, AnswerOfSending DEF MeshInvariant, Sending
  <2>2. CASE Replay(c)
    <3>1. ledger[k].state = "complete" /\ caller[c].result = ledger[k].result
      BY <2>2 DEF Replay, MeshInvariant, Recorded, ReplayRecorded, Row
    <3>2. PICK x \in sent : x.key = k /\ x.result = ledger[k].result /\ x.result # None
      BY <1>1, <3>1 DEF MeshInvariant, Recorded, RowProven
    <3>3. QED
      BY <3>1, <3>2, AnswerOfSending DEF MeshInvariant
  <2>3. QED
    BY <2>1, <2>2
<1>3. Bound[k] = Subject(c) /\ Bound' = Bound
  <2>1. \A j \in Keys : ledger'[j].subject = ledger[j].subject
    BY <1>1 DEF Complete, Replay, TypeOK, Rows, Row
  <2>2. QED
    BY <1>1, <2>1, BoundKept DEF Bound
<1>4. UNCHANGED <<SentKeys, Spent, Answer>>
  BY SendingsKept DEF Complete, Replay
<1>5. returned' = returned \union {[key |-> k, subject |-> Subject(c), result |-> caller[c].result]}
  BY DEF Complete, Replay, Returned
<1>6. QED
  BY <1>1, <1>2, <1>3, <1>4, <1>5 DEF Commands!Return

\* Every other step is invisible.
LEMMA OtherStutters ==
  ASSUME TypeOK, MeshInvariant, NEW c \in Callers,
         \/ \E k \in Keys, s \in Subjects :
              \E evidence \in SUBSET EvidenceOf[s] : Accept(c, k, s, evidence)
         \/ Refuse(c) \/ Recall(c) \/ Claim(c) \/ CommitAuthorization(c)
         \/ LedgerAuthorized(c) \/ Revalidate(c) \/ Outcome(c) \/ Fail(c)
  PROVE  UNCHANGED <<Bound, SentKeys, Spent, Answer, returned>>
<1>1. sent' = sent /\ returned' = returned
  BY DEF Accept, Refuse, Recall, Claim, CommitAuthorization, LedgerAuthorized, Revalidate,
     Outcome, Fail
<1>2. \A k \in Keys : ledger'[k].subject = ledger[k].subject
  <2>1. CASE LedgerAuthorized(c)
    BY <2>1 DEF LedgerAuthorized, TypeOK, Rows, Row
  <2>2. CASE ~LedgerAuthorized(c)
    BY <2>2 DEF Accept, Refuse, Recall, Claim, CommitAuthorization, Revalidate, Outcome, Fail
  <2>3. QED
    BY <2>1, <2>2
<1>3. QED
  BY <1>1, <1>2, SendingsKept, BoundKept

\* The mesh keeps the promise of IdempotentCommands: a request key is bound
\* once, sent at most once with evidence of its own, and every result returned
\* for it is the provider's answer to that sending.
THEOREM MeshImplementsCommands == Spec => ImplementsIdempotentCommands
<1>1. Init => Commands!Init
  BY DEF Init, Absent, Bound, SentKeys, Spent, Answer, Commands!Init
<1>2. TypeOK /\ MeshInvariant /\ [Next]_vars => [Commands!Next]_(Commands!vars)
  <2> SUFFICES ASSUME TypeOK, MeshInvariant, [Next]_vars
               PROVE  Commands!Next \/ UNCHANGED Commands!vars
    OBVIOUS
  <2>1. CASE UNCHANGED vars
    BY <2>1, SendingsKept, BoundKept DEF vars, Commands!vars
  <2>2. CASE Next
    <3>1. PICK c \in Callers : Next!(c)
      BY <2>2 DEF Next
    <3>2. CASE Reserve(c)
      BY <3>2, ReserveBinds DEF Commands!Next
    <3>3. CASE \E r \in Results \union {None} : Call(c, r)
      BY <3>3, CallSends DEF Commands!Next
    <3>4. CASE Complete(c) \/ Replay(c)
      BY <3>4, ResultReturns DEF Commands!Next
    <3>5. CASE ~(Reserve(c) \/ (\E r \in Results \union {None} : Call(c, r))
                 \/ Complete(c) \/ Replay(c))
      BY <3>1, <3>5, OtherStutters DEF Commands!vars
    <3>6. QED
      BY <3>2, <3>3, <3>4, <3>5
  <2>3. QED
    BY <2>1, <2>2
<1>3. QED
  BY <1>1, <1>2, MeshCorrect, PTL DEF Spec, ImplementsIdempotentCommands, Commands!Spec
=============================================================================
