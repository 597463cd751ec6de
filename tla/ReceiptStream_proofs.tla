------------------------- MODULE ReceiptStream_proofs -------------------------
(***************************************************************************)
(* Theorems about ReceiptStream, for any number of gateway processes,      *)
(* requests, keys and evidence, and any limit of tries.                    *)
(***************************************************************************)
EXTENDS ReceiptStream, TLAPS, SequenceTheorems

USE StreamAssumption

\* An append under way serves a request of its own process that waits for it.
ServingAt(s) ==
  store[s].pc # "idle" =>
    /\ store[s].up
    /\ store[s].request \in Requests
    /\ request[store[s].request].at = s
    /\ request[store[s].request].pc \in {"claimed", "called", "denied"}

Serving == \A s \in Stores : ServingAt(s)

\* A receipt that is signed was accepted after the copy it is signed on.
CheckedAt(s) ==
  store[s].pc \in {"commit", "insert"} =>
    Log!Accepts(store[s].copy, Body(store[s].request, SignerOf[s]))

Checked == \A s \in Stores : CheckedAt(s)

Rank(standing) == CASE standing = "unlisted" -> 0 [] standing = "trusted" -> 1 [] OTHER -> 2

\* The policies a process remembers are no newer than the policy, nor is the first.
Older ==
  /\ \A k \in Keys : Rank(FirstPolicy[k]) <= Rank(policy[k])
  /\ \A s \in Stores, k \in Keys : Rank(store[s].token[k]) <= Rank(policy[k])

\* A copy is trusted by the policy it was checked under, and a signer about to
\* commit by the policy in force, if that is still the one of its copy.
EndorsedAt(s) ==
  /\ \A i \in 1..Len(store[s].copy) : store[s].token[store[s].copy[i].key] = "trusted"
  /\ store[s].pc = "commit" /\ store[s].token = policy => policy[SignerOf[s]] = "trusted"

Endorsed == \A s \in Stores : EndorsedAt(s)

\* One write transaction at a time: its copy is current, and the policy it
\* found when it began is the one of the copy, and trusts the signer.
InsertingAt(s) ==
  store[s].pc = "insert" =>
    /\ ~store[s].dirty /\ store[s].token = began /\ began[SignerOf[s]] = "trusted"
    /\ \A t \in Stores : store[t].pc = "insert" => t = s

Inserting == \A s \in Stores : InsertingAt(s)

About(q, kind) == {i \in 1..Len(receipts) : receipts[i].request = q /\ receipts[i].kind = kind}

\* ProofOfCall, of one request.
ProvenAt(q) ==
  /\ q \in called => About(q, "authorization") # {}
  /\ About(q, "outcome") # {} => q \in called
  /\ \A i, j \in About(q, "authorization") : i = j
  /\ \A i, j \in About(q, "outcome") : i = j

\* What the stream holds of a request, by the place of the request.
Standing ==
  \A q \in Requests :
    /\ request[q].pc \in {"new", "claimed", "denied"} =>
         About(q, "authorization") = {} /\ About(q, "outcome") = {} /\ q \notin called
    /\ request[q].pc \in {"authorized", "called"} =>
         /\ About(q, "authorization") # {}
         /\ About(q, "outcome") = {}
         /\ q \in called <=> request[q].pc = "called"

StreamInvariant ==
  /\ TypeOK /\ Serving /\ CopyIsCurrent /\ Checked /\ Older /\ Endorsed
  /\ Inserting /\ Standing /\ ProofOfCall

-----------------------------------------------------------------------------

LEMMA BodyFacts ==
  ASSUME TypeOK, NEW q \in Requests, NEW k \in Keys
  PROVE  /\ Body(q, k) \in Log!Records
         /\ Body(q, k).request = q /\ Body(q, k).key = k
         /\ Body(q, k).kind = CASE request[q].pc = "claimed" -> "authorization"
                                [] request[q].pc = "called" -> "outcome"
                                [] OTHER -> "denial"
<1>1. request[q] \in RequestStates /\ EvidenceOf[q] \in SUBSET Evidence
  BY DEF TypeOK
<1>2. CASE request[q].pc = "claimed"
  BY <1>1, <1>2 DEF Body, Log!Records, Log!Kinds
<1>3. CASE request[q].pc = "called"
  BY <1>1, <1>3 DEF Body, Log!Records, Log!Kinds, RequestStates
<1>4. CASE request[q].pc \notin {"claimed", "called"}
  BY <1>1, <1>4 DEF Body, Log!Records, Log!Kinds
<1>5. QED
  BY <1>2, <1>3, <1>4

\* The types of a store that another one overtakes, and of one that changes.
LEMMA CommittedType ==
  ASSUME TypeOK, NEW s \in Stores, NEW own \in StoreStates, store' = Committed(s, own)
  PROVE  /\ store' \in [Stores -> StoreStates]
         /\ store'[s] = own
         /\ \A t \in Stores : t # s => store'[t] = [store[t] EXCEPT !.dirty = TRUE]
<1>1. \A t \in Stores : [store[t] EXCEPT !.dirty = TRUE] \in StoreStates
  BY DEF TypeOK, StoreStates
<1>2. QED
  BY <1>1 DEF Committed

LEMMA ReleaseType ==
  ASSUME TypeOK, NEW s \in Stores
  PROVE  /\ Release(s) \in StoreStates /\ Release(s).pc = "idle"
         /\ Release(s).up = store[s].up /\ Release(s).copy = store[s].copy
         /\ Release(s).dirty = store[s].dirty /\ Release(s).token = store[s].token
<1>1. store[s] \in StoreStates /\ 0 \in 0..MaxTries
  BY DEF TypeOK
<1>2. QED
  BY <1>1 DEF Release, StoreStates

LEMMA FreshType ==
  /\ Fresh \in StoreStates /\ FirstPolicy \in Policies
  /\ [Fresh EXCEPT !.up = FALSE] \in StoreStates
<1>1. FirstPolicy \in Policies /\ <<>> \in Seq(Log!Records) /\ 0 \in 0..MaxTries
  BY DEF FirstPolicy, Policies
<1>2. QED
  BY <1>1 DEF Fresh, StoreStates

\* The types of a request and of a store that one step changes.
RequestPlaces == {"new", "claimed", "denied", "authorized", "called", "end"}

LEMMA RequestUpdate ==
  ASSUME TypeOK, NEW q \in Requests, NEW pc \in RequestPlaces,
         NEW at \in Stores \union {None}, NEW parent \in Nat
  PROVE  /\ [request EXCEPT ![q].pc = pc] \in [Requests -> RequestStates]
         /\ [request EXCEPT ![q].pc = pc, ![q].at = at] \in [Requests -> RequestStates]
         /\ [request EXCEPT ![q].pc = pc, ![q].parent = parent] \in [Requests -> RequestStates]
<1>1. request \in [Requests -> RequestStates] /\ request[q] \in RequestStates
  BY DEF TypeOK
<1>2. /\ [request[q] EXCEPT !.pc = pc] \in RequestStates
      /\ [request[q] EXCEPT !.pc = pc, !.at = at] \in RequestStates
      /\ [request[q] EXCEPT !.pc = pc, !.parent = parent] \in RequestStates
  BY <1>1 DEF RequestStates, RequestPlaces
<1>3. [request EXCEPT ![q].pc = pc] = [request EXCEPT ![q] = [request[q] EXCEPT !.pc = pc]]
  BY <1>1
<1>4. [request EXCEPT ![q].pc = pc, ![q].at = at]
        = [request EXCEPT ![q] = [request[q] EXCEPT !.pc = pc, !.at = at]]
  BY <1>1 DEF RequestStates
<1>5. [request EXCEPT ![q].pc = pc, ![q].parent = parent]
        = [request EXCEPT ![q] = [request[q] EXCEPT !.pc = pc, !.parent = parent]]
  BY <1>1 DEF RequestStates
<1>6. QED
  BY <1>1, <1>2, <1>3, <1>4, <1>5

LEMMA StoreUpdate ==
  ASSUME TypeOK, NEW s \in Stores, NEW pc \in {"idle", "refresh", "sign", "commit", "insert"},
         NEW q \in Requests, NEW tries \in 0..MaxTries
  PROVE  /\ [store EXCEPT ![s].pc = pc] \in [Stores -> StoreStates]
         /\ [store EXCEPT ![s].pc = pc, ![s].tries = tries] \in [Stores -> StoreStates]
         /\ [store EXCEPT ![s].pc = pc, ![s].request = q, ![s].tries = tries]
              \in [Stores -> StoreStates]
<1>1. store \in [Stores -> StoreStates] /\ store[s] \in StoreStates
  BY DEF TypeOK
<1>2. /\ [store[s] EXCEPT !.pc = pc] \in StoreStates
      /\ [store[s] EXCEPT !.pc = pc, !.tries = tries] \in StoreStates
      /\ [store[s] EXCEPT !.pc = pc, !.request = q, !.tries = tries] \in StoreStates
  BY <1>1 DEF StoreStates
<1>3. [store EXCEPT ![s].pc = pc] = [store EXCEPT ![s] = [store[s] EXCEPT !.pc = pc]]
  BY <1>1
<1>4. [store EXCEPT ![s].pc = pc, ![s].tries = tries]
        = [store EXCEPT ![s] = [store[s] EXCEPT !.pc = pc, !.tries = tries]]
  BY <1>1 DEF StoreStates
<1>5. [store EXCEPT ![s].pc = pc, ![s].request = q, ![s].tries = tries]
        = [store EXCEPT ![s] = [store[s] EXCEPT !.pc = pc, !.request = q, !.tries = tries]]
  BY <1>1 DEF StoreStates
<1>6. QED
  BY <1>1, <1>2, <1>3, <1>4, <1>5

LEMMA TypeInit == Init => TypeOK
  BY FreshType DEF Init, TypeOK, RequestStates

LEMMA TypeStep == TypeOK /\ Serving /\ [Next]_vars => TypeOK'
<1> SUFFICES ASSUME TypeOK, Serving, [Next]_vars PROVE TypeOK'
  OBVIOUS
<1>a. /\ receipts \in Seq(Log!Records) /\ claimed \in SUBSET Evidence /\ policy \in Policies
      /\ request \in [Requests -> RequestStates] /\ store \in [Stores -> StoreStates]
      /\ called \in SUBSET Requests /\ began \in Policies
  BY DEF TypeOK
<1>b. \A s \in Stores : store[s] \in StoreStates /\ SignerOf[s] \in Keys
  BY <1>a
<1>1. CASE UNCHANGED vars
  BY <1>1 DEF vars, TypeOK
<1>2. ASSUME NEW q \in Requests, NEW s \in Stores, Claim(q, s) PROVE TypeOK'
  <2>1. claimed' \in SUBSET Evidence
    BY <1>2, <1>a DEF Claim
  <2>2. request' \in [Requests -> RequestStates]
    BY <1>2, RequestUpdate DEF Claim, RequestPlaces
  <2>3. store' \in [Stores -> StoreStates]
    BY <1>2, <1>a, <1>b, CommittedType DEF Claim
  <2>4. QED
    BY <1>2, <1>a, <2>1, <2>2, <2>3 DEF Claim, TypeOK
<1>3. ASSUME NEW q \in Requests, NEW s \in Stores, Deny(q, s) PROVE TypeOK'
  <2>1. request' \in [Requests -> RequestStates]
    BY <1>3, RequestUpdate DEF Deny, RequestPlaces
  <2>2. QED
    BY <1>3, <1>a, <2>1 DEF Deny, TypeOK
<1>4. ASSUME NEW q \in Requests, NEW s \in Stores, Acquire(s, q) PROVE TypeOK'
  <2>1. 1 \in 0..MaxTries
    OBVIOUS
  <2>2. store' \in [Stores -> StoreStates]
    <3>1. [store EXCEPT ![s].pc = "refresh", ![s].request = q, ![s].tries = 1]
            \in [Stores -> StoreStates]
      <4> HIDE StreamAssumption
      <4>1. QED
        BY <2>1, StoreUpdate
    <3>2. QED
      BY <1>4, <3>1 DEF Acquire
  <2>3. QED
    BY <1>4, <1>a, <2>2 DEF Acquire, TypeOK
<1>5. ASSUME NEW q \in Requests, Call(q) PROVE TypeOK'
  <2>1. request' \in [Requests -> RequestStates]
    BY <1>5, RequestUpdate DEF Call, RequestPlaces
  <2>2. QED
    BY <1>5, <1>a, <2>1 DEF Call, TypeOK
<1>6. ASSUME NEW q \in Requests, Abandon(q) PROVE TypeOK'
  <2>1. request' \in [Requests -> RequestStates]
    BY <1>6, RequestUpdate DEF Abandon, RequestPlaces
  <2>2. QED
    BY <1>6, <1>a, <2>1 DEF Abandon, TypeOK
<1>7. ASSUME NEW s \in Stores, Fail(s) PROVE TypeOK'
  <2>1. request' \in [Requests -> RequestStates]
    BY <1>7, <1>a DEF Fail, RequestStates
  <2>2. store' \in [Stores -> StoreStates]
    BY <1>7, <1>a, ReleaseType DEF Fail
  <2>3. QED
    BY <1>7, <1>a, <2>1, <2>2 DEF Fail, TypeOK
<1>8. ASSUME NEW s \in Stores, Refresh(s) PROVE TypeOK'
  <2>1. store[s].copy \in Seq(Log!Records)
    BY <1>b DEF StoreStates
  <2>2. [store[s] EXCEPT !.pc = "sign", !.copy = IF Stale(s) THEN receipts ELSE store[s].copy,
                         !.dirty = FALSE, !.token = policy] \in StoreStates
    BY <1>a, <1>b, <2>1 DEF StoreStates
  <2>3. QED
    BY <1>8, <1>a, <2>2 DEF Refresh, TypeOK
<1>9. ASSUME NEW s \in Stores, Sign(s) PROVE TypeOK'
  <2>1. [store EXCEPT ![s].pc = "commit"] \in [Stores -> StoreStates]
    <3>1. store[s] \in StoreStates /\ [store[s] EXCEPT !.pc = "commit"] \in StoreStates
      BY <1>b DEF StoreStates
    <3>2. [store EXCEPT ![s].pc = "commit"] = [store EXCEPT ![s] = [store[s] EXCEPT !.pc = "commit"]]
      BY <1>a
    <3>3. QED
      BY <3>1, <3>2, <1>a
  <2>2. QED
    BY <1>9, <1>a, <2>1 DEF Sign, TypeOK
<1>10. ASSUME NEW s \in Stores, Retry(s) PROVE TypeOK'
  <2>1. store[s].tries + 1 \in 0..MaxTries
    BY <1>10, <1>b DEF Retry, StoreStates
  <2>2. store' \in [Stores -> StoreStates]
    <3>1. \A q \in Requests : [store EXCEPT ![s].pc = "refresh", ![s].tries = store[s].tries + 1]
                               \in [Stores -> StoreStates]
      BY <2>1, StoreUpdate
    <3>2. store[s].request \in Requests
      BY <1>10 DEF Retry, Serving, ServingAt
    <3>3. QED
      BY <1>10, <3>1, <3>2 DEF Retry
  <2>3. QED
    BY <1>10, <1>a, <2>2 DEF Retry, TypeOK
<1>11. ASSUME NEW s \in Stores, Commit(s) PROVE TypeOK'
  <2> DEFINE q == store[s].request
             r == Body(q, SignerOf[s])
             own == [Release(s) EXCEPT !.copy = Append(store[s].copy, r)]
  <2>1. q \in Requests /\ r \in Log!Records
    BY <1>11, <1>b, BodyFacts DEF Commit, Serving, ServingAt
  <2>2. store[s].copy \in Seq(Log!Records)
    BY <1>b DEF StoreStates
  <2>3. Append(store[s].copy, r) \in Seq(Log!Records) /\ Append(receipts, r) \in Seq(Log!Records)
    BY <1>a, <2>1, <2>2, AppendProperties
  <2>4. own \in StoreStates
    BY <2>3, ReleaseType DEF StoreStates
  <2>5. store' \in [Stores -> StoreStates]
    BY <1>11, <2>4, CommittedType DEF Commit
  <2>6. Len(store[s].copy) + 1 \in Nat
    BY <2>2, LenProperties
  <2>7. request' \in [Requests -> RequestStates]
    <3> DEFINE pc == IF r.kind = "authorization" THEN "authorized" ELSE "end"
               parent == IF r.kind = "authorization" THEN Len(store[s].copy) + 1
                                                     ELSE request[q].parent
    <3>1. request' = [request EXCEPT ![q].pc = pc, ![q].parent = parent]
      BY <1>11 DEF Commit
    <3>2. pc \in RequestPlaces
      BY DEF RequestPlaces
    <3>3. parent \in Nat
      BY <1>a, <2>1, <2>6 DEF RequestStates
    <3> HIDE DEF pc, parent, q
    <3>4. q \in Requests
      BY <2>1 DEF q
    <3>5. QED
      BY <3>1, <3>2, <3>3, <3>4, RequestUpdate
  <2>8. receipts' \in Seq(Log!Records) /\ UNCHANGED <<claimed, policy, called, began>>
    BY <1>11, <2>3 DEF Commit
  <2>9. QED
    BY <1>a, <2>5, <2>7, <2>8 DEF TypeOK
<1>12. ASSUME NEW s \in Stores, Stop(s) PROVE TypeOK'
  <2>1. request' \in [Requests -> RequestStates]
    BY <1>12, <1>a DEF Stop, RequestStates
  <2>2. QED
    BY <1>12, <1>a, <2>1, FreshType DEF Stop, TypeOK
<1>13. ASSUME NEW s \in Stores, Start(s) PROVE TypeOK'
  <2>1. [Fresh EXCEPT !.copy = receipts, !.token = policy] \in StoreStates
    BY <1>a, FreshType DEF StoreStates
  <2>2. QED
    BY <1>13, <1>a, <2>1 DEF Start, TypeOK
<1>14. ASSUME NEW k \in Keys, Replace(k) PROVE TypeOK'
  BY <1>14, <1>a DEF Replace, TypeOK, Policies
<1>15. ASSUME NEW s \in Stores, Compare(s) PROVE TypeOK'
  <2>1. store[s].request \in Requests /\ store[s].tries \in 0..MaxTries
    BY <1>15, <1>b DEF Compare, Serving, ServingAt, StoreStates
  <2>2. store' \in [Stores -> StoreStates]
    BY <1>15, <2>1, StoreUpdate DEF Compare
  <2>3. QED
    BY <1>15, <1>a, <2>2 DEF Compare, TypeOK
<1>16. QED
  BY <1>1, <1>2, <1>3, <1>4, <1>5, <1>6, <1>7, <1>8, <1>9, <1>10, <1>11, <1>12, <1>13, <1>14, <1>15
  DEF Next

-----------------------------------------------------------------------------
(***************************************************************************)
(* The copies of the stream, and the policies they were checked under.     *)
(***************************************************************************)
\* A step that moves no copy, no remembered policy and no receipt; it may
\* only mark a copy as overtaken, and a signer it lets commit is trusted.
Quiet ==
  /\ receipts' = receipts /\ policy' = policy
  /\ \A s \in Stores :
       /\ store'[s].up = store[s].up
       /\ store'[s].copy = store[s].copy
       /\ store'[s].token = store[s].token
       /\ store[s].dirty => store'[s].dirty
       /\ store'[s].pc = "commit" => store[s].pc = "commit" \/ policy[SignerOf[s]] = "trusted"

LEMMA QuietSteps ==
  ASSUME TypeOK, Serving,
         \/ UNCHANGED vars
         \/ \E q \in Requests, s \in Stores : Claim(q, s) \/ Deny(q, s) \/ Acquire(s, q)
         \/ \E q \in Requests : Call(q) \/ Abandon(q)
         \/ \E s \in Stores : Fail(s) \/ Sign(s) \/ Retry(s) \/ Compare(s)
  PROVE  Quiet
<1>a. store \in [Stores -> StoreStates]
  BY DEF TypeOK
<1>b. \A s \in Stores : store[s] \in StoreStates
  BY <1>a
<1>1. CASE store' = store /\ receipts' = receipts /\ policy' = policy
  BY <1>1 DEF Quiet
<1>2. ASSUME NEW q \in Requests, NEW s \in Stores, Claim(q, s) PROVE Quiet
  <2>1. CASE EvidenceOf[q] = {}
    BY <1>2, <2>1, <1>1 DEF Claim
  <2>2. CASE EvidenceOf[q] # {}
    <3>1. store' = Committed(s, store[s])
      BY <1>2, <2>2 DEF Claim
    <3>2. store'[s] = store[s]
          /\ \A t \in Stores : t # s => store'[t] = [store[t] EXCEPT !.dirty = TRUE]
      BY <3>1, <1>b, CommittedType
    <3>3. \A t \in Stores : LET r == [store[t] EXCEPT !.dirty = TRUE] IN
            /\ r.up = store[t].up /\ r.copy = store[t].copy /\ r.token = store[t].token
            /\ r.dirty /\ r.pc = store[t].pc
      BY <1>b DEF StoreStates
    <3>4. receipts' = receipts /\ policy' = policy
      BY <1>2 DEF Claim
    <3>5. QED
      BY <3>2, <3>3, <3>4 DEF Quiet
  <2>3. QED
    BY <2>1, <2>2
<1>3. ASSUME NEW q \in Requests, NEW s \in Stores, Acquire(s, q) PROVE Quiet
  <2>1. \A t \in Stores : t # s => store'[t] = store[t]
    BY <1>3, <1>a DEF Acquire
  <2>2. store'[s] = [store[s] EXCEPT !.pc = "refresh", !.request = q, !.tries = 1]
    BY <1>3, <1>a, <1>b DEF Acquire, StoreStates
  <2>3. /\ store'[s].up = store[s].up /\ store'[s].copy = store[s].copy
        /\ store'[s].token = store[s].token /\ store'[s].dirty = store[s].dirty
        /\ store'[s].pc = "refresh"
    BY <1>b, <2>2 DEF StoreStates
  <2>4. receipts' = receipts /\ policy' = policy
    BY <1>3 DEF Acquire
  <2>5. QED
    BY <2>1, <2>3, <2>4 DEF Quiet
<1>4. ASSUME NEW s \in Stores, Fail(s) PROVE Quiet
  <2>1. store'[s] = Release(s) /\ \A t \in Stores : t # s => store'[t] = store[t]
    BY <1>4, <1>a DEF Fail
  <2>2. QED
    BY <1>4, <2>1, ReleaseType DEF Quiet, Fail
<1>5. ASSUME NEW s \in Stores, Sign(s) PROVE Quiet
  <2>1. \A t \in Stores : t # s => store'[t] = store[t]
    BY <1>5, <1>a DEF Sign
  <2>2. store'[s] = [store[s] EXCEPT !.pc = "commit"]
    BY <1>5, <1>a, <1>b DEF Sign, StoreStates
  <2>3. QED
    BY <1>5, <1>b, <2>1, <2>2 DEF Quiet, Sign, StoreStates
<1>6. ASSUME NEW s \in Stores, Retry(s) PROVE Quiet
  <2>1. \A t \in Stores : t # s => store'[t] = store[t]
    BY <1>6, <1>a DEF Retry
  <2>2. store'[s] = [store[s] EXCEPT !.pc = "refresh", !.tries = store[s].tries + 1]
    BY <1>6, <1>a, <1>b DEF Retry, StoreStates
  <2>3. /\ store'[s].up = store[s].up /\ store'[s].copy = store[s].copy
        /\ store'[s].token = store[s].token /\ store'[s].dirty = store[s].dirty
        /\ store'[s].pc = "refresh"
    BY <1>b, <2>2 DEF StoreStates
  <2>4. receipts' = receipts /\ policy' = policy
    BY <1>6 DEF Retry
  <2>5. QED
    BY <2>1, <2>3, <2>4 DEF Quiet
<1>7. ASSUME NEW s \in Stores, Compare(s) PROVE Quiet
  <2>1. \A t \in Stores : t # s => store'[t] = store[t]
    BY <1>7, <1>a DEF Compare
  <2>2. store'[s] = [store[s] EXCEPT !.pc = "insert"]
    BY <1>7, <1>a, <1>b DEF Compare, StoreStates
  <2>3. QED
    BY <1>7, <1>b, <2>1, <2>2 DEF Quiet, Compare, StoreStates
<1>8. QED
  BY <1>1, <1>2, <1>3, <1>4, <1>5, <1>6, <1>7 DEF vars, Deny, Call, Abandon

LEMMA QuietKeeps ==
  ASSUME TypeOK, CopyIsCurrent, Older, Endorsed, Quiet
  PROVE  CopyIsCurrent' /\ Older' /\ Endorsed'
<1>1. CopyIsCurrent'
  BY DEF Quiet, CopyIsCurrent
<1>2. Older'
  BY DEF Quiet, Older
<1>3. Endorsed'
  BY DEF Quiet, Endorsed, EndorsedAt
<1>4. QED
  BY <1>1, <1>2, <1>3

LEMMA RankFacts ==
  /\ \A x \in {"unlisted", "trusted", "revoked"} : Rank(x) \in 0..2
  /\ Rank("unlisted") = 0 /\ Rank("trusted") = 1 /\ Rank("revoked") = 2
  BY DEF Rank

LEMMA RefreshKeeps ==
  ASSUME TypeOK, Serving, CopyIsCurrent, Older, Endorsed, NEW s \in Stores, Refresh(s)
  PROVE  CopyIsCurrent' /\ Older' /\ Endorsed'
<1>a. store \in [Stores -> StoreStates] /\ store[s] \in StoreStates
      /\ receipts \in Seq(Log!Records) /\ policy \in Policies
  BY DEF TypeOK
<1>b. receipts' = receipts /\ policy' = policy
  BY DEF Refresh
<1>c. \A t \in Stores : t # s => store'[t] = store[t]
  BY <1>a DEF Refresh
<1>d. /\ store'[s].up = store[s].up /\ store'[s].token = policy /\ store'[s].pc = "sign"
      /\ store'[s].copy = IF Stale(s) THEN receipts ELSE store[s].copy
      /\ Stale(s) => Trusted(receipts)
  BY <1>a DEF Refresh, StoreStates
<1>e. store[s].up
  BY DEF Refresh, Serving, ServingAt
<1>f. receipts = SubSeq(receipts, 1, Len(receipts)) /\ Len(receipts) \in Nat
  BY <1>a, SubSeqFull, LenProperties
<1>g. CASE Stale(s)
  <2>1. CopyIsCurrent'
    BY <1>b, <1>c, <1>d, <1>f, <1>g DEF CopyIsCurrent
  <2>2. Endorsed'
    BY <1>b, <1>c, <1>d, <1>g DEF Endorsed, EndorsedAt, Trusted
  <2>3. \A k \in Keys : Rank(policy[k]) <= Rank(policy[k])
    BY <1>a, RankFacts DEF Policies
  <2>4. QED
    BY <2>1, <2>2, <2>3, <1>b, <1>c, <1>d DEF Older
<1>h. CASE ~Stale(s)
  <2>1. store[s].copy = receipts /\ store[s].token = policy
    BY <1>e, <1>h DEF CopyIsCurrent, Stale
  <2>2. CopyIsCurrent'
    BY <1>b, <1>c, <1>d, <1>f, <1>h, <2>1 DEF CopyIsCurrent
  <2>3. Endorsed'
    BY <1>b, <1>c, <1>d, <1>h, <2>1 DEF Endorsed, EndorsedAt
  <2>4. QED
    BY <2>2, <2>3, <1>b, <1>c, <1>d, <2>1 DEF Older
<1>i. QED
  BY <1>g, <1>h

\* The insert of a checked copy: what every later step needs to know of it.
LEMMA CommitFacts ==
  ASSUME TypeOK, Serving, CopyIsCurrent, Inserting, NEW s \in Stores, Commit(s)
  PROVE  LET q == store[s].request
             r == Body(q, SignerOf[s])
         IN  /\ q \in Requests /\ r \in Log!Records
             /\ request[q].at = s /\ request[q].pc \in {"claimed", "called", "denied"}
             /\ store[s].copy = receipts /\ store[s].token = began
             /\ began[SignerOf[s]] = "trusted"
             /\ receipts' = Append(receipts, r) /\ Len(receipts) \in Nat
             /\ Len(receipts') = Len(receipts) + 1
             /\ receipts'[Len(receipts) + 1] = r
             /\ \A i \in 1..Len(receipts) : receipts'[i] = receipts[i]
             /\ \A t \in Stores : t # s =>
                  /\ store'[t].up = store[t].up /\ store'[t].copy = store[t].copy
                  /\ store'[t].token = store[t].token /\ store'[t].pc = store[t].pc
                  /\ store'[t].request = store[t].request /\ store'[t].dirty
             /\ store'[s].up /\ store'[s].pc = "idle" /\ store'[s].token = began
             /\ store'[s].copy = receipts'
             /\ request'[q].pc = IF r.kind = "authorization" THEN "authorized" ELSE "end"
             /\ request'[q].at = request[q].at
             /\ \A p \in Requests : p # q => request'[p] = request[p]
             /\ UNCHANGED <<claimed, policy, called, began>>
<1> DEFINE q == store[s].request
           r == Body(q, SignerOf[s])
           own == [Release(s) EXCEPT !.copy = Append(store[s].copy, r)]
<1>a. store[s] \in StoreStates /\ receipts \in Seq(Log!Records) /\ SignerOf[s] \in Keys
  BY DEF TypeOK
<1>1. q \in Requests /\ r \in Log!Records /\ store[s].up
      /\ request[q].at = s /\ request[q].pc \in {"claimed", "called", "denied"}
  BY <1>a, BodyFacts DEF Commit, Serving, ServingAt
<1>2. store[s].copy = receipts /\ store[s].token = began /\ began[SignerOf[s]] = "trusted"
  BY <1>1 DEF Commit, Inserting, InsertingAt, CopyIsCurrent
<1>3. receipts' = Append(receipts, r) /\ UNCHANGED <<claimed, policy, called, began>>
  BY DEF Commit
<1>4. /\ receipts' \in Seq(Log!Records) /\ Len(receipts) \in Nat
      /\ Len(receipts') = Len(receipts) + 1
      /\ receipts'[Len(receipts) + 1] = r
      /\ \A i \in 1..Len(receipts) : receipts'[i] = receipts[i]
  BY <1>a, <1>1, <1>3, AppendProperties, LenProperties
<1>5. own \in StoreStates /\ own.copy = receipts' /\ own.up /\ own.pc = "idle"
      /\ own.token = began
  <2>1. Release(s) \in StoreStates /\ Release(s).pc = "idle" /\ Release(s).up
        /\ Release(s).token = began
    BY <1>1, <1>2, ReleaseType
  <2>2. Append(store[s].copy, r) = receipts' /\ receipts' \in Seq(Log!Records)
    BY <1>2, <1>3, <1>4
  <2> HIDE DEF r
  <2>3. QED
    BY <2>1, <2>2 DEF StoreStates
<1>6. /\ store'[s] = own
      /\ \A t \in Stores : t # s =>
           /\ store'[t].up = store[t].up /\ store'[t].copy = store[t].copy
           /\ store'[t].token = store[t].token /\ store'[t].pc = store[t].pc
           /\ store'[t].request = store[t].request /\ store'[t].dirty
  <2>1. store' = Committed(s, own)
    BY DEF Commit
  <2> HIDE DEF own
  <2>2. store'[s] = own /\ \A t \in Stores : t # s => store'[t] = [store[t] EXCEPT !.dirty = TRUE]
    BY <1>5, <2>1, CommittedType
  <2>3. \A t \in Stores : LET o == [store[t] EXCEPT !.dirty = TRUE] IN
          /\ o.up = store[t].up /\ o.copy = store[t].copy /\ o.token = store[t].token
          /\ o.pc = store[t].pc /\ o.request = store[t].request /\ o.dirty
    BY DEF TypeOK, StoreStates
  <2>4. QED
    BY <2>2, <2>3
<1>7. /\ request'[q].pc = IF r.kind = "authorization" THEN "authorized" ELSE "end"
      /\ request'[q].at = request[q].at
      /\ \A p \in Requests : p # q => request'[p] = request[p]
  <2> DEFINE pc == IF r.kind = "authorization" THEN "authorized" ELSE "end"
             parent == IF r.kind = "authorization" THEN Len(store[s].copy) + 1
                                                   ELSE request[q].parent
  <2>1. request' = [request EXCEPT ![q].pc = pc, ![q].parent = parent]
    BY DEF Commit
  <2>2. request \in [Requests -> RequestStates] /\ request[q] \in RequestStates
    BY <1>1 DEF TypeOK
  <2> HIDE DEF q, pc, parent
  <2>3. /\ request'[q].pc = pc /\ request'[q].at = request[q].at
        /\ \A p \in Requests : p # q => request'[p] = request[p]
    BY <1>1, <2>1, <2>2 DEF RequestStates
  <2>4. QED
    BY <2>3 DEF pc, q
<1>8. QED
  BY <1>1, <1>2, <1>3, <1>4, <1>5, <1>6, <1>7

LEMMA CommitKeeps ==
  ASSUME TypeOK, Serving, CopyIsCurrent, Older, Endorsed, Inserting, NEW s \in Stores, Commit(s)
  PROVE  CopyIsCurrent' /\ Older' /\ Endorsed'
<1> DEFINE q == store[s].request
           r == Body(q, SignerOf[s])
<1>a. \A t \in Stores : store[t] \in StoreStates /\ SignerOf[t] \in Keys
  BY DEF TypeOK
<1>b. /\ receipts \in Seq(Log!Records) /\ r \in Log!Records /\ r.key = SignerOf[s]
      /\ receipts' = Append(receipts, r) /\ Len(receipts) \in Nat
      /\ Len(receipts') = Len(receipts) + 1 /\ receipts'[Len(receipts) + 1] = r
      /\ \A i \in 1..Len(receipts) : receipts'[i] = receipts[i]
      /\ policy' = policy
  BY <1>a, CommitFacts, BodyFacts DEF TypeOK
<1>c. /\ store'[s].up /\ store'[s].pc = "idle" /\ store'[s].token = store[s].token
      /\ store'[s].copy = receipts' /\ store[s].copy = receipts
      /\ store[s].token[SignerOf[s]] = "trusted"
  BY CommitFacts
<1>d. \A t \in Stores : t # s =>
        /\ store'[t].up = store[t].up /\ store'[t].copy = store[t].copy
        /\ store'[t].token = store[t].token /\ store'[t].pc = store[t].pc
        /\ store'[t].dirty
  BY CommitFacts
<1> HIDE DEF r
<1>1. CopyIsCurrent'
  <2>1. receipts' \in Seq(Log!Records)
    BY <1>b, AppendProperties
  <2>2. receipts' = SubSeq(receipts', 1, Len(receipts'))
    BY <2>1, SubSeqFull
  <2>3. ASSUME NEW t \in Stores, t # s, store[t].up
        PROVE  /\ Len(store[t].copy) <= Len(receipts')
               /\ store[t].copy = SubSeq(receipts', 1, Len(store[t].copy))
    <3>1. /\ Len(store[t].copy) <= Len(receipts) /\ Len(store[t].copy) \in Nat
          /\ store[t].copy = SubSeq(receipts, 1, Len(store[t].copy))
      BY <1>a, <2>3, LenProperties DEF CopyIsCurrent, StoreStates
    <3>2. CASE Len(store[t].copy) = 0
      BY <1>b, <3>1, <3>2, SubSeqEmpty, <2>1
    <3>3. CASE Len(store[t].copy) > 0
      <4> DEFINE n == Len(store[t].copy)
      <4>1. n \in 1..Len(receipts) /\ n \in 1..Len(receipts')
        BY <1>b, <3>1, <3>3
      <4>2. SubSeq(receipts', 1, n) = SubSeq(receipts, 1, n)
        <5>1. /\ SubSeq(receipts, 1, n) \in Seq(Log!Records)
              /\ Len(SubSeq(receipts, 1, n)) = n
              /\ \A i \in 1..n : SubSeq(receipts, 1, n)[i] = receipts[i]
          BY <1>b, <4>1, SubSeqProperties
        <5>2. /\ SubSeq(receipts', 1, n) \in Seq(Log!Records)
              /\ Len(SubSeq(receipts', 1, n)) = n
              /\ \A i \in 1..n : SubSeq(receipts', 1, n)[i] = receipts'[i]
          BY <2>1, <4>1, SubSeqProperties
        <5>3. \A i \in 1..n : receipts'[i] = receipts[i]
          BY <1>b, <4>1
        <5> HIDE DEF n
        <5>4. QED
          BY <5>1, <5>2, <5>3, SeqEqual
      <4>3. QED
        BY <1>b, <3>1, <4>2
    <3>4. QED
      BY <3>1, <3>2, <3>3
  <2>4. ASSUME NEW t \in Stores, t # s, store'[t].up
        PROVE  /\ Len(store'[t].copy) <= Len(receipts')
               /\ store'[t].copy = SubSeq(receipts', 1, Len(store'[t].copy))
               /\ store'[t].dirty
    BY <1>d, <2>3, <2>4
  <2>5. /\ Len(store'[s].copy) <= Len(receipts')
        /\ store'[s].copy = SubSeq(receipts', 1, Len(store'[s].copy))
        /\ store'[s].copy = receipts'
    BY <1>b, <1>c, <2>2
  <2>6. QED
    BY <2>4, <2>5 DEF CopyIsCurrent
<1>2. Older'
  BY <1>b, <1>c, <1>d DEF Older
<1>3. Endorsed'
  <2>2. \A i \in 1..Len(receipts') : store[s].token[receipts'[i].key] = "trusted"
    BY <1>b, <1>c DEF Endorsed, EndorsedAt
  <2>3. EndorsedAt(s)'
    BY <1>c, <2>2 DEF EndorsedAt
  <2>4. \A t \in Stores : t # s => EndorsedAt(t)'
    BY <1>b, <1>d DEF Endorsed, EndorsedAt
  <2>5. QED
    BY <2>3, <2>4 DEF Endorsed
<1>4. QED
  BY <1>1, <1>2, <1>3

LEMMA StopKeeps ==
  ASSUME TypeOK, CopyIsCurrent, Older, Endorsed, NEW s \in Stores, Stop(s)
  PROVE  CopyIsCurrent' /\ Older' /\ Endorsed'
<1>1. /\ receipts' = receipts /\ policy' = policy
      /\ store'[s] = [Fresh EXCEPT !.up = FALSE]
      /\ \A t \in Stores : t # s => store'[t] = store[t]
  BY DEF Stop, TypeOK
<1>2. /\ ~store'[s].up /\ store'[s].copy = <<>> /\ store'[s].pc = "idle"
      /\ store'[s].token = FirstPolicy
  BY <1>1 DEF Fresh
<1>3. CopyIsCurrent'
  BY <1>1, <1>2 DEF CopyIsCurrent
<1>4. Older'
  BY <1>1, <1>2 DEF Older
<1>5. Endorsed'
  <2>1. Len(store'[s].copy) = 0
    BY <1>2
  <2>2. EndorsedAt(s)'
    BY <1>2, <2>1 DEF EndorsedAt
  <2>3. \A t \in Stores : t # s => EndorsedAt(t)'
    BY <1>1 DEF Endorsed, EndorsedAt
  <2>4. QED
    BY <2>2, <2>3 DEF Endorsed
<1>6. QED
  BY <1>3, <1>4, <1>5

LEMMA StartKeeps ==
  ASSUME TypeOK, CopyIsCurrent, Older, Endorsed, NEW s \in Stores, Start(s)
  PROVE  CopyIsCurrent' /\ Older' /\ Endorsed'
<1>1. /\ receipts' = receipts /\ policy' = policy /\ Trusted(receipts)
      /\ store'[s] = [Fresh EXCEPT !.copy = receipts, !.token = policy]
      /\ \A t \in Stores : t # s => store'[t] = store[t]
  BY DEF Start, TypeOK
<1>2. /\ store'[s].copy = receipts /\ store'[s].pc = "idle" /\ store'[s].token = policy
  BY <1>1 DEF Fresh
<1>3. receipts = SubSeq(receipts, 1, Len(receipts)) /\ Len(receipts) \in Nat
  BY SubSeqFull, LenProperties DEF TypeOK
<1>4. CopyIsCurrent'
  <2>1. /\ Len(store'[s].copy) <= Len(receipts')
        /\ store'[s].copy = SubSeq(receipts', 1, Len(store'[s].copy))
        /\ store'[s].copy = receipts'
    BY <1>1, <1>2, <1>3
  <2>2. \A t \in Stores : t # s => store'[t] = store[t]
    BY <1>1
  <2>3. receipts' = receipts
    BY <1>1
  <2>4. QED
    BY <2>1, <2>2, <2>3 DEF CopyIsCurrent
<1>5. Older'
  <2>1. \A k \in Keys : Rank(policy[k]) <= Rank(policy[k])
    BY RankFacts DEF TypeOK, Policies
  <2>2. QED
    BY <1>1, <1>2, <2>1 DEF Older
<1>6. Endorsed'
  <2>1. EndorsedAt(s)'
    BY <1>1, <1>2 DEF EndorsedAt, Trusted
  <2>2. \A t \in Stores : t # s => EndorsedAt(t)'
    BY <1>1 DEF Endorsed, EndorsedAt
  <2>3. QED
    BY <2>1, <2>2 DEF Endorsed
<1>7. QED
  BY <1>4, <1>5, <1>6

\* A policy once left is never in force again: no copy is endorsed by accident.
LEMMA ReplaceKeeps ==
  ASSUME TypeOK, CopyIsCurrent, Older, Endorsed, NEW k \in Keys, Replace(k)
  PROVE  CopyIsCurrent' /\ Older' /\ Endorsed'
<1>1. receipts' = receipts /\ store' = store
  BY DEF Replace
<1>a. \A j \in Keys : /\ Rank(policy[j]) \in 0..2 /\ Rank(FirstPolicy[j]) \in 0..2
                     /\ \A s \in Stores : Rank(store[s].token[j]) \in 0..2
  <2>1. FirstPolicy \in Policies /\ \A s \in Stores : store[s].token \in Policies
    BY FreshType DEF TypeOK, StoreStates
  <2>2. QED
    BY <2>1, RankFacts DEF TypeOK, Policies
<1>2. /\ \A j \in Keys : j # k => policy'[j] = policy[j]
      /\ Rank(policy'[k]) = Rank(policy[k]) + 1
  BY RankFacts DEF Replace, TypeOK, Policies
<1>3. CopyIsCurrent'
  BY <1>1 DEF CopyIsCurrent
<1>b. \A j \in Keys : Rank(policy'[j]) \in Int /\ Rank(policy[j]) <= Rank(policy'[j])
  BY <1>a, <1>2
<1>4. Older'
  <2>1. \A j \in Keys : Rank(FirstPolicy[j]) <= Rank(policy'[j])
    BY <1>a, <1>b DEF Older
  <2>2. \A s \in Stores, j \in Keys : Rank(store[s].token[j]) <= Rank(policy'[j])
    BY <1>a, <1>b DEF Older
  <2>3. QED
    BY <1>1, <2>1, <2>2 DEF Older
<1>5. \A s \in Stores : store[s].token # policy'
  BY <1>a, <1>2 DEF Older
<1>6. Endorsed'
  BY <1>1, <1>5 DEF Endorsed, EndorsedAt
<1>7. QED
  BY <1>3, <1>4, <1>6

LEMMA CopyStep ==
  ASSUME TypeOK, Serving, CopyIsCurrent, Older, Endorsed, Inserting, [Next]_vars
  PROVE  CopyIsCurrent' /\ Older' /\ Endorsed'
<1>1. CASE UNCHANGED vars
  BY <1>1, QuietSteps, QuietKeeps
<1>2. ASSUME NEW q \in Requests, NEW s \in Stores, Claim(q, s) \/ Deny(q, s) \/ Acquire(s, q)
      PROVE  CopyIsCurrent' /\ Older' /\ Endorsed'
  BY <1>2, QuietSteps, QuietKeeps
<1>3. ASSUME NEW q \in Requests, Call(q) \/ Abandon(q)
      PROVE  CopyIsCurrent' /\ Older' /\ Endorsed'
  BY <1>3, QuietSteps, QuietKeeps
<1>4. ASSUME NEW s \in Stores, Fail(s) \/ Sign(s) \/ Retry(s) \/ Compare(s)
      PROVE  CopyIsCurrent' /\ Older' /\ Endorsed'
  BY <1>4, QuietSteps, QuietKeeps
<1>5. QED
  BY <1>1, <1>2, <1>3, <1>4, RefreshKeeps, CommitKeeps, StopKeeps, StartKeeps, ReplaceKeeps
  DEF Next

-----------------------------------------------------------------------------
(***************************************************************************)
(* The append under way and the request it serves.                         *)
(***************************************************************************)
\* A store that keeps its append, whose request no other step has touched.
Undisturbed(t) ==
  /\ store'[t].pc = store[t].pc /\ store'[t].up = store[t].up
  /\ store'[t].request = store[t].request /\ store'[t].copy = store[t].copy
  /\ store[t].pc # "idle" => request'[store[t].request] = request[store[t].request]

LEMMA UndisturbedKeeps ==
  ASSUME NEW t \in Stores, ServingAt(t), CheckedAt(t), Undisturbed(t)
  PROVE  ServingAt(t)' /\ CheckedAt(t)'
<1>1. ServingAt(t)'
  BY DEF ServingAt, Undisturbed
<1>2. CheckedAt(t)'
  <2>1. SUFFICES ASSUME store[t].pc \in {"commit", "insert"} PROVE CheckedAt(t)'
    BY DEF Undisturbed, CheckedAt
  <2>2. request'[store[t].request] = request[store[t].request]
        /\ store'[t].request = store[t].request /\ store'[t].copy = store[t].copy
    BY <2>1 DEF Undisturbed
  <2>3. Body(store[t].request, SignerOf[t])' = Body(store[t].request, SignerOf[t])
    BY <2>2 DEF Body
  <2>4. QED
    BY <2>1, <2>2, <2>3 DEF CheckedAt
<1>3. QED
  BY <1>1, <1>2

LEMMA ServingStep ==
  ASSUME TypeOK, Serving, CopyIsCurrent, Checked, Inserting, [Next]_vars
  PROVE  Serving' /\ Checked'
<1> SUFFICES ASSUME NEW t \in Stores PROVE ServingAt(t)' /\ CheckedAt(t)'
  BY DEF Serving, Checked
<1>a. ServingAt(t) /\ CheckedAt(t) /\ \A s \in Stores : ServingAt(s)
  BY DEF Serving, Checked
<1>b. /\ store \in [Stores -> StoreStates] /\ request \in [Requests -> RequestStates]
      /\ \A s \in Stores : store[s] \in StoreStates
      /\ \A q \in Requests : request[q] \in RequestStates
  BY DEF TypeOK
<1>1. CASE Undisturbed(t)
  BY <1>1, <1>a, UndisturbedKeeps
<1>2. CASE UNCHANGED vars
  BY <1>1, <1>2 DEF vars, Undisturbed
<1>3. ASSUME NEW q \in Requests, NEW s \in Stores, Claim(q, s) PROVE ServingAt(t)' /\ CheckedAt(t)'
  <2>1. /\ store'[t].pc = store[t].pc /\ store'[t].up = store[t].up
        /\ store'[t].request = store[t].request /\ store'[t].copy = store[t].copy
    <3>1. CASE store' = store
      BY <3>1
    <3>2. CASE store' = Committed(s, store[s])
      <4>1. store'[s] = store[s]
            /\ (t # s => store'[t] = [store[t] EXCEPT !.dirty = TRUE])
        BY <3>2, <1>b, CommittedType
      <4>2. QED
        BY <4>1, <1>b DEF StoreStates
    <3>3. QED
      BY <1>3, <3>1, <3>2 DEF Claim
  <2>2. \A p \in Requests : p # q => request'[p] = request[p]
    BY <1>3, <1>b DEF Claim
  <2>3. store[t].pc # "idle" => store[t].request # q /\ store[t].request \in Requests
    BY <1>3, <1>a DEF Claim, ServingAt
  <2>4. QED
    BY <1>1, <2>1, <2>2, <2>3 DEF Undisturbed
<1>4. ASSUME NEW q \in Requests, NEW s \in Stores, Deny(q, s) PROVE ServingAt(t)' /\ CheckedAt(t)'
  <2>1. store' = store /\ \A p \in Requests : p # q => request'[p] = request[p]
    BY <1>4, <1>b DEF Deny
  <2>2. store[t].pc # "idle" => store[t].request # q /\ store[t].request \in Requests
    BY <1>4, <1>a DEF Deny, ServingAt
  <2>3. QED
    BY <1>1, <2>1, <2>2 DEF Undisturbed
<1>5. ASSUME NEW q \in Requests, Call(q) \/ Abandon(q) PROVE ServingAt(t)' /\ CheckedAt(t)'
  <2>1. store' = store /\ \A p \in Requests : p # q => request'[p] = request[p]
    BY <1>5, <1>b DEF Call, Abandon
  <2>2. store[t].pc # "idle" => store[t].request # q /\ store[t].request \in Requests
    BY <1>5, <1>a DEF Call, Abandon, ServingAt
  <2>3. QED
    BY <1>1, <2>1, <2>2 DEF Undisturbed
<1>6. ASSUME NEW q \in Requests, NEW s \in Stores, Acquire(s, q)
      PROVE  ServingAt(t)' /\ CheckedAt(t)'
  <2>1. request' = request /\ (t # s => store'[t] = store[t])
    BY <1>6, <1>b DEF Acquire
  <2>2. store'[s] = [store[s] EXCEPT !.pc = "refresh", !.request = q, !.tries = 1]
    BY <1>6, <1>b DEF Acquire, StoreStates
  <2>3. store'[s].pc = "refresh" /\ store'[s].request = q /\ store'[s].up = store[s].up
    BY <1>b, <2>2 DEF StoreStates
  <2>4. CASE t = s
    BY <1>6, <2>1, <2>3, <2>4 DEF Acquire, Free, ServingAt, CheckedAt
  <2>5. QED
    BY <1>1, <2>1, <2>4 DEF Undisturbed
<1>7. ASSUME NEW s \in Stores, Fail(s) PROVE ServingAt(t)' /\ CheckedAt(t)'
  <2>1. store'[s] = Release(s) /\ (t # s => store'[t] = store[t])
    BY <1>7, <1>b DEF Fail
  <2>2. store'[s].pc = "idle"
    BY <2>1, ReleaseType
  <2>3. store[s].request \in Requests /\ request[store[s].request].at = s
    BY <1>7, <1>a DEF Fail, ServingAt
  <2>4. \A p \in Requests : p # store[s].request => request'[p] = request[p]
    BY <1>7, <1>b, <2>3 DEF Fail
  <2>5. CASE t = s
    BY <2>2, <2>5 DEF ServingAt, CheckedAt
  <2>6. CASE t # s
    <3>1. store[t].pc # "idle" => store[t].request # store[s].request
                                  /\ store[t].request \in Requests
      BY <1>a, <2>3, <2>6 DEF ServingAt
    <3>2. QED
      BY <1>1, <2>1, <2>4, <2>6, <3>1 DEF Undisturbed
  <2>7. QED
    BY <2>5, <2>6
<1>8. ASSUME NEW s \in Stores, Refresh(s) PROVE ServingAt(t)' /\ CheckedAt(t)'
  <2>1. request' = request /\ (t # s => store'[t] = store[t])
    BY <1>8, <1>b DEF Refresh
  <2>2. /\ store'[s].pc = "sign" /\ store'[s].request = store[s].request
        /\ store'[s].up = store[s].up
    BY <1>8, <1>b DEF Refresh, StoreStates
  <2>3. CASE t = s
    BY <1>8, <1>a, <2>1, <2>2, <2>3 DEF Refresh, ServingAt, CheckedAt
  <2>4. QED
    BY <1>1, <2>1, <2>3 DEF Undisturbed
<1>9. ASSUME NEW s \in Stores, Sign(s) PROVE ServingAt(t)' /\ CheckedAt(t)'
  <2>1. request' = request /\ (t # s => store'[t] = store[t])
    BY <1>9, <1>b DEF Sign
  <2>2. store'[s] = [store[s] EXCEPT !.pc = "commit"]
    BY <1>9, <1>b DEF Sign, StoreStates
  <2>3. /\ store'[s].pc = "commit" /\ store'[s].request = store[s].request
        /\ store'[s].up = store[s].up /\ store'[s].copy = store[s].copy
    BY <1>b, <2>2 DEF StoreStates
  <2>4. ServingAt(s)'
    BY <1>9, <1>a, <2>1, <2>3 DEF Sign, ServingAt
  <2>5. CheckedAt(s)'
    <3>1. Body(store[s].request, SignerOf[s])' = Body(store[s].request, SignerOf[s])
      BY <2>1, <2>3 DEF Body
    <3>2. QED
      BY <1>9, <2>3, <3>1 DEF Sign, CheckedAt
  <2>6. QED
    BY <1>1, <2>1, <2>4, <2>5 DEF Undisturbed
<1>10. ASSUME NEW s \in Stores, Retry(s) PROVE ServingAt(t)' /\ CheckedAt(t)'
  <2>1. request' = request /\ (t # s => store'[t] = store[t])
    BY <1>10, <1>b DEF Retry
  <2>2. store'[s] = [store[s] EXCEPT !.pc = "refresh", !.tries = store[s].tries + 1]
    BY <1>10, <1>b DEF Retry, StoreStates
  <2>3. /\ store'[s].pc = "refresh" /\ store'[s].request = store[s].request
        /\ store'[s].up = store[s].up
    BY <1>b, <2>2 DEF StoreStates
  <2>4. CASE t = s
    BY <1>10, <1>a, <2>1, <2>3, <2>4 DEF Retry, ServingAt, CheckedAt
  <2>5. QED
    BY <1>1, <2>1, <2>4 DEF Undisturbed
<1>11. ASSUME NEW s \in Stores, Commit(s) PROVE ServingAt(t)' /\ CheckedAt(t)'
  <2>1. /\ store[s].request \in Requests /\ request[store[s].request].at = s
        /\ \A p \in Requests : p # store[s].request => request'[p] = request[p]
        /\ store'[s].pc = "idle"
    BY <1>11, CommitFacts
  <2>2. CASE t = s
    BY <2>1, <2>2 DEF ServingAt, CheckedAt
  <2>3. CASE t # s
    <3>1. /\ store'[t].up = store[t].up /\ store'[t].copy = store[t].copy
          /\ store'[t].pc = store[t].pc /\ store'[t].request = store[t].request
      BY <1>11, <2>3, CommitFacts
    <3>2. store[t].pc # "idle" => store[t].request # store[s].request
                                  /\ store[t].request \in Requests
      BY <1>a, <2>1, <2>3 DEF ServingAt
    <3>3. QED
      BY <1>1, <2>1, <3>1, <3>2 DEF Undisturbed
  <2>4. QED
    BY <2>2, <2>3
<1>12. ASSUME NEW s \in Stores, Stop(s) PROVE ServingAt(t)' /\ CheckedAt(t)'
  <2>1. store'[s] = [Fresh EXCEPT !.up = FALSE] /\ (t # s => store'[t] = store[t])
    BY <1>12, <1>b DEF Stop
  <2>2. \A p \in Requests : request[p].at # s => request'[p] = request[p]
    BY <1>12 DEF Stop
  <2>3. store'[s].pc = "idle"
    BY <2>1 DEF Fresh
  <2>4. CASE t = s
    BY <2>3, <2>4 DEF ServingAt, CheckedAt
  <2>5. CASE t # s
    <3>1. store[t].pc # "idle" => request[store[t].request].at # s
                                  /\ store[t].request \in Requests
      BY <1>a, <2>5 DEF ServingAt
    <3>2. QED
      BY <1>1, <2>1, <2>2, <2>5, <3>1 DEF Undisturbed
  <2>6. QED
    BY <2>4, <2>5
<1>13. ASSUME NEW s \in Stores, Start(s) PROVE ServingAt(t)' /\ CheckedAt(t)'
  <2>1. /\ store'[s] = [Fresh EXCEPT !.copy = receipts, !.token = policy]
        /\ (t # s => store'[t] = store[t]) /\ request' = request
    BY <1>13, <1>b DEF Start
  <2>2. store'[s].pc = "idle"
    BY <2>1 DEF Fresh
  <2>3. CASE t = s
    BY <2>2, <2>3 DEF ServingAt, CheckedAt
  <2>4. QED
    BY <1>1, <2>1, <2>3 DEF Undisturbed
<1>14. ASSUME NEW k \in Keys, Replace(k) PROVE ServingAt(t)' /\ CheckedAt(t)'
  BY <1>1, <1>14 DEF Replace, Undisturbed
<1>15. ASSUME NEW s \in Stores, Compare(s) PROVE ServingAt(t)' /\ CheckedAt(t)'
  <2>1. request' = request /\ (t # s => store'[t] = store[t])
    BY <1>15, <1>b DEF Compare
  <2>2. store'[s] = [store[s] EXCEPT !.pc = "insert"]
    BY <1>15, <1>b DEF Compare, StoreStates
  <2>3. /\ store'[s].pc = "insert" /\ store'[s].request = store[s].request
        /\ store'[s].up = store[s].up /\ store'[s].copy = store[s].copy
    BY <1>b, <2>2 DEF StoreStates
  <2>4. ServingAt(s)'
    BY <1>15, <1>a, <2>1, <2>3 DEF Compare, ServingAt
  <2>5. CheckedAt(s)'
    <3>1. Body(store[s].request, SignerOf[s])' = Body(store[s].request, SignerOf[s])
      BY <2>1, <2>3 DEF Body
    <3>2. CheckedAt(s) /\ store[s].pc = "commit"
      BY <1>15 DEF Compare, Checked
    <3>3. QED
      BY <2>3, <3>1, <3>2 DEF CheckedAt
  <2>6. QED
    BY <1>1, <2>1, <2>4, <2>5 DEF Undisturbed
<1>16. QED
  BY <1>2, <1>3, <1>4, <1>5, <1>6, <1>7, <1>8, <1>9, <1>10, <1>11, <1>12, <1>13, <1>14, <1>15
  DEF Next

-----------------------------------------------------------------------------
(***************************************************************************)
(* The write transaction.                                                  *)
(***************************************************************************)
\* A step that begins no write transaction leaves the one under way alone.
Unentered ==
  /\ began' = began
  /\ \A t \in Stores : store'[t].pc = "insert" =>
       /\ store[t].pc = "insert"
       /\ store'[t].dirty = store[t].dirty /\ store'[t].token = store[t].token

LEMMA UnenteredSteps ==
  ASSUME TypeOK, Serving, CopyIsCurrent, Inserting, [Next]_vars
  PROVE  Unentered \/ \E s \in Stores : Compare(s)
<1>a. store \in [Stores -> StoreStates] /\ \A t \in Stores : store[t] \in StoreStates
  BY DEF TypeOK
<1>1. CASE store' = store /\ began' = began
  BY <1>1 DEF Unentered
<1>2. ASSUME NEW q \in Requests, NEW s \in Stores, Claim(q, s) PROVE Unentered
  <2>1. \A t \in Stores : store[t].pc # "insert"
    BY <1>2 DEF Claim, WriteFree
  <2>2. \A t \in Stores : store'[t].pc = store[t].pc
    <3>1. CASE store' = store
      BY <3>1
    <3>2. CASE store' = Committed(s, store[s])
      <4>1. store'[s] = store[s]
            /\ \A t \in Stores : t # s => store'[t] = [store[t] EXCEPT !.dirty = TRUE]
        BY <3>2, <1>a, CommittedType
      <4>2. QED
        BY <4>1, <1>a DEF StoreStates
    <3>3. QED
      BY <1>2, <3>1, <3>2 DEF Claim
  <2>3. QED
    BY <1>2, <2>1, <2>2 DEF Claim, Unentered
<1>3. ASSUME NEW s \in Stores, Commit(s) PROVE Unentered
  <2>1. store'[s].pc = "idle" /\ UNCHANGED began /\ store[s].pc = "insert"
    BY <1>3, CommitFacts DEF Commit
  <2>2. \A t \in Stores : t # s => store'[t].pc = store[t].pc
    BY <1>3, CommitFacts
  <2>3. \A t \in Stores : store[t].pc = "insert" => t = s
    BY <2>1 DEF Inserting, InsertingAt
  <2>4. QED
    BY <2>1, <2>2, <2>3 DEF Unentered
\* Any other step moves one store, and not into a write transaction.
<1>4. ASSUME NEW s \in Stores, began' = began, store'[s].pc # "insert",
             \A t \in Stores : t # s => store'[t] = store[t]
      PROVE  Unentered
  BY <1>4 DEF Unentered
<1>5. ASSUME NEW s \in Stores, NEW q \in Requests, Acquire(s, q) PROVE Unentered
  <2>1. store'[s].pc = "refresh"
    BY <1>5, <1>a DEF Acquire, StoreStates
  <2>2. QED
    BY <1>4, <1>5, <1>a, <2>1 DEF Acquire
<1>6. ASSUME NEW s \in Stores, Fail(s) PROVE Unentered
  <2>1. store'[s].pc = "idle"
    BY <1>6, <1>a, ReleaseType DEF Fail
  <2>2. QED
    BY <1>4, <1>6, <1>a, <2>1 DEF Fail
<1>7. ASSUME NEW s \in Stores, Refresh(s) PROVE Unentered
  <2>1. store'[s].pc = "sign"
    BY <1>7, <1>a DEF Refresh, StoreStates
  <2>2. QED
    BY <1>4, <1>7, <1>a, <2>1 DEF Refresh
<1>8. ASSUME NEW s \in Stores, Sign(s) PROVE Unentered
  <2>1. store'[s].pc = "commit"
    BY <1>8, <1>a DEF Sign, StoreStates
  <2>2. QED
    BY <1>4, <1>8, <1>a, <2>1 DEF Sign
<1>9. ASSUME NEW s \in Stores, Retry(s) PROVE Unentered
  <2>1. store'[s].pc = "refresh"
    BY <1>9, <1>a DEF Retry, StoreStates
  <2>2. QED
    BY <1>4, <1>9, <1>a, <2>1 DEF Retry
<1>10. ASSUME NEW s \in Stores, Stop(s) \/ Start(s) PROVE Unentered
  <2>1. store'[s].pc = "idle"
    <3>1. CASE Stop(s)
      <4>1. store'[s] = [Fresh EXCEPT !.up = FALSE]
        BY <3>1, <1>a DEF Stop
      <4>2. QED
        BY <4>1 DEF Fresh
    <3>2. CASE Start(s)
      <4>1. store'[s] = [Fresh EXCEPT !.copy = receipts, !.token = policy]
        BY <3>2, <1>a DEF Start
      <4>2. QED
        BY <4>1 DEF Fresh
    <3>3. QED
      BY <1>10, <3>1, <3>2
  <2>2. QED
    BY <1>4, <1>10, <1>a, <2>1 DEF Stop, Start
<1>11. QED
  BY <1>1, <1>2, <1>3, <1>5, <1>6, <1>7, <1>8, <1>9, <1>10
  DEF Next, vars, Deny, Call, Abandon, Replace

LEMMA InsertingStep ==
  ASSUME TypeOK, Serving, CopyIsCurrent, Endorsed, Inserting, [Next]_vars
  PROVE  Inserting'
<1>1. CASE Unentered
  BY <1>1 DEF Unentered, Inserting, InsertingAt
<1>2. ASSUME NEW s \in Stores, Compare(s) PROVE Inserting'
  <2>a. store \in [Stores -> StoreStates] /\ store[s] \in StoreStates
    BY DEF TypeOK
  <2>1. /\ store[s].pc = "commit" /\ ~store[s].dirty /\ store[s].token = policy
        /\ began' = policy /\ \A t \in Stores : store[t].pc # "insert"
    BY <1>2 DEF Compare, WriteFree, Unchanged, Stale
  <2>2. \A t \in Stores : t # s => store'[t] = store[t]
    BY <1>2, <2>a DEF Compare
  <2>3. /\ store'[s].pc = "insert" /\ store'[s].dirty = store[s].dirty
        /\ store'[s].token = store[s].token
    BY <1>2, <2>a DEF Compare, StoreStates
  <2>4. policy[SignerOf[s]] = "trusted"
    BY <2>1 DEF Endorsed, EndorsedAt
  <2>5. QED
    BY <2>1, <2>2, <2>3, <2>4 DEF Inserting, InsertingAt
<1>3. QED
  BY <1>1, <1>2, UnenteredSteps

-----------------------------------------------------------------------------
(***************************************************************************)
(* The stream and the requests.                                            *)
(***************************************************************************)
\* A step that appends nothing and calls nobody; a request that it moves goes
\* on before its authorization, or ends.
Silent ==
  /\ receipts' = receipts /\ called' = called
  /\ \A q \in Requests :
       \/ request'[q].pc = request[q].pc
       \/ request[q].pc = "new" /\ request'[q].pc \in {"claimed", "denied"}
       \/ request'[q].pc = "end"

LEMMA SilentSteps ==
  ASSUME TypeOK, Serving, [Next]_vars
  PROVE  \/ Silent
         \/ \E q \in Requests : Call(q)
         \/ \E s \in Stores : Commit(s)
<1>a. request \in [Requests -> RequestStates] /\ \A q \in Requests : request[q] \in RequestStates
  BY DEF TypeOK
<1>1. CASE request' = request /\ receipts' = receipts /\ called' = called
  BY <1>1 DEF Silent
<1>2. ASSUME NEW q \in Requests, NEW s \in Stores, Claim(q, s) PROVE Silent
  <2>1. /\ request[q].pc = "new" /\ request'[q].pc = "claimed"
        /\ \A p \in Requests : p # q => request'[p] = request[p]
    BY <1>2, <1>a DEF Claim, RequestStates
  <2>2. receipts' = receipts /\ called' = called
    BY <1>2 DEF Claim
  <2>3. QED
    BY <2>1, <2>2 DEF Silent
<1>3. ASSUME NEW q \in Requests, NEW s \in Stores, Deny(q, s) PROVE Silent
  <2>1. /\ request[q].pc = "new" /\ request'[q].pc = "denied"
        /\ \A p \in Requests : p # q => request'[p] = request[p]
    BY <1>3, <1>a DEF Deny, RequestStates
  <2>2. receipts' = receipts /\ called' = called
    BY <1>3 DEF Deny
  <2>3. QED
    BY <2>1, <2>2 DEF Silent
<1>4. ASSUME NEW q \in Requests, Abandon(q) PROVE Silent
  <2>1. request'[q].pc = "end" /\ \A p \in Requests : p # q => request'[p] = request[p]
    BY <1>4, <1>a DEF Abandon, RequestStates
  <2>2. receipts' = receipts /\ called' = called
    BY <1>4 DEF Abandon
  <2>3. QED
    BY <2>1, <2>2 DEF Silent
<1>5. ASSUME NEW s \in Stores, Fail(s) PROVE Silent
  <2>1. store[s].request \in Requests
    BY <1>5 DEF Fail, Serving, ServingAt
  <2>2. /\ request'[store[s].request].pc = "end"
        /\ \A p \in Requests : p # store[s].request => request'[p] = request[p]
    BY <1>5, <1>a, <2>1 DEF Fail, RequestStates
  <2>3. receipts' = receipts /\ called' = called
    BY <1>5 DEF Fail
  <2>4. QED
    BY <2>2, <2>3 DEF Silent
<1>6. ASSUME NEW s \in Stores, Stop(s) PROVE Silent
  <2>1. \A p \in Requests : request'[p] = request[p] \/ request'[p].pc = "end"
    BY <1>6, <1>a DEF Stop, RequestStates
  <2>2. receipts' = receipts /\ called' = called
    BY <1>6 DEF Stop
  <2>3. QED
    BY <2>1, <2>2 DEF Silent
<1>7. QED
  BY <1>1, <1>2, <1>3, <1>4, <1>5, <1>6
  DEF Next, vars, Acquire, Refresh, Sign, Retry, Compare, Start, Replace

LEMMA SilentKeeps ==
  ASSUME Standing, ProofOfCall, Silent
  PROVE  Standing' /\ ProofOfCall'
<1>1. Standing'
  BY DEF Silent, Standing, About
<1>2. ProofOfCall'
  BY DEF Silent, ProofOfCall
<1>3. QED
  BY <1>1, <1>2

\* A call is proved by the authorization its request has waited for.
LEMMA CallKeeps ==
  ASSUME TypeOK, Standing, ProofOfCall, NEW q \in Requests, Call(q)
  PROVE  Standing' /\ ProofOfCall'
<1>1. /\ receipts' = receipts /\ called' = called \union {q}
      /\ request[q].pc = "authorized" /\ request'[q].pc = "called"
      /\ \A p \in Requests : p # q => request'[p] = request[p]
  BY DEF Call, TypeOK, RequestStates
<1>2. About(q, "authorization") # {} /\ About(q, "outcome") = {}
  BY <1>1 DEF Standing
<1>3. Standing'
  BY <1>1, <1>2 DEF Standing, About
<1>4. ProofOfCall'
  BY <1>1, <1>2 DEF ProofOfCall, About
<1>5. QED
  BY <1>3, <1>4

\* One receipt more, about one request.
LEMMA AboutGrows ==
  ASSUME TypeOK, Serving, CopyIsCurrent, Inserting, NEW s \in Stores, Commit(s),
         NEW p \in Requests, NEW kind
  PROVE  LET q == store[s].request
             r == Body(q, SignerOf[s])
         IN  About(p, kind)' = IF p = q /\ kind = r.kind
                               THEN About(p, kind) \union {Len(receipts) + 1}
                               ELSE About(p, kind)
<1> DEFINE q == store[s].request
           r == Body(q, SignerOf[s])
           n == Len(receipts)
<1>1. q \in Requests /\ r.request = q
  BY CommitFacts, BodyFacts DEF TypeOK
<1>2. /\ n \in Nat /\ Len(receipts') = n + 1 /\ receipts'[n + 1] = r
      /\ \A i \in 1..n : receipts'[i] = receipts[i]
  BY CommitFacts
<1>3. 1..(n + 1) = (1..n) \union {n + 1} /\ n + 1 \notin 1..n
  BY <1>2
<1> HIDE DEF r, n
<1>4. QED
  BY <1>1, <1>2, <1>3 DEF About, n, r

LEMMA CommitStands ==
  ASSUME TypeOK, Serving, CopyIsCurrent, Inserting, Standing, ProofOfCall,
         NEW s \in Stores, Commit(s)
  PROVE  Standing' /\ ProofOfCall'
<1> SUFFICES ASSUME NEW q \in Requests, q = store[s].request
             PROVE  Standing' /\ ProofOfCall'
  BY CommitFacts
<1> DEFINE r == Body(q, SignerOf[s])
           n == Len(receipts)
<1>a. /\ q \in Requests /\ SignerOf[s] \in Keys
      /\ request[q].pc \in {"claimed", "called", "denied"}
      /\ r.kind = CASE request[q].pc = "claimed" -> "authorization"
                    [] request[q].pc = "called" -> "outcome"
                    [] OTHER -> "denial"
      /\ request'[q].pc = IF r.kind = "authorization" THEN "authorized" ELSE "end"
      /\ \A p \in Requests : p # q => request'[p] = request[p]
      /\ called' = called
  BY CommitFacts, BodyFacts DEF TypeOK
<1>b. \A p \in Requests : \A kind \in {"authorization", "outcome"} :
        About(p, kind)' = IF p = q /\ kind = r.kind THEN About(p, kind) \union {n + 1}
                                                    ELSE About(p, kind)
  BY AboutGrows
<1> HIDE DEF r, n
<1>1. \A p \in Requests : p # q => /\ About(p, "authorization")' = About(p, "authorization")
                                   /\ About(p, "outcome")' = About(p, "outcome")
  BY <1>b
<1>c. /\ About(q, "authorization")' = IF r.kind = "authorization"
                                       THEN About(q, "authorization") \union {n + 1}
                                       ELSE About(q, "authorization")
      /\ About(q, "outcome")' = IF r.kind = "outcome" THEN About(q, "outcome") \union {n + 1}
                                                      ELSE About(q, "outcome")
  BY <1>b
<1>d. \A p \in Requests : ProvenAt(p)
  BY DEF ProofOfCall, ProvenAt, About
<1>e. \A p \in Requests : p # q => ProvenAt(p)'
  BY <1>a, <1>1, <1>d DEF ProvenAt
<1>f. ProvenAt(q)' => ProofOfCall'
  BY <1>e DEF ProofOfCall, ProvenAt, About
<1>2. CASE request[q].pc = "claimed"
  <2>0. r.kind = "authorization" /\ request'[q].pc = "authorized"
    BY <1>a, <1>2
  <2>a. About(q, "authorization") = {} /\ About(q, "outcome") = {} /\ q \notin called
    BY <1>a, <1>2 DEF Standing
  <2>1. /\ About(q, "authorization")' = {n + 1} /\ About(q, "outcome")' = {}
        /\ q \notin called /\ request'[q].pc = "authorized"
    BY <1>c, <2>0, <2>a
  <2>2. Standing'
    BY <1>a, <1>1, <2>1 DEF Standing
  <2>3. ProofOfCall'
    <3>1. ProvenAt(q) /\ called' = called
      BY <1>a, <1>d
    <3>2. ProvenAt(q)'
      BY <2>1, <3>1 DEF ProvenAt
    <3>3. QED
      BY <1>f, <3>2
  <2>4. QED
    BY <2>2, <2>3
<1>3. CASE request[q].pc = "called"
  <2>1. /\ About(q, "authorization")' = About(q, "authorization")
        /\ About(q, "outcome")' = {n + 1}
        /\ q \in called /\ request'[q].pc = "end"
    <3>0. r.kind = "outcome" /\ request'[q].pc = "end"
      BY <1>a, <1>3
    <3>a. About(q, "outcome") = {} /\ q \in called
      BY <1>a, <1>3 DEF Standing
    <3>1. QED
      BY <1>c, <3>0, <3>a
  <2>2. Standing'
    BY <1>a, <1>1, <2>1 DEF Standing
  <2>3. ProofOfCall'
    <3>1. ProvenAt(q) /\ called' = called
      BY <1>a, <1>d
    <3>2. ProvenAt(q)'
      BY <2>1, <3>1 DEF ProvenAt
    <3>3. QED
      BY <1>f, <3>2
  <2>4. QED
    BY <2>2, <2>3
<1>4. CASE request[q].pc = "denied"
  <2>1. /\ About(q, "authorization")' = About(q, "authorization")
        /\ About(q, "outcome")' = About(q, "outcome") /\ request'[q].pc = "end"
    <3>0. r.kind = "denial" /\ request'[q].pc = "end"
      BY <1>a, <1>4
    <3>1. QED
      BY <1>c, <3>0
  <2>2. Standing'
    BY <1>a, <1>1, <2>1 DEF Standing
  <2>3. ProofOfCall'
    <3>1. ProvenAt(q) /\ called' = called
      BY <1>a, <1>d
    <3>2. ProvenAt(q)'
      BY <2>1, <3>1 DEF ProvenAt
    <3>3. QED
      BY <1>f, <3>2
  <2>4. QED
    BY <2>2, <2>3
<1>5. QED
  BY <1>a, <1>2, <1>3, <1>4

LEMMA StreamInit == Init => StreamInvariant
<1> SUFFICES ASSUME Init PROVE StreamInvariant
  OBVIOUS
<1>1. TypeOK
  BY TypeInit
<1>2. /\ receipts = <<>> /\ Len(receipts) = 0 /\ policy = FirstPolicy /\ called = {}
      /\ \A q \in Requests : request[q].pc = "new"
  BY DEF Init
<1>3. \A s \in Stores : /\ store[s].pc = "idle" /\ store[s].copy = <<>>
                        /\ Len(store[s].copy) = 0 /\ store[s].token = FirstPolicy
  BY DEF Init, Fresh
<1>4. Serving /\ Checked /\ Inserting
  BY <1>3 DEF Serving, ServingAt, Checked, CheckedAt, Inserting, InsertingAt
<1>5. CopyIsCurrent
  <2>1. SubSeq(receipts, 1, 0) = <<>>
    BY <1>2
  <2>2. \A s \in Stores : store[s].copy = receipts /\ Len(store[s].copy) = 0
    BY <1>2, <1>3
  <2>3. \A s \in Stores : Len(store[s].copy) <= Len(receipts)
                         /\ store[s].copy = SubSeq(receipts, 1, Len(store[s].copy))
    <3>1. Len(receipts) = 0
      BY <1>2
    <3>2. SUFFICES ASSUME NEW s \in Stores
                   PROVE  Len(store[s].copy) <= Len(receipts)
                          /\ store[s].copy = SubSeq(receipts, 1, Len(store[s].copy))
      OBVIOUS
    <3>3. store[s].copy = receipts /\ Len(store[s].copy) = 0
      BY <2>2
    <3>4. SubSeq(receipts, 1, Len(store[s].copy)) = <<>>
      BY <2>1, <3>3
    <3>5. QED
      BY <1>2, <3>1, <3>3, <3>4
  <2>4. QED
    BY <2>2, <2>3 DEF CopyIsCurrent
<1>6. Older
  <2>1. \A k \in Keys : Rank(FirstPolicy[k]) <= Rank(FirstPolicy[k])
    BY FreshType, RankFacts DEF Policies
  <2>2. QED
    BY <1>2, <1>3, <2>1 DEF Older
<1>7. Endorsed
  <2>1. \A s \in Stores : store[s].pc # "commit" /\ Len(store[s].copy) = 0
    BY <1>3
  <2>2. \A i \in 1..0 : FALSE
    OBVIOUS
  <2>3. SUFFICES ASSUME NEW s \in Stores PROVE EndorsedAt(s)
    BY DEF Endorsed
  <2>4. 1..Len(store[s].copy) = 1..0
    BY <2>1
  <2>5. QED
    BY <2>1, <2>2, <2>4 DEF EndorsedAt
<1>8. \A q \in Requests, kind \in {"authorization", "outcome"} : About(q, kind) = {}
  BY <1>2 DEF About
<1>9. Standing
  BY <1>2, <1>8 DEF Standing
<1>10. ProofOfCall
  BY <1>2 DEF ProofOfCall
<1>11. QED
  BY <1>1, <1>4, <1>5, <1>6, <1>7, <1>9, <1>10 DEF StreamInvariant

LEMMA StreamStep == StreamInvariant /\ [Next]_vars => StreamInvariant'
<1> SUFFICES ASSUME StreamInvariant, [Next]_vars PROVE StreamInvariant'
  OBVIOUS
<1>1. /\ TypeOK /\ Serving /\ CopyIsCurrent /\ Checked /\ Older /\ Endorsed
      /\ Inserting /\ Standing /\ ProofOfCall
  BY DEF StreamInvariant
<1>2. TypeOK'
  BY <1>1, TypeStep
<1>3. CopyIsCurrent' /\ Older' /\ Endorsed'
  BY <1>1, CopyStep
<1>4. Serving' /\ Checked'
  BY <1>1, ServingStep
<1>5. Standing' /\ ProofOfCall'
  BY <1>1, SilentSteps, SilentKeeps, CallKeeps, CommitStands
<1>6. Inserting'
  BY <1>1, InsertingStep
<1>7. QED
  BY <1>2, <1>3, <1>4, <1>5, <1>6 DEF StreamInvariant

\* Copies, appends, trust and proofs stand together in every reachable state
\* of the gateway processes (receipts.py).
THEOREM StreamCorrect == Spec => []StreamInvariant
<1>1. Init => StreamInvariant
  BY StreamInit
<1>2. StreamInvariant /\ [Next]_vars => StreamInvariant'
  BY StreamStep
<1>3. QED
  BY <1>1, <1>2, PTL DEF Spec

\* Every variable keeps its type, the copies and remembered policies included.
THEOREM TypeCorrect == Spec => []TypeOK
<1>1. StreamInvariant => TypeOK
  BY DEF StreamInvariant
<1>2. QED
  BY <1>1, StreamCorrect, PTL

\* No process signs on a copy that forks from the shared table (append,
\* _refresh_state): a copy nobody overtook is the table, any other a prefix.
THEOREM CurrentCopies == Spec => []CopyIsCurrent
<1>1. StreamInvariant => CopyIsCurrent
  BY DEF StreamInvariant
<1>2. QED
  BY <1>1, StreamCorrect, PTL

\* A provider call has one durable authorization, and an outcome a call
\* (live_gateway/service.py).
THEOREM CallsProven == Spec => []ProofOfCall
<1>1. StreamInvariant => ProofOfCall
  BY DEF StreamInvariant
<1>2. QED
  BY <1>1, StreamCorrect, PTL

\* Only a commit appends.
LEMMA AppendStep ==
  ASSUME TypeOK, Serving, [Next]_vars
  PROVE  receipts' = receipts \/ \E s \in Stores : Commit(s)
  BY SilentSteps DEF Silent, Call

\* A key revoked or not listed by the policy that a write transaction finds
\* when it begins, anywhere in the stream or on the new receipt, stops the
\* append of any process, whatever it verified before (append, receipts.py).
THEOREM AppendTrusted == Spec => AppendUnderTrust
<1> DEFINE Grown == \A i \in 1..Len(receipts') : began[receipts'[i].key] = "trusted"
<1>1. ASSUME StreamInvariant, [Next]_vars
      PROVE  receipts' # receipts => Grown
  <2>1. TypeOK /\ Serving /\ CopyIsCurrent /\ Endorsed /\ Inserting
    BY <1>1 DEF StreamInvariant
  <2>2. ASSUME NEW s \in Stores, Commit(s) PROVE Grown
    <3> DEFINE r == Body(store[s].request, SignerOf[s])
    <3>1. /\ store[s].copy = receipts /\ store[s].token = began
          /\ began[SignerOf[s]] = "trusted" /\ Len(receipts) \in Nat
          /\ Len(receipts') = Len(receipts) + 1 /\ receipts'[Len(receipts) + 1] = r
          /\ \A i \in 1..Len(receipts) : receipts'[i] = receipts[i]
      BY <2>1, <2>2, CommitFacts
    <3>2. r.key = SignerOf[s]
      BY <2>1, <2>2, CommitFacts, BodyFacts
    <3>3. \A i \in 1..Len(receipts) : began[receipts[i].key] = "trusted"
      BY <2>1, <3>1 DEF Endorsed, EndorsedAt
    <3> HIDE DEF r
    <3>4. QED
      BY <3>1, <3>2, <3>3
  <2>3. QED
    BY <1>1, <2>1, <2>2, AppendStep
<1>2. StreamInvariant /\ [Next]_vars => [receipts' # receipts => Grown]_vars
  BY <1>1
<1>3. QED
  BY <1>2, StreamCorrect, PTL DEF Spec, AppendUnderTrust

\* The table that the gateway processes share implements the log an auditor
\* replays: every append is a record that the verified stream accepts.
THEOREM StreamImplementsLog == Spec => ImplementsReceiptLog
<1>1. Init => Log!Init
  BY DEF Init, Log!Init
<1>2. ASSUME StreamInvariant, [Next]_vars
      PROVE  [Log!Next]_receipts
  <2>1. TypeOK /\ Serving /\ CopyIsCurrent /\ Checked /\ Inserting
    BY <1>2 DEF StreamInvariant
  <2>2. ASSUME NEW s \in Stores, Commit(s) PROVE Log!Record
    <3> DEFINE r == Body(store[s].request, SignerOf[s])
    <3>1. /\ r \in Log!Records /\ receipts' = Append(receipts, r)
          /\ Len(receipts') = Len(receipts) + 1 /\ receipts'[Len(receipts) + 1] = r
          /\ store[s].copy = receipts
      BY <2>1, <2>2, CommitFacts
    <3>2. Log!Accepts(store[s].copy, r)
      BY <2>1, <2>2 DEF Checked, CheckedAt, Commit
    <3> HIDE DEF r
    <3>3. Log!Accepts(receipts, r)
      BY <3>1, <3>2
    <3>4. QED
      BY <3>1, <3>3 DEF Log!Record
  <2>3. QED
    BY <1>2, <2>1, <2>2, AppendStep DEF Log!Next
<1>3. StreamInvariant /\ [Next]_vars => [Log!Next]_receipts
  BY <1>2
<1>4. QED
  BY <1>1, <1>3, StreamCorrect, PTL DEF Spec, ImplementsReceiptLog, Log!Spec
=============================================================================
