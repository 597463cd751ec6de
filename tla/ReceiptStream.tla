--------------------------- MODULE ReceiptStream ---------------------------
(***************************************************************************)
(* Signed appends of live_gateway/receipts.py: gateway processes share one *)
(* SQLite file; each keeps a verified copy of the stream in memory, signs  *)
(* the next receipt outside any transaction, and inserts it in a write     *)
(* transaction that began when no other connection had committed and the   *)
(* trust policy was the same as when the copy was checked.  The policy     *)
(* file is not under SQLite's lock: it may be replaced between that        *)
(* comparison and the commit.                                              *)
(*                                                                         *)
(* A request claims its single-use evidence, appends its authorization,    *)
(* calls the provider and appends the outcome, all through the store of    *)
(* the process that serves it; a refused request appends a denial.  The    *)
(* lock of a store serializes its callers.  A copy of the stream stands    *)
(* for the state replayed from it.                                         *)
(*                                                                         *)
(* A trust policy gives each key a standing.  Rotation lists a key and     *)
(* revocation marks it for good, so a policy never returns to an earlier   *)
(* one; the append compares only the policies before and after signing.    *)
(***************************************************************************)
EXTENDS Naturals, Sequences

CONSTANTS
  Stores,     \* one per gateway process
  Requests,
  Evidence,
  EvidenceOf, \* request -> the single-use evidence it relies on
  Keys,
  SignerOf,   \* store -> key of its signer
  Listed,     \* keys the first policy lists
  MaxTries,   \* attempts of one append
  None        \* no store, no request

ASSUME StreamAssumption ==
  /\ EvidenceOf \in [Requests -> SUBSET Evidence]
  /\ SignerOf \in [Stores -> Keys]
  /\ Listed \subseteq Keys
  /\ MaxTries \in Nat \ {0}
  /\ None \notin Stores /\ None \notin Requests

VARIABLES
  receipts, \* table receipts
  claimed,  \* table evidence_claims: the evidence claimed so far
  request,  \* progress of each request
  store,    \* each process: its copy of the stream and its append
  policy,   \* the trust policy file
  called,   \* history: requests that reached the provider
  began     \* history: the policy the last write transaction of an append
            \* found when it began

vars == <<receipts, claimed, request, store, policy, called, began>>

Log == INSTANCE ReceiptLog WITH log <- receipts

RequestStates ==
  [pc : {"new", "claimed", "denied", "authorized", "called", "end"},
   at : Stores \union {None}, parent : Nat]

Policies == [Keys -> {"unlisted", "trusted", "revoked"}]

\* dirty: PRAGMA data_version differs from the generation of the copy.
StoreStates ==
  [up : BOOLEAN, copy : Seq(Log!Records), dirty : BOOLEAN, token : Policies,
   pc : {"idle", "refresh", "sign", "commit", "insert"}, request : Requests \union {None},
   tries : 0..MaxTries]

TypeOK ==
  /\ receipts \in Seq(Log!Records)
  /\ claimed \subseteq Evidence
  /\ request \in [Requests -> RequestStates]
  /\ store \in [Stores -> StoreStates]
  /\ policy \in Policies
  /\ called \subseteq Requests
  /\ began \in Policies

\* TrustPolicy.verify, for every receipt of a stream (replay_records).
Trusted(l) == \A i \in 1..Len(l) : policy[l[i].key] = "trusted"

FirstPolicy == [k \in Keys |-> IF k \in Listed THEN "trusted" ELSE "unlisted"]

Fresh == [up |-> TRUE, copy |-> <<>>, dirty |-> FALSE, token |-> FirstPolicy,
          pc |-> "idle", request |-> None, tries |-> 0]

Init ==
  /\ receipts = <<>>
  /\ claimed = {}
  /\ request = [q \in Requests |-> [pc |-> "new", at |-> None, parent |-> 0]]
  /\ store = [s \in Stores |-> Fresh]
  /\ policy = FirstPolicy
  /\ called = {}
  /\ began = FirstPolicy

(***************************************************************************)
(* A request at its gateway.                                               *)
(***************************************************************************)
\* The lock of the store is free.
Free(s) == store[s].up /\ store[s].pc = "idle"

\* SQLite's write lock is free: BEGIN IMMEDIATE does not wait.
WriteFree == \A s \in Stores : store[s].pc # "insert"

\* data_version of every other connection moves.
Committed(s, own) ==
  [t \in Stores |-> IF t = s THEN own ELSE [store[t] EXCEPT !.dirty = TRUE]]

\* claim_single_use_evidence: all or nothing, before any side effect.
Claim(q, s) ==
  /\ request[q].pc = "new" /\ Free(s) /\ WriteFree
  /\ EvidenceOf[q] \cap claimed = {}
  /\ claimed' = claimed \union EvidenceOf[q]
  /\ request' = [request EXCEPT ![q].pc = "claimed", ![q].at = s]
  /\ store' = IF EvidenceOf[q] = {} THEN store ELSE Committed(s, store[s])
  /\ UNCHANGED <<receipts, policy, called, began>>

\* Authority denies, or the evidence was claimed before.
Deny(q, s) ==
  /\ request[q].pc = "new" /\ store[s].up
  /\ request' = [request EXCEPT ![q].pc = "denied", ![q].at = s]
  /\ UNCHANGED <<receipts, claimed, store, policy, called, began>>

\* request_upstream, after the authorization is durable.
Call(q) ==
  /\ request[q].pc = "authorized" /\ store[request[q].at].up
  /\ request' = [request EXCEPT ![q].pc = "called"]
  /\ called' = called \union {q}
  /\ UNCHANGED <<receipts, claimed, store, policy, began>>

\* _revalidate_before_dispatch refuses: the authorization stays unresolved.
Abandon(q) ==
  /\ request[q].pc = "authorized"
  /\ request' = [request EXCEPT ![q].pc = "end"]
  /\ UNCHANGED <<receipts, claimed, store, policy, called, began>>

(***************************************************************************)
(* append, by store s.                                                     *)
(***************************************************************************)
\* What _append_receipt asks the store to append for a request.
Body(q, key) ==
  CASE request[q].pc = "claimed" ->
         [kind |-> "authorization", request |-> q, parent |-> 0,
          claims |-> EvidenceOf[q], key |-> key]
    [] request[q].pc = "called" ->
         [kind |-> "outcome", request |-> q, parent |-> request[q].parent,
          claims |-> EvidenceOf[q], key |-> key]
    [] OTHER ->
         [kind |-> "denial", request |-> q, parent |-> 0, claims |-> {}, key |-> key]

Acquire(s, q) ==
  /\ Free(s)
  /\ request[q].at = s /\ request[q].pc \in {"claimed", "called", "denied"}
  /\ store' = [store EXCEPT ![s].pc = "refresh", ![s].request = q, ![s].tries = 1]
  /\ UNCHANGED <<receipts, claimed, request, policy, called, began>>

Release(s) == [store[s] EXCEPT !.pc = "idle", !.request = None, !.tries = 0]

\* mutant: a failed authorization does not stop the request.
FailOpen(s) ==
  /\ store[s].pc # "idle"
  /\ store' = [store EXCEPT ![s] = Release(s)]
  /\ request' = [request EXCEPT ![store[s].request].pc =
                   IF request[store[s].request].pc = "claimed" THEN "authorized" ELSE "end"]
  /\ UNCHANGED <<receipts, claimed, policy, called, began>>

\* The append raises: the request is answered without a receipt.
Fail(s) ==
  /\ store[s].pc # "idle"
  /\ store' = [store EXCEPT ![s] = Release(s)]
  /\ request' = [request EXCEPT ![store[s].request].pc = "end"]
  /\ UNCHANGED <<receipts, claimed, policy, called, began>>

Stale(s) == store[s].dirty \/ store[s].token # policy

\* mutant: the generation is taken over without a replay.
RefreshGeneration(s) ==
  /\ store[s].pc = "refresh"
  /\ store' = [store EXCEPT ![s] = [store[s] EXCEPT
                 !.pc = "sign", !.dirty = FALSE, !.token = policy]]
  /\ UNCHANGED <<receipts, claimed, request, policy, called, began>>

\* _refresh_state: a stale copy is replayed from one snapshot of the table.
Refresh(s) ==
  /\ store[s].pc = "refresh"
  /\ Stale(s) => Trusted(receipts)
  /\ store' = [store EXCEPT ![s] = [store[s] EXCEPT
                 !.pc = "sign", !.copy = IF Stale(s) THEN receipts ELSE store[s].copy,
                 !.dirty = FALSE, !.token = policy]]
  /\ UNCHANGED <<receipts, claimed, request, policy, called, began>>

\* _make_receipt signs, and validate checks the new receipt against the copy
\* under the policy of that moment.
Sign(s) ==
  /\ store[s].pc = "sign"
  /\ policy[SignerOf[s]] = "trusted"
  /\ Log!Accepts(store[s].copy, Body(store[s].request, SignerOf[s]))
  /\ store' = [store EXCEPT ![s].pc = "commit"]
  /\ UNCHANGED <<receipts, claimed, request, policy, called, began>>

\* mutant: only the policy is compared.
UnchangedPolicy(s) == store[s].token = policy

\* mutant: only the database is compared.
UnchangedData(s) == ~store[s].dirty

\* Nothing moved while the receipt was signed, as BEGIN IMMEDIATE finds it.
Unchanged(s) == ~Stale(s)

\* mutant: conflicts are not counted against the limit.
RetryForever(s) ==
  /\ store[s].pc = "commit" /\ WriteFree /\ ~Unchanged(s)
  /\ store' = [store EXCEPT ![s].pc = "refresh", ![s].tries = store[s].tries + 1]
  /\ UNCHANGED <<receipts, claimed, request, policy, called, began>>

Retry(s) ==
  /\ store[s].pc = "commit" /\ WriteFree /\ ~Unchanged(s)
  /\ store[s].tries < MaxTries
  /\ store' = [store EXCEPT ![s].pc = "refresh", ![s].tries = store[s].tries + 1]
  /\ UNCHANGED <<receipts, claimed, request, policy, called, began>>

\* BEGIN IMMEDIATE, and the generation and the policy are those of the copy.
Compare(s) ==
  /\ store[s].pc = "commit" /\ WriteFree /\ Unchanged(s)
  /\ store' = [store EXCEPT ![s].pc = "insert"]
  /\ began' = policy
  /\ UNCHANGED <<receipts, claimed, request, policy, called>>

\* The insert commits at the sequence number of the copy, and the copy
\* advances.
Commit(s) ==
  LET q == store[s].request
      r == Body(q, SignerOf[s])
  IN  /\ store[s].pc = "insert"
      /\ receipts' = Append(receipts, r)
      /\ store' = Committed(s, [Release(s) EXCEPT !.copy = Append(store[s].copy, r)])
      /\ request' = [request EXCEPT
                       ![q].pc = IF r.kind = "authorization" THEN "authorized" ELSE "end",
                       ![q].parent = IF r.kind = "authorization"
                                     THEN Len(store[s].copy) + 1 ELSE request[q].parent]
      /\ UNCHANGED <<claimed, policy, called, began>>

(***************************************************************************)
(* Processes and policy.                                                   *)
(***************************************************************************)
\* The process dies with its copy; what it served ends unanswered.
Stop(s) ==
  /\ store[s].up
  /\ store' = [store EXCEPT ![s] = [Fresh EXCEPT !.up = FALSE]]
  /\ request' = [q \in Requests |->
                   IF request[q].at = s THEN [request[q] EXCEPT !.pc = "end"] ELSE request[q]]
  /\ UNCHANGED <<receipts, claimed, policy, called, began>>

\* __post_init__ replays the whole table before the store is used.
Start(s) ==
  /\ ~store[s].up
  /\ Trusted(receipts)
  /\ store' = [store EXCEPT ![s] = [Fresh EXCEPT !.copy = receipts, !.token = policy]]
  /\ UNCHANGED <<receipts, claimed, request, policy, called, began>>

\* The trust policy file is replaced by one that lists or revokes a key.
Replace(k) ==
  /\ \/ policy[k] = "unlisted" /\ policy' = [policy EXCEPT ![k] = "trusted"]
     \/ policy[k] = "trusted" /\ policy' = [policy EXCEPT ![k] = "revoked"]
  /\ UNCHANGED <<receipts, claimed, request, store, called, began>>

Next ==
  \/ \E q \in Requests, s \in Stores : Claim(q, s) \/ Deny(q, s) \/ Acquire(s, q)
  \/ \E q \in Requests : Call(q) \/ Abandon(q)
  \/ \E s \in Stores : Fail(s) \/ Refresh(s) \/ Sign(s) \/ Retry(s) \/ Compare(s)
                       \/ Commit(s) \/ Stop(s) \/ Start(s)
  \/ \E k \in Keys : Replace(k)

Spec == Init /\ [][Next]_vars

(***************************************************************************)
(* Properties.                                                             *)
(***************************************************************************)
\* A copy that no foreign commit has touched is the table, and any copy is a
\* prefix of it: what a process signs next never forks the stream (append).
CopyIsCurrent ==
  \A s \in Stores : store[s].up =>
    /\ Len(store[s].copy) <= Len(receipts)
    /\ store[s].copy = SubSeq(receipts, 1, Len(store[s].copy))
    /\ ~store[s].dirty => store[s].copy = receipts

\* Proof before effect, once each: a request that reached the provider has
\* one authorization in the stream, and no request has two outcomes.
ProofOfCall ==
  LET of(q, kind) == {i \in 1..Len(receipts) :
                        receipts[i].request = q /\ receipts[i].kind = kind}
  IN  \A q \in Requests :
        /\ q \in called => of(q, "authorization") # {}
        /\ of(q, "outcome") # {} => q \in called
        /\ \A i, j \in of(q, "authorization") : i = j
        /\ \A i, j \in of(q, "outcome") : i = j

\* A receipt is committed only if the policy that its write transaction found
\* when it began trusts every receipt of the stream, the new one included: a
\* key revoked while a receipt is signed stops it in every process (append).
\* A revocation between that comparison and the commit comes too late, and is
\* felt by the next append.
AppendUnderTrust ==
  [][receipts' # receipts =>
       \A i \in 1..Len(receipts') : began[receipts'[i].key] = "trusted"]_vars

\* The shared table implements the log an auditor replays.
ImplementsReceiptLog == Log!Spec
=============================================================================
