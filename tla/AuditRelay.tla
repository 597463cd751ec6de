----------------------------- MODULE AuditRelay -----------------------------
(***************************************************************************)
(* The audit relay of integration_mesh/audit.py: signed receipts are       *)
(* copied from the gateway's stream into an outbox (sync) and delivered to *)
(* one sink, in order and at least once, by relay processes that lease the *)
(* head of the outbox, may stall or die while the network call is under    *)
(* way, and report under the token of their lease.                         *)
(*                                                                         *)
(* A run of a relay (cli.py) syncs first, and delivers one event after the *)
(* other while they are accepted, up to its limit.  A sync that fails ends *)
(* the run: nothing is delivered while the trust policy cannot be read or  *)
(* does not verify the stream, or the source does not extend the cursor.   *)
(*                                                                         *)
(* A receipt is linked to all earlier ones by its digest, so the digest of *)
(* the n-th receipt is the sequence of the first n bodies; an event is     *)
(* identified by it.  A relay holds one lease at a time, so its name       *)
(* stands for the random token.  Deadlines are what is left of them: Tick  *)
(* lets all of them run down.                                              *)
(***************************************************************************)
EXTENDS Naturals, Sequences

CONSTANTS
  Relays,      \* relay processes
  Bodies,      \* bodies of receipts
  Page,        \* limit of a sync page
  MaxAttempts, \* sink.max_attempts
  Lease,       \* timeout_seconds + 30
  Delay,       \* longest retry delay
  MaxReceipts, \* bound on the stream
  None         \* no relay

ASSUME RelayAssumption ==
  /\ Page \in Nat \ {0}
  /\ MaxAttempts \in Nat \ {0}
  /\ Lease \in Nat /\ Delay \in Nat \ {0}
  /\ MaxReceipts \in Nat
  /\ None \notin Relays

VARIABLES
  stream,   \* the signed receipt stream
  verifiable, \* the trust policy can be read and verifies the stream
  cursor,   \* mesh_sinks: digest (and so sequence) of the last receipt copied
  outbox,   \* mesh_outbox rows, by sequence number
  relay,    \* the run of each relay, and the delivery it is at
  wire,     \* events sent to the sink: each may arrive, late, repeatedly or never
  received  \* events in the order the sink first saw them

vars == <<stream, verifiable, cursor, outbox, relay, wire, received>>

Digests == UNION {[1..n -> Bodies] : n \in 0..MaxReceipts}

States == {"pending", "leased", "delivered", "dead"}

Statuses == {"accepted", "retry", "rejected"}

Rows == [digest : Digests, state : States, attempts : 0..MaxAttempts,
         due : Nat, token : Relays \union {None}]

Runs == [pc : {"idle", "ready", "check", "sent"}, sequence : 0..MaxReceipts,
         attempts : 0..MaxAttempts, elapsed : Nat]

TypeOK ==
  /\ stream \in Digests
  /\ verifiable \in BOOLEAN
  /\ cursor \in Digests
  /\ outbox \in Seq(Rows)
  /\ relay \in [Relays -> Runs]
  /\ wire \subseteq Digests
  /\ received \in Seq(Digests)

Least(m, n) == IF m < n THEN m ELSE n

Digest(n) == SubSeq(stream, 1, n)

\* mutant: a dead event is skipped.
FrontAlive ==
  CHOOSE n \in 1..(Len(outbox) + 1) :
    /\ n <= Len(outbox) => outbox[n].state \notin {"delivered", "dead"}
    /\ \A m \in 1..(n - 1) : outbox[m].state \in {"delivered", "dead"}

\* The lowest sequence not yet delivered; Len(outbox) + 1 if there is none.
Front ==
  CHOOSE n \in 1..(Len(outbox) + 1) :
    /\ n <= Len(outbox) => outbox[n].state # "delivered"
    /\ \A m \in 1..(n - 1) : outbox[m].state = "delivered"

Idle == [pc |-> "idle", sequence |-> 0, attempts |-> 0, elapsed |-> 0]

\* A run that has synced, before its next delivery.
Ready == [Idle EXCEPT !.pc = "ready"]

Init ==
  /\ stream = <<>>
  /\ verifiable = TRUE
  /\ cursor = <<>>
  /\ outbox = <<>>
  /\ relay = [r \in Relays |-> Idle]
  /\ wire = {}
  /\ received = <<>>

(***************************************************************************)
(* The source.                                                             *)
(***************************************************************************)
\* A gateway commits a receipt.
AppendReceipt(body) ==
  /\ Len(stream) < MaxReceipts
  /\ stream' = Append(stream, body)
  /\ UNCHANGED <<verifiable, cursor, outbox, relay, wire, received>>

\* The authority database is restored from a backup.
Restore(n) ==
  /\ n < Len(stream)
  /\ stream' = Digest(n)
  /\ UNCHANGED <<verifiable, cursor, outbox, relay, wire, received>>

\* The trust policy is replaced, lost or restored, a key of the stream revoked.
PolicyTurns ==
  /\ verifiable' = ~verifiable
  /\ UNCHANGED <<stream, cursor, outbox, relay, wire, received>>

(***************************************************************************)
(* A run of relay r: sync, one transaction.                                *)
(***************************************************************************)
\* mutant: the retained receipt is not compared with the source.
ExtendsUnchecked == Len(cursor) <= Len(stream)

\* The source still extends the retained cursor.
ExtendsCursor ==
  /\ Len(cursor) <= Len(stream)
  /\ cursor = Digest(Len(cursor))

Sync(r) ==
  LET last == Least(Len(cursor) + Page, Len(stream))
  IN  /\ relay[r].pc = "idle"
      /\ verifiable /\ ExtendsCursor
      /\ outbox' = [n \in 1..last |->
                      IF n <= Len(outbox) THEN outbox[n]
                      ELSE [digest |-> Digest(n), state |-> "pending",
                            attempts |-> 0, due |-> 0, token |-> None]]
      /\ cursor' = Digest(last)
      /\ relay' = [relay EXCEPT ![r] = Ready]
      /\ UNCHANGED <<stream, verifiable, wire, received>>

(***************************************************************************)
(* deliver_one, by relay r.                                                *)
(***************************************************************************)
\* The first transaction finds the head due.
HeadDue(r) ==
  /\ relay[r].pc = "ready"
  /\ Front <= Len(outbox)
  /\ outbox[Front].state # "dead"
  /\ outbox[Front].due = 0

\* mutant: the budget is compared one attempt late.
SpentLate == outbox[Front].attempts > MaxAttempts

Spent == outbox[Front].attempts >= MaxAttempts

\* mutant: only reports count attempts.
LeaseUncounted(r) ==
  /\ HeadDue(r) /\ ~Spent
  /\ outbox' = [outbox EXCEPT ![Front].state = "leased", ![Front].due = Lease,
                              ![Front].token = r]
  /\ relay' = [relay EXCEPT ![r] = [relay[r] EXCEPT !.pc = "check", !.sequence = Front]]
  /\ UNCHANGED <<stream, verifiable, cursor, wire, received>>

LeaseHead(r) ==
  /\ HeadDue(r) /\ ~Spent
  /\ LET attempts == outbox[Front].attempts + 1
     IN  /\ outbox' = [outbox EXCEPT ![Front].state = "leased", ![Front].due = Lease,
                                     ![Front].attempts = attempts, ![Front].token = r]
         /\ relay' = [relay EXCEPT ![r] = [relay[r] EXCEPT !.pc = "check", !.sequence = Front,
                                                           !.attempts = attempts]]
  /\ UNCHANGED <<stream, verifiable, cursor, wire, received>>

\* The budget is spent although no report came: the token is left in the row,
\* and the run ends.
Exhaust(r) ==
  /\ HeadDue(r) /\ Spent
  /\ outbox' = [outbox EXCEPT ![Front].state = "dead"]
  /\ relay' = [relay EXCEPT ![r] = Idle]
  /\ UNCHANGED <<stream, verifiable, cursor, wire, received>>

\* Nothing to deliver, or the head is dead or not due: the run ends.
Leave(r) ==
  /\ relay[r].pc = "ready" /\ ~HeadDue(r)
  /\ relay' = [relay EXCEPT ![r] = Idle]
  /\ UNCHANGED <<stream, verifiable, cursor, outbox, wire, received>>

\* The stored event is verified against its signed receipt and sent.
Send(r) ==
  /\ relay[r].pc = "check" /\ verifiable
  /\ wire' = wire \union {outbox[relay[r].sequence].digest}
  /\ relay' = [relay EXCEPT ![r].pc = "sent"]
  /\ UNCHANGED <<stream, verifiable, cursor, outbox, received>>

\* Signing policy unavailable or event refused: the lease is left to expire,
\* and the run ends.
ProofFails(r) ==
  /\ relay[r].pc = "check"
  /\ relay' = [relay EXCEPT ![r] = Idle]
  /\ UNCHANGED <<stream, verifiable, cursor, outbox, wire, received>>

\* 2xx only after the sink has the event; a transport error, 408, 429 or 5xx;
\* or any other status.
Answerable(r, status) ==
  status = "accepted" =>
    \E n \in 1..Len(received) : received[n] = outbox[relay[r].sequence].digest

\* mutant: the row is updated by its sequence alone.
HoldsAnyLease(r) == relay[r].pc = "sent"

\* The second transaction updates the row only under the token of its lease.
HoldsLease(r) == outbox[relay[r].sequence].token = r

\* mutant: every answer but a rejection acknowledges.
SettledOptimistic(r, status) == IF status = "rejected" THEN "dead" ELSE "delivered"

\* The state an answer gives the row.
Settled(r, status) ==
  CASE status = "accepted" -> "delivered"
    [] status = "retry" /\ relay[r].attempts < MaxAttempts -> "pending"
    [] OTHER -> "dead"

\* The answer arrives, however late, and the row is updated; the run goes on
\* only after an accepted event, if its limit allows.
Report(r, status, delay, next) ==
  LET n == relay[r].sequence
      due == IF delay > relay[r].elapsed THEN delay - relay[r].elapsed ELSE 0
  IN  /\ relay[r].pc = "sent"
      /\ Answerable(r, status)
      /\ next # Idle => HoldsLease(r) /\ Settled(r, status) = "delivered"
      /\ outbox' = IF HoldsLease(r)
                   THEN [outbox EXCEPT
                           ![n].state = Settled(r, status), ![n].token = None,
                           ![n].due = IF Settled(r, status) = "pending" THEN due ELSE 0]
                   ELSE outbox
      /\ relay' = [relay EXCEPT ![r] = next]
      /\ UNCHANGED <<stream, verifiable, cursor, wire, received>>

\* The process dies, or a step of the run raises.
Crash(r) ==
  /\ relay[r].pc # "idle"
  /\ relay' = [relay EXCEPT ![r] = Idle]
  /\ UNCHANGED <<stream, verifiable, cursor, outbox, wire, received>>

(***************************************************************************)
(* Operator, network and time.                                             *)
(***************************************************************************)
\* requeue: only a dead event; its token stays.
Requeue(n) ==
  /\ outbox[n].state = "dead"
  /\ outbox' = [outbox EXCEPT ![n].state = "pending", ![n].attempts = 0, ![n].due = 0]
  /\ UNCHANGED <<stream, verifiable, cursor, relay, wire, received>>

\* The sink keeps the first of the events with the same id.
Arrive(e) ==
  /\ \A n \in 1..Len(received) : received[n] # e
  /\ received' = Append(received, e)
  /\ UNCHANGED <<stream, verifiable, cursor, outbox, relay, wire>>

\* Time passes for every deadline at once.
Tick ==
  /\ outbox' = [n \in 1..Len(outbox) |->
                  [outbox[n] EXCEPT !.due = IF outbox[n].due > 0
                                            THEN outbox[n].due - 1 ELSE 0]]
  /\ relay' = [r \in Relays |->
                 IF relay[r].pc \in {"idle", "ready"} THEN relay[r]
                 ELSE [relay[r] EXCEPT !.elapsed = Least(relay[r].elapsed + 1, Delay)]]
  /\ UNCHANGED <<stream, verifiable, cursor, wire, received>>

Deliver(r) == LeaseHead(r) \/ Exhaust(r)

Proceed(r) ==
  \/ Leave(r) \/ Send(r) \/ ProofFails(r)
  \/ \E status \in Statuses, delay \in 1..Delay, next \in {Idle, Ready} :
       Report(r, status, delay, next)

Next ==
  \/ \E body \in Bodies : AppendReceipt(body)
  \/ \E n \in 0..MaxReceipts : Restore(n)
  \/ PolicyTurns
  \/ \E r \in Relays : Sync(r) \/ Deliver(r) \/ Proceed(r) \/ Crash(r)
  \/ \E n \in 1..Len(outbox) : Requeue(n)
  \/ \E e \in wire : Arrive(e)
  \/ Tick

Spec == Init /\ [][Next]_vars

\* A scheduler runs some relay again and again, a request to the sink has a
\* timeout, and not every run ends between its sync and its first transaction
\* (its secrets resolve, it is not killed each time just there).  Any one relay
\* may stall for good.  Nobody has to restore, requeue or accept anything, nor
\* to mend the policy.
FairSpec ==
  /\ Spec
  /\ WF_vars(Tick)
  /\ WF_vars(\E r \in Relays : Sync(r))
  /\ SF_vars(\E r \in Relays : Deliver(r))
  /\ WF_vars(\E r \in Relays : Proceed(r))

(***************************************************************************)
(* Properties.                                                             *)
(***************************************************************************)
\* The sink sees the copied stream in order, without a gap, and never two
\* histories: what it received, duplicates aside, is a prefix of the cursor.
OrderedDelivery ==
  /\ Len(received) <= Len(cursor)
  /\ \A n \in 1..Len(received) : received[n] = SubSeq(cursor, 1, n)

\* A row is marked delivered only if the sink has its event (deliver_one).
DeliveredMeansReceived ==
  \A n \in 1..Len(outbox) : outbox[n].state = "delivered" => n <= Len(received)

\* Whatever stalled relays report and operators requeue, a delivered row never
\* changes again (the report is keyed by the token of its lease).
DeliveredIsFinal ==
  [][\A n \in 1..Len(outbox) :
       outbox[n].state = "delivered" => outbox'[n] = outbox[n]]_vars

\* No event is put on the wire before all earlier ones were acknowledged.
HeadOfLine ==
  [][\A e \in wire' \ wire : \A n \in 1..(Len(e) - 1) : outbox[n].state = "delivered"]_vars

\* If from some time on syncs succeed, every event that was copied is
\* delivered, or the line is visibly blocked by a dead event: no crash, stall
\* or lost answer leaves it stuck (deliver_one).  While they fail nothing moves.
NothingStuck ==
  <>[](verifiable /\ ExtendsCursor) =>
    \A n \in 1..MaxReceipts :
      n <= Len(outbox) ~> \E m \in 1..Least(n, Len(outbox)) :
                            \/ outbox[m].state = "dead"
                            \/ m = n /\ outbox[m].state = "delivered"
=============================================================================
