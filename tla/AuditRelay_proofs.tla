--------------------------- MODULE AuditRelay_proofs ---------------------------
(***************************************************************************)
(* Theorems about AuditRelay, for any number of relays, any stream, page,  *)
(* lease, delay and budget of attempts.                                    *)
(***************************************************************************)
EXTENDS AuditRelay, TLAPS, SequenceTheorems, WellFoundedInduction

USE RelayAssumption

Delivered(n) == outbox[n].state = "delivered"

\* The outbox is the copied stream, row by row.
Copied ==
  /\ Len(outbox) = Len(cursor)
  /\ \A n \in 1..Len(outbox) : outbox[n].digest = SubSeq(cursor, 1, n)

\* A row that was delivered is out of every lease and every delay.
Released ==
  \A n \in 1..Len(outbox) : Delivered(n) => outbox[n].token = None /\ outbox[n].due = 0

\* A delivery under way, and an event on the wire, have only delivered rows before them.
InLine ==
  /\ \A r \in Relays : relay[r].pc \in {"check", "sent"} =>
       /\ relay[r].sequence \in 1..Len(outbox)
       /\ \A m \in 1..(relay[r].sequence - 1) : Delivered(m)
  /\ \A e \in wire : \E n \in 1..Len(outbox) :
       /\ e = outbox[n].digest
       /\ \A m \in 1..(n - 1) : Delivered(m)

RelayInvariant ==
  TypeOK /\ Copied /\ Released /\ InLine /\ OrderedDelivery /\ DeliveredMeansReceived

\* What a step does to the outbox: rows are added, never removed or put in another
\* order, and a delivered row does not change.
Grows ==
  /\ Len(outbox') >= Len(outbox)
  /\ \A n \in 1..Len(outbox) : /\ outbox'[n].digest = outbox[n].digest
                               /\ Delivered(n) => outbox'[n] = outbox[n]

-----------------------------------------------------------------------------

\* A nonempty set of numbers has a least one.
LEMMA LeastNumber ==
  ASSUME NEW S \in SUBSET Nat, S # {}
  PROVE  \E n \in S : \A m \in S : n <= m
<1>1. PICK n \in S : \A m \in S : ~ (<<m, n>> \in OpToRel(<, Nat))
  BY WFMin, NatLessThanWellFounded
<1>2. \A m \in S : ~ (m < n)
  BY <1>1 DEF OpToRel
<1>3. QED
  BY <1>2

\* Front is the first row that is not delivered, or the place after the last.
LEMMA FrontIsFirst ==
  ASSUME TypeOK
  PROVE  /\ Front \in 1..(Len(outbox) + 1)
         /\ Front <= Len(outbox) => ~Delivered(Front)
         /\ \A m \in 1..(Front - 1) : Delivered(m)
<1> DEFINE S == {n \in 1..(Len(outbox) + 1) : n <= Len(outbox) => ~Delivered(n)}
<1>1. Len(outbox) \in Nat
  BY DEF TypeOK
<1>2. Len(outbox) + 1 \in S /\ S \in SUBSET Nat
  BY <1>1
<1>3. PICK n \in S : \A m \in S : n <= m
  BY <1>2, LeastNumber
<1>4. /\ n \in 1..(Len(outbox) + 1)
      /\ n <= Len(outbox) => outbox[n].state # "delivered"
      /\ \A m \in 1..(n - 1) : outbox[m].state = "delivered"
  BY <1>1, <1>3 DEF Delivered
<1>5. QED
  BY <1>4 DEF Front, Delivered

\* A stream and its prefixes are digests.
LEMMA DigestType ==
  ASSUME TypeOK
  PROVE  /\ stream \in Seq(Bodies) /\ Len(stream) \in 0..MaxReceipts
         /\ cursor \in Seq(Bodies) /\ Len(cursor) \in 0..MaxReceipts
         /\ \A n \in 0..Len(stream) :
              Digest(n) \in Digests /\ Len(Digest(n)) = n
         /\ \A n \in 0..Len(stream) : \A i \in 1..n : Digest(n)[i] = stream[i]
<1>1. ASSUME NEW d \in Digests PROVE d \in Seq(Bodies) /\ Len(d) \in 0..MaxReceipts
  <2>1. PICK n \in 0..MaxReceipts : d \in [1..n -> Bodies]
    BY DEF Digests
  <2>2. QED
    BY <2>1
<1>2. stream \in Seq(Bodies) /\ Len(stream) \in 0..MaxReceipts
  BY <1>1 DEF TypeOK
<1>3. ASSUME NEW n \in 0..Len(stream)
      PROVE  Digest(n) \in Digests /\ Len(Digest(n)) = n /\ \A i \in 1..n : Digest(n)[i] = stream[i]
  <2>1. \A i \in 1..n : stream[i] \in Bodies
    BY <1>2
  <2>2. /\ SubSeq(stream, 1, n) \in Seq(Bodies)
        /\ Len(SubSeq(stream, 1, n)) = n
        /\ \A i \in 1..n : SubSeq(stream, 1, n)[i] = stream[i]
    BY <1>2, <2>1, SubSeqProperties
  <2>3. SubSeq(stream, 1, n) \in [1..n -> Bodies]
    BY <2>2, LenProperties
  <2>4. QED
    BY <1>2, <2>2, <2>3 DEF Digest, Digests
<1>4. QED
  BY <1>1, <1>2, <1>3 DEF TypeOK
\* A prefix of a prefix.
LEMMA PrefixOfPrefix ==
  ASSUME NEW S, NEW s \in Seq(S), NEW m \in 0..Len(s), NEW n \in 0..m
  PROVE  SubSeq(SubSeq(s, 1, m), 1, n) = SubSeq(s, 1, n)
<1>1. CASE n = 0
  <2>1. SubSeq(SubSeq(s, 1, m), 1, 0) = <<>> /\ SubSeq(s, 1, 0) = <<>>
    BY SubSeqEmpty
  <2>2. QED
    BY <1>1, <2>1
<1>2. CASE n # 0
  <2>1. /\ 1 \in 1..Len(s) /\ m \in 1..Len(s)
        /\ 1 \in 1..(m - 1 + 1) /\ n \in 1..(m - 1 + 1)
    BY <1>2, LenProperties
  <2>2. SubSeq(SubSeq(s, 1, m), 1, n) = SubSeq(s, 1 + 1 - 1, 1 + n - 1)
    BY <2>1, SubSeqOfSubSeq
  <2>3. 1 + 1 - 1 = 1 /\ 1 + n - 1 = n
    BY <1>2, LenProperties
  <2>4. QED
    BY <2>2, <2>3
<1>3. QED
  BY <1>1, <1>2

\* What a sync copies.
LEMMA SyncFacts ==
  ASSUME TypeOK, Copied, NEW r \in Relays, Sync(r)
  PROVE  /\ Len(cursor') \in Nat /\ Len(cursor') >= Len(cursor)
         /\ cursor' \in Digests
         /\ \A n \in 0..Len(cursor) : SubSeq(cursor', 1, n) = SubSeq(cursor, 1, n)
         /\ outbox' \in Seq(Rows) /\ Len(outbox') = Len(cursor')
         /\ \A n \in 1..Len(outbox) : outbox'[n] = outbox[n]
         /\ \A n \in 1..Len(outbox') :
              n > Len(outbox) => /\ outbox'[n].digest = SubSeq(cursor', 1, n)
                                 /\ outbox'[n].state = "pending"
<1> DEFINE last == Least(Len(cursor) + Page, Len(stream))
           row(n) == IF n <= Len(outbox) THEN outbox[n]
                     ELSE [digest |-> Digest(n), state |-> "pending",
                           attempts |-> 0, due |-> 0, token |-> None]
<1>1. /\ Len(cursor) \in 0..MaxReceipts /\ Len(stream) \in 0..MaxReceipts
      /\ stream \in Seq(Bodies)
      /\ \A n \in 0..Len(stream) : Digest(n) \in Digests /\ Len(Digest(n)) = n
  BY DigestType
<1>2. /\ last \in Nat /\ last >= Len(cursor) /\ last <= Len(stream)
      /\ Len(cursor) <= Len(stream) /\ cursor = Digest(Len(cursor))
      /\ cursor' = Digest(last) /\ outbox' = [n \in 1..last |-> row(n)]
  BY <1>1 DEF Sync, ExtendsCursor, Least
<1>3. Len(cursor') = last /\ cursor' \in Digests
  BY <1>1, <1>2
<1>4. \A n \in 0..last : SubSeq(cursor', 1, n) = Digest(n)
  BY <1>1, <1>2, PrefixOfPrefix DEF Digest
<1>5. \A n \in 0..Len(cursor) : SubSeq(cursor, 1, n) = Digest(n)
  <2>1. Len(cursor) \in 0..Len(stream)
    BY <1>1, <1>2
  <2>2. \A n \in 0..Len(cursor) : SubSeq(SubSeq(stream, 1, Len(cursor)), 1, n) = SubSeq(stream, 1, n)
    BY <1>1, <2>1, PrefixOfPrefix
  <2>3. QED
    BY <1>2, <2>2 DEF Digest
<1>6. \A n \in 1..last : row(n) \in Rows
  <2> TAKE n \in 1..last
  <2>1. CASE n <= Len(outbox)
    BY <2>1 DEF TypeOK
  <2>2. CASE ~(n <= Len(outbox))
    <3>1. Digest(n) \in Digests
      BY <1>1, <1>2
    <3>2. QED
      BY <2>2, <3>1 DEF Rows, States
  <2>3. QED
    BY <2>1, <2>2
<1>7. outbox' \in Seq(Rows) /\ Len(outbox') = last
  <2>1. outbox' \in [1..last -> Rows]
    <3> HIDE DEF row, last
    <3>1. QED
      BY <1>2, <1>6
  <2> HIDE DEF row, last
  <2>2. QED
    BY <1>2, <2>1
<1>8. Len(outbox) = Len(cursor) /\ Len(outbox) \in Nat
  BY <1>1 DEF Copied
<1>9. \A n \in 1..Len(outbox) : outbox'[n] = outbox[n]
  BY <1>2, <1>8
<1>10. \A n \in 1..last :
         n > Len(outbox) => outbox'[n].digest = Digest(n) /\ outbox'[n].state = "pending"
  BY <1>2, <1>8
<1> HIDE DEF last, row
<1>11. \A n \in 1..Len(outbox') :
         n > Len(outbox) => /\ outbox'[n].digest = SubSeq(cursor', 1, n)
                            /\ outbox'[n].state = "pending"
  BY <1>2, <1>4, <1>7, <1>10
<1>12. \A n \in 0..Len(cursor) : SubSeq(cursor', 1, n) = SubSeq(cursor, 1, n)
  BY <1>1, <1>2, <1>4, <1>5
<1>13. QED
  BY <1>2, <1>3, <1>7, <1>9, <1>11, <1>12
\* The row that is leased or given up.
LEMMA HeadFacts ==
  ASSUME TypeOK, NEW r \in Relays, HeadDue(r)
  PROVE  /\ Front \in 1..Len(outbox) /\ ~Delivered(Front) /\ outbox[Front] \in Rows
         /\ \A m \in 1..(Front - 1) : Delivered(m)
<1>1. Front \in 1..Len(outbox)
  BY FrontIsFirst DEF HeadDue, TypeOK
<1>2. QED
  BY <1>1, FrontIsFirst DEF HeadDue, TypeOK

-----------------------------------------------------------------------------

LEMMA TypeInit == Init => TypeOK
<1> SUFFICES ASSUME Init PROVE TypeOK
  OBVIOUS
<1>1. <<>> \in Digests
  <2>1. <<>> \in [1..0 -> Bodies]
    OBVIOUS
  <2>2. QED
    BY <2>1 DEF Digests
<1>2. QED
  BY <1>1 DEF Init, TypeOK, Idle, Runs

\* A row that is replaced by a row.
LEMMA RowType ==
  ASSUME TypeOK, NEW n \in 1..Len(outbox), NEW row \in Rows, outbox' = [outbox EXCEPT ![n] = row]
  PROVE  /\ outbox' \in Seq(Rows) /\ Len(outbox') = Len(outbox)
         /\ outbox'[n] = row
         /\ \A m \in 1..Len(outbox) : m # n => outbox'[m] = outbox[m]
  BY DEF TypeOK

\* A run that ends, or is between two deliveries.
LEMMA RunType ==
  ASSUME TypeOK, NEW r \in Relays, NEW next \in {Idle, Ready},
         relay' = [relay EXCEPT ![r] = next]
  PROVE  relay' \in [Relays -> Runs]
<1>1. Idle \in Runs /\ Ready \in Runs
  BY DEF Idle, Ready, Runs
<1>2. QED
  BY <1>1 DEF TypeOK

\* The changes of one row, by action.
LEMMA LeaseFacts ==
  ASSUME TypeOK, Copied, NEW r \in Relays, LeaseHead(r)
  PROVE  /\ outbox' \in Seq(Rows) /\ Len(outbox') = Len(outbox)
         /\ relay' \in [Relays -> Runs]
         /\ relay'[r].sequence = Front
         /\ \A s \in Relays : s # r => relay'[s] = relay[s]
         /\ Front \in 1..Len(outbox) /\ ~Delivered(Front)
         /\ outbox'[Front].digest = outbox[Front].digest
         /\ outbox'[Front].state = "leased"
         /\ \A m \in 1..Len(outbox) : m # Front => outbox'[m] = outbox[m]
<1> DEFINE n == Front
           row == [outbox[n] EXCEPT !.state = "leased", !.due = Lease,
                                    !.attempts = outbox[n].attempts + 1, !.token = r]
<1>1. n \in 1..Len(outbox) /\ ~Delivered(n) /\ outbox[n] \in Rows
  BY HeadFacts DEF LeaseHead
<1>2. outbox[n].attempts + 1 \in 0..MaxAttempts
  BY <1>1 DEF LeaseHead, Spent, Rows
<1>3. row \in Rows /\ row.digest = outbox[n].digest /\ row.state = "leased"
  BY <1>1, <1>2 DEF Rows, States
<1>4. outbox' = [outbox EXCEPT ![n] = row]
  BY <1>1 DEF LeaseHead, TypeOK
<1>5. n \in 0..MaxReceipts
  BY <1>1, DigestType DEF Copied
<1>6. relay' = [relay EXCEPT ![r] = [relay[r] EXCEPT !.pc = "check", !.sequence = n,
                                                     !.attempts = outbox[n].attempts + 1]]
  BY DEF LeaseHead
<1> HIDE DEF n, row
<1>7. [relay[r] EXCEPT !.pc = "check", !.sequence = n, !.attempts = outbox[n].attempts + 1]
        \in Runs
  BY <1>2, <1>5 DEF TypeOK, Runs
<1>8. /\ relay' \in [Relays -> Runs] /\ relay'[r].sequence = n
      /\ \A s \in Relays : s # r => relay'[s] = relay[s]
  BY <1>6, <1>7 DEF TypeOK, Runs
<1>9. /\ outbox' \in Seq(Rows) /\ Len(outbox') = Len(outbox) /\ outbox'[n] = row
      /\ \A m \in 1..Len(outbox) : m # n => outbox'[m] = outbox[m]
  BY <1>1, <1>3, <1>4, RowType
<1>10. QED
  BY <1>1, <1>3, <1>8, <1>9 DEF n, Delivered
LEMMA ExhaustFacts ==
  ASSUME TypeOK, NEW r \in Relays, Exhaust(r)
  PROVE  /\ outbox' \in Seq(Rows) /\ Len(outbox') = Len(outbox)
         /\ Front \in 1..Len(outbox) /\ ~Delivered(Front)
         /\ outbox'[Front].digest = outbox[Front].digest
         /\ outbox'[Front].state = "dead"
         /\ \A m \in 1..Len(outbox) : m # Front => outbox'[m] = outbox[m]
<1> DEFINE n == Front
           row == [outbox[n] EXCEPT !.state = "dead"]
<1>1. n \in 1..Len(outbox) /\ ~Delivered(n) /\ outbox[n] \in Rows
  BY HeadFacts DEF Exhaust
<1>2. row \in Rows /\ row.digest = outbox[n].digest /\ row.state = "dead"
  BY <1>1 DEF Rows, States
<1>3. outbox' = [outbox EXCEPT ![n] = row]
  BY <1>1 DEF Exhaust, TypeOK
<1> HIDE DEF n, row
<1>4. /\ outbox' \in Seq(Rows) /\ Len(outbox') = Len(outbox) /\ outbox'[n] = row
      /\ \A m \in 1..Len(outbox) : m # n => outbox'[m] = outbox[m]
  BY <1>1, <1>2, <1>3, RowType
<1>5. QED
  BY <1>1, <1>2, <1>4 DEF n

LEMMA RequeueFacts ==
  ASSUME TypeOK, NEW n \in 1..Len(outbox), Requeue(n)
  PROVE  /\ outbox' \in Seq(Rows) /\ Len(outbox') = Len(outbox)
         /\ ~Delivered(n)
         /\ outbox'[n].digest = outbox[n].digest
         /\ outbox'[n].state = "pending"
         /\ \A m \in 1..Len(outbox) : m # n => outbox'[m] = outbox[m]
<1> DEFINE row == [outbox[n] EXCEPT !.state = "pending", !.attempts = 0, !.due = 0]
<1>1. ~Delivered(n) /\ outbox[n] \in Rows
  BY DEF Requeue, Delivered, TypeOK
<1>2. row \in Rows /\ row.digest = outbox[n].digest /\ row.state = "pending"
  <2>1. 0 \in 0..MaxAttempts /\ 0 \in Nat /\ "pending" \in States
    BY DEF States
  <2>2. QED
    BY <1>1, <2>1 DEF Rows
<1>3. outbox' = [outbox EXCEPT ![n] = row]
  BY <1>1 DEF Requeue, TypeOK
<1> HIDE DEF row
<1>4. /\ outbox' \in Seq(Rows) /\ Len(outbox') = Len(outbox) /\ outbox'[n] = row
      /\ \A m \in 1..Len(outbox) : m # n => outbox'[m] = outbox[m]
  BY <1>2, <1>3, RowType
<1>5. QED
  BY <1>1, <1>2, <1>4

\* A report changes the row of its delivery, or nothing.
LEMMA ReportFacts ==
  ASSUME TypeOK, Released, InLine, NEW r \in Relays, NEW status \in Statuses,
         NEW delay \in 1..Delay, NEW next \in {Idle, Ready},
         Report(r, status, delay, next), NEW n, n = relay[r].sequence
  PROVE  /\ outbox' \in Seq(Rows) /\ Len(outbox') = Len(outbox)
         /\ n \in 1..Len(outbox)
         /\ \/ outbox' = outbox
            \/ /\ ~Delivered(n)
               /\ outbox'[n].digest = outbox[n].digest
               /\ outbox'[n].state = "delivered" =>
                    status = "accepted" /\ outbox'[n].token = None /\ outbox'[n].due = 0
         /\ \A m \in 1..Len(outbox) : m # n => outbox'[m] = outbox[m]
<1> DEFINE due == IF delay > relay[r].elapsed THEN delay - relay[r].elapsed ELSE 0
           state == Settled(r, status)
           row == [outbox[n] EXCEPT !.state = state, !.token = None,
                                    !.due = IF state = "pending" THEN due ELSE 0]
<1>1. n \in 1..Len(outbox) /\ outbox[n] \in Rows
  BY DEF Report, InLine, TypeOK
<1>2. due \in Nat
  BY DEF TypeOK, Runs
<1>3. state \in States /\ (state = "delivered" => status = "accepted")
  BY DEF Settled, States, Statuses
<1> HIDE DEF due, state
<1>4. row \in Rows /\ row.digest = outbox[n].digest /\ row.state = state
      /\ row.token = None /\ (state # "pending" => row.due = 0)
  BY <1>1, <1>2, <1>3 DEF Rows
<1>5. CASE HoldsLease(r)
  <2>1. ~Delivered(n)
    BY <1>1, <1>5 DEF HoldsLease, Released
  <2>2. outbox' = [outbox EXCEPT ![n] = row]
    BY <1>1, <1>5 DEF Report, TypeOK, due, state
  <2>3. row \in Rows
    BY <1>4
  <2> HIDE DEF row
  <2>4. /\ outbox' \in Seq(Rows) /\ Len(outbox') = Len(outbox) /\ outbox'[n] = row
        /\ \A m \in 1..Len(outbox) : m # n => outbox'[m] = outbox[m]
    BY <1>1, <2>2, <2>3, RowType
  <2>5. QED
    BY <1>1, <1>3, <1>4, <2>1, <2>4
<1>6. CASE ~HoldsLease(r)
  BY <1>1, <1>6 DEF Report, TypeOK
<1>7. QED
  BY <1>5, <1>6

\* Time changes nothing but deadlines that have not been reached.
LEMMA TickFacts ==
  ASSUME TypeOK, Released, Tick
  PROVE  /\ outbox' \in Seq(Rows) /\ Len(outbox') = Len(outbox)
         /\ relay' \in [Relays -> Runs]
         /\ \A n \in 1..Len(outbox) :
              /\ outbox'[n].digest = outbox[n].digest
              /\ outbox'[n].state = outbox[n].state
              /\ Delivered(n) => outbox'[n] = outbox[n]
         /\ \A r \in Relays : /\ relay'[r].pc = relay[r].pc
                              /\ relay'[r].sequence = relay[r].sequence
<1> DEFINE row(n) == [outbox[n] EXCEPT !.due = IF outbox[n].due > 0 THEN outbox[n].due - 1 ELSE 0]
<1>1. \A n \in 1..Len(outbox) : outbox[n] \in Rows
  BY DEF TypeOK
<1>2. \A n \in 1..Len(outbox) :
        /\ row(n) \in Rows
        /\ row(n).digest = outbox[n].digest /\ row(n).state = outbox[n].state
        /\ Delivered(n) => row(n) = outbox[n]
  BY <1>1 DEF Rows, Released
<1>3. outbox' = [n \in 1..Len(outbox) |-> row(n)] /\ Len(outbox) \in Nat
  BY DEF Tick, TypeOK
<1> HIDE DEF row
<1>4. outbox' \in [1..Len(outbox) -> Rows]
  BY <1>2, <1>3
<1>5. outbox' \in Seq(Rows) /\ Len(outbox') = Len(outbox)
  BY <1>3, <1>4
<1>6. \A r \in Relays : relay'[r] = IF relay[r].pc \in {"idle", "ready"} THEN relay[r]
                                    ELSE [relay[r] EXCEPT !.elapsed = Least(relay[r].elapsed + 1, Delay)]
  BY DEF Tick
<1>7. \A r \in Relays : /\ relay'[r] \in Runs
                        /\ relay'[r].pc = relay[r].pc
                        /\ relay'[r].sequence = relay[r].sequence
  <2> TAKE r \in Relays
  <2>1. relay[r] \in Runs
    BY DEF TypeOK
  <2>2. Least(relay[r].elapsed + 1, Delay) \in Nat
    BY <2>1 DEF Runs, Least
  <2>3. QED
    BY <1>6, <2>1, <2>2 DEF Runs
<1>8. relay' = [r \in Relays |-> relay'[r]]
  BY DEF Tick
<1>9. relay' \in [Relays -> Runs]
  BY <1>7, <1>8
<1>10. QED
  BY <1>2, <1>3, <1>5, <1>7, <1>9
-----------------------------------------------------------------------------

LEMMA TypeStep == RelayInvariant /\ [Next]_vars => TypeOK'
<1> SUFFICES ASSUME RelayInvariant, [Next]_vars PROVE TypeOK'
  OBVIOUS
<1>0. TypeOK /\ Copied /\ Released /\ InLine
  BY DEF RelayInvariant
<1>1. ASSUME NEW body \in Bodies, AppendReceipt(body) PROVE TypeOK'
  <2>1. stream \in Seq(Bodies) /\ Len(stream) + 1 \in 0..MaxReceipts
    BY <1>0, <1>1, DigestType DEF AppendReceipt
  <2>2. stream' \in Seq(Bodies) /\ Len(stream') = Len(stream) + 1
    BY <1>1, <2>1, AppendProperties DEF AppendReceipt
  <2>3. stream' \in [1..(Len(stream) + 1) -> Bodies]
    BY <2>2, LenProperties
  <2>4. stream' \in Digests
    BY <2>1, <2>3 DEF Digests
  <2>5. QED
    BY <1>0, <1>1, <2>4 DEF AppendReceipt, TypeOK
<1>2. ASSUME NEW n \in 0..MaxReceipts, Restore(n) PROVE TypeOK'
  <2>1. Digest(n) \in Digests
    BY <1>0, <1>2, DigestType DEF Restore
  <2>2. QED
    BY <1>0, <1>2, <2>1 DEF Restore, TypeOK
<1>3. ASSUME NEW r \in Relays, Sync(r) PROVE TypeOK'
  <2>1. cursor' \in Digests /\ outbox' \in Seq(Rows)
    BY <1>0, <1>3, SyncFacts
  <2>2. relay' \in [Relays -> Runs]
    BY <1>0, <1>3, RunType DEF Sync
  <2>3. QED
    BY <1>0, <1>3, <2>1, <2>2 DEF Sync, TypeOK
<1>4. ASSUME NEW r \in Relays, LeaseHead(r) PROVE TypeOK'
  <2>1. outbox' \in Seq(Rows) /\ relay' \in [Relays -> Runs]
    BY <1>0, <1>4, LeaseFacts
  <2>2. QED
    BY <1>0, <1>4, <2>1 DEF LeaseHead, TypeOK
<1>5. ASSUME NEW r \in Relays, Exhaust(r) PROVE TypeOK'
  <2>1. outbox' \in Seq(Rows)
    BY <1>0, <1>5, ExhaustFacts
  <2>2. relay' \in [Relays -> Runs]
    BY <1>0, <1>5, RunType DEF Exhaust
  <2>3. QED
    BY <1>0, <1>5, <2>1, <2>2 DEF Exhaust, TypeOK
<1>6. ASSUME NEW r \in Relays, Send(r) PROVE TypeOK'
  <2>1. outbox[relay[r].sequence].digest \in Digests
    <3>1. relay[r].sequence \in 1..Len(outbox)
      BY <1>0, <1>6 DEF Send, InLine
    <3>2. outbox[relay[r].sequence] \in Rows
      BY <1>0, <3>1 DEF TypeOK
    <3>3. QED
      BY <3>2 DEF Rows
  <2>2. relay' \in [Relays -> Runs]
    BY <1>0, <1>6 DEF Send, TypeOK, Runs
  <2>3. QED
    BY <1>0, <1>6, <2>1, <2>2 DEF Send, TypeOK
<1>7. ASSUME NEW r \in Relays, Leave(r) \/ ProofFails(r) \/ Crash(r) PROVE TypeOK'
  <2>1. relay' \in [Relays -> Runs]
    BY <1>0, <1>7, RunType DEF Leave, ProofFails, Crash
  <2>2. QED
    BY <1>0, <1>7, <2>1 DEF Leave, ProofFails, Crash, TypeOK
<1>8. ASSUME NEW r \in Relays, NEW status \in Statuses, NEW delay \in 1..Delay,
             NEW next \in {Idle, Ready}, Report(r, status, delay, next)
      PROVE  TypeOK'
  <2>1. outbox' \in Seq(Rows)
    BY <1>0, <1>8, ReportFacts
  <2>2. relay' \in [Relays -> Runs]
    BY <1>0, <1>8, RunType DEF Report
  <2>3. QED
    BY <1>0, <1>8, <2>1, <2>2 DEF Report, TypeOK
<1>9. ASSUME NEW n \in 1..Len(outbox), Requeue(n) PROVE TypeOK'
  <2>1. outbox' \in Seq(Rows)
    BY <1>0, <1>9, RequeueFacts
  <2>2. QED
    BY <1>0, <1>9, <2>1 DEF Requeue, TypeOK
<1>10. ASSUME NEW e \in wire, Arrive(e) PROVE TypeOK'
  BY <1>0, <1>10 DEF Arrive, TypeOK
<1>11. ASSUME Tick PROVE TypeOK'
  <2>1. outbox' \in Seq(Rows) /\ relay' \in [Relays -> Runs]
    BY <1>0, <1>11, TickFacts
  <2>2. QED
    BY <1>0, <1>11, <2>1 DEF Tick, TypeOK
<1>12. ASSUME UNCHANGED vars PROVE TypeOK'
  BY <1>0, <1>12 DEF vars, TypeOK
<1>13. ASSUME PolicyTurns PROVE TypeOK'
  BY <1>0, <1>13 DEF PolicyTurns, TypeOK
<1>14. QED
  BY <1>1, <1>2, <1>3, <1>4, <1>5, <1>6, <1>7, <1>8, <1>9, <1>10, <1>11, <1>12, <1>13
     DEF Next, Deliver, Proceed

\* No step takes a row away, or touches a delivered one.
LEMMA GrowsStep == RelayInvariant /\ [Next]_vars => Grows
<1> SUFFICES ASSUME RelayInvariant, [Next]_vars PROVE Grows
  OBVIOUS
<1>0. TypeOK /\ Copied /\ Released /\ InLine /\ Len(outbox) \in Nat
  BY DEF RelayInvariant, TypeOK
<1>1. CASE UNCHANGED outbox
  BY <1>0, <1>1 DEF Grows
<1>2. ASSUME NEW r \in Relays, Sync(r) PROVE Grows
  BY <1>0, <1>2, SyncFacts DEF Grows, Copied
<1>3. ASSUME NEW r \in Relays, LeaseHead(r) PROVE Grows
  BY <1>0, <1>3, LeaseFacts DEF Grows, Delivered
<1>4. ASSUME NEW r \in Relays, Exhaust(r) PROVE Grows
  BY <1>0, <1>4, ExhaustFacts DEF Grows, Delivered
<1>5. ASSUME NEW r \in Relays, NEW status \in Statuses, NEW delay \in 1..Delay,
             NEW next \in {Idle, Ready}, Report(r, status, delay, next)
      PROVE  Grows
  BY <1>0, <1>5, ReportFacts DEF Grows, Delivered
<1>6. ASSUME NEW n \in 1..Len(outbox), Requeue(n) PROVE Grows
  BY <1>0, <1>6, RequeueFacts DEF Grows, Delivered
<1>7. CASE Tick
  BY <1>0, <1>7, TickFacts DEF Grows, Delivered
<1>8. QED
  BY <1>1, <1>2, <1>3, <1>4, <1>5, <1>6, <1>7
     DEF Next, Deliver, Proceed, Leave, PolicyTurns, AppendReceipt, Restore, Send, ProofFails, Crash, Arrive, vars
\* What each step of a run leaves alone, and where it leaves the run.
LEMMA RunFrames ==
  ASSUME NEW r \in Relays
  PROVE  /\ Sync(r) => /\ wire' = wire /\ received' = received
                       /\ relay' = [relay EXCEPT ![r] = Ready]
         /\ LeaseHead(r) => wire' = wire /\ received' = received /\ cursor' = cursor
         /\ Leave(r) \/ Exhaust(r) \/ ProofFails(r) \/ Crash(r) =>
              /\ wire' = wire /\ received' = received /\ cursor' = cursor
              /\ relay' = [relay EXCEPT ![r] = Idle]
         /\ Send(r) => received' = received /\ cursor' = cursor
         /\ \A status \in Statuses, delay \in 1..Delay, next \in {Idle, Ready} :
              Report(r, status, delay, next) =>
                /\ wire' = wire /\ received' = received /\ cursor' = cursor
                /\ relay' = [relay EXCEPT ![r] = next]
<1>1. Sync(r) => /\ wire' = wire /\ received' = received
                 /\ relay' = [relay EXCEPT ![r] = Ready]
  BY DEF Sync
<1>2. LeaseHead(r) => wire' = wire /\ received' = received /\ cursor' = cursor
  BY DEF LeaseHead
<1>3. Leave(r) \/ Exhaust(r) \/ ProofFails(r) \/ Crash(r) =>
        /\ wire' = wire /\ received' = received /\ cursor' = cursor
        /\ relay' = [relay EXCEPT ![r] = Idle]
  BY DEF Leave, Exhaust, ProofFails, Crash
<1>4. Send(r) => received' = received /\ cursor' = cursor
  BY DEF Send
<1>5. \A status \in Statuses, delay \in 1..Delay, next \in {Idle, Ready} :
        Report(r, status, delay, next) =>
          /\ wire' = wire /\ received' = received /\ cursor' = cursor
          /\ relay' = [relay EXCEPT ![r] = next]
  BY DEF Report
<1>6. QED
  BY <1>1, <1>2, <1>3, <1>4, <1>5

\* Only a relay that sends puts an event on the wire, and only its arrival is seen.
LEMMA WireStep ==
  ASSUME [Next]_vars
  PROVE  /\ wire' = wire \/ \E r \in Relays : Send(r)
         /\ received' = received \/ \E e \in wire : Arrive(e)
<1>1. ASSUME NEW r \in Relays, Sync(r) \/ Deliver(r) \/ Proceed(r) \/ Crash(r)
      PROVE  (wire' = wire \/ Send(r)) /\ received' = received
  BY <1>1, RunFrames DEF Deliver, Proceed
<1>2. QED
  BY <1>1 DEF Next, AppendReceipt, Restore, PolicyTurns, Arrive, Requeue, Tick, vars

\* Only a sync copies.
LEMMA SameCopy ==
  ASSUME RelayInvariant, [Next]_vars
  PROVE  \/ \E r \in Relays : Sync(r)
         \/ cursor' = cursor /\ Len(outbox') = Len(outbox)
<1>0. TypeOK /\ Copied /\ Released /\ InLine
  BY DEF RelayInvariant
<1>1. CASE UNCHANGED <<cursor, outbox>>
  BY <1>1
<1>2. ASSUME NEW r \in Relays, LeaseHead(r) \/ Exhaust(r)
      PROVE  cursor' = cursor /\ Len(outbox') = Len(outbox)
  BY <1>0, <1>2, LeaseFacts, ExhaustFacts DEF LeaseHead, Exhaust
<1>3. ASSUME NEW r \in Relays, NEW status \in Statuses, NEW delay \in 1..Delay,
             NEW next \in {Idle, Ready}, Report(r, status, delay, next)
      PROVE  cursor' = cursor /\ Len(outbox') = Len(outbox)
  <2>1. Len(outbox') = Len(outbox)
    BY <1>0, <1>3, ReportFacts
  <2>2. QED
    BY <1>3, <2>1 DEF Report
<1>4. ASSUME NEW n \in 1..Len(outbox), Requeue(n)
      PROVE  cursor' = cursor /\ Len(outbox') = Len(outbox)
  BY <1>0, <1>4, RequeueFacts DEF Requeue
<1>5. CASE Tick
  BY <1>0, <1>5, TickFacts DEF Tick
<1>6. QED
  BY <1>1, <1>2, <1>3, <1>4, <1>5
     DEF Next, Deliver, Proceed, Leave, PolicyTurns, AppendReceipt, Restore, Send, ProofFails, Crash, Arrive, vars

LEMMA CopiedStep == RelayInvariant /\ [Next]_vars => Copied'
<1> SUFFICES ASSUME RelayInvariant, [Next]_vars PROVE Copied'
  OBVIOUS
<1>0. TypeOK /\ Copied /\ Grows /\ Len(outbox) \in Nat
  BY GrowsStep DEF RelayInvariant, TypeOK
<1>1. ASSUME NEW r \in Relays, Sync(r) PROVE Copied'
  <2>1. /\ Len(outbox') = Len(cursor') /\ Len(cursor') \in Nat
        /\ \A n \in 0..Len(cursor) : SubSeq(cursor', 1, n) = SubSeq(cursor, 1, n)
        /\ \A n \in 1..Len(outbox') : n > Len(outbox) => outbox'[n].digest = SubSeq(cursor', 1, n)
    BY <1>0, <1>1, SyncFacts
  <2>2. \A n \in 1..Len(outbox) : outbox'[n].digest = SubSeq(cursor', 1, n)
    BY <1>0, <2>1 DEF Copied, Grows
  <2>3. QED
    BY <1>0, <2>1, <2>2 DEF Copied
<1>2. CASE cursor' = cursor /\ Len(outbox') = Len(outbox)
  BY <1>0, <1>2 DEF Copied, Grows
<1>3. QED
  BY <1>1, <1>2, SameCopy

\* A row becomes delivered by an accepting report, once the sink has its event.
LEMMA BecomesDelivered ==
  ASSUME RelayInvariant, [Next]_vars, NEW n \in 1..Len(outbox'), outbox'[n].state = "delivered"
  PROVE  /\ n \in 1..Len(outbox)
         /\ \/ Delivered(n)
            \/ /\ outbox'[n].token = None /\ outbox'[n].due = 0
               /\ \E i \in 1..Len(received) : received[i] = outbox[n].digest
<1>0. TypeOK /\ Copied /\ Released /\ InLine
  BY DEF RelayInvariant
<1>1. CASE UNCHANGED outbox
  BY <1>1 DEF Delivered
<1>2. ASSUME NEW r \in Relays, Sync(r)
      PROVE  n \in 1..Len(outbox) /\ Delivered(n)
  <2>1. /\ \A m \in 1..Len(outbox) : outbox'[m] = outbox[m]
        /\ \A m \in 1..Len(outbox') : m > Len(outbox) => outbox'[m].state = "pending"
        /\ Len(outbox) \in Nat /\ Len(outbox') \in Nat
    BY <1>0, <1>2, SyncFacts DEF TypeOK
  <2>2. QED
    BY <1>2, <2>1 DEF Delivered
<1>3. ASSUME NEW r \in Relays, LeaseHead(r) PROVE n \in 1..Len(outbox) /\ Delivered(n)
  BY <1>0, <1>3, LeaseFacts DEF Delivered
<1>4. ASSUME NEW r \in Relays, Exhaust(r) PROVE n \in 1..Len(outbox) /\ Delivered(n)
  BY <1>0, <1>4, ExhaustFacts DEF Delivered
<1>5. ASSUME NEW r \in Relays, NEW status \in Statuses, NEW delay \in 1..Delay,
             NEW next \in {Idle, Ready}, Report(r, status, delay, next), ~Delivered(n)
      PROVE  /\ n \in 1..Len(outbox)
             /\ outbox'[n].token = None /\ outbox'[n].due = 0
             /\ \E i \in 1..Len(received) : received[i] = outbox[n].digest
  <2> DEFINE k == relay[r].sequence
  <2>1. /\ Len(outbox') = Len(outbox)
        /\ \/ outbox' = outbox
           \/ /\ ~Delivered(k)
              /\ outbox'[k].state = "delivered" =>
                   status = "accepted" /\ outbox'[k].token = None /\ outbox'[k].due = 0
        /\ \A m \in 1..Len(outbox) : m # k => outbox'[m] = outbox[m]
    BY <1>0, <1>5, ReportFacts
  <2>2. n = k /\ n \in 1..Len(outbox) /\ status = "accepted"
        /\ outbox'[n].token = None /\ outbox'[n].due = 0
    BY <1>5, <2>1 DEF Delivered
  <2>3. \E i \in 1..Len(received) : received[i] = outbox[n].digest
    BY <1>5, <2>2 DEF Report, Answerable
  <2>4. QED
    BY <2>2, <2>3
<1>6. ASSUME NEW m \in 1..Len(outbox), Requeue(m) PROVE n \in 1..Len(outbox) /\ Delivered(n)
  BY <1>0, <1>6, RequeueFacts DEF Delivered
<1>7. CASE Tick
  BY <1>0, <1>7, TickFacts DEF Delivered
<1>8. n \in 1..Len(outbox) \/ \E r \in Relays : Sync(r)
  BY SameCopy
<1>9. QED
  BY <1>1, <1>2, <1>3, <1>4, <1>5, <1>6, <1>7, <1>8
     DEF Next, Deliver, Proceed, Leave, PolicyTurns, AppendReceipt, Restore, Send, ProofFails, Crash, Arrive, vars

LEMMA ReleasedStep == RelayInvariant /\ [Next]_vars => Released'
<1> SUFFICES ASSUME RelayInvariant, [Next]_vars,
                    NEW n \in 1..Len(outbox'), outbox'[n].state = "delivered"
             PROVE  outbox'[n].token = None /\ outbox'[n].due = 0
  BY DEF Released, Delivered
<1>1. CASE n \in 1..Len(outbox) /\ Delivered(n)
  <2>1. outbox'[n] = outbox[n]
    BY <1>1, GrowsStep DEF Grows
  <2>2. QED
    BY <1>1, <2>1 DEF RelayInvariant, Released
<1>2. QED
  BY <1>1, BecomesDelivered
\* A delivery under way was under way, at the same row, or has leased the head.
LEMMA SameDelivery ==
  ASSUME RelayInvariant, [Next]_vars, NEW r \in Relays, relay'[r].pc \in {"check", "sent"}
  PROVE  \/ relay[r].pc \in {"check", "sent"} /\ relay'[r].sequence = relay[r].sequence
         \/ /\ relay'[r].sequence \in 1..Len(outbox)
            /\ \A m \in 1..(relay'[r].sequence - 1) : Delivered(m)
<1>0. TypeOK /\ Copied /\ Released /\ InLine /\ relay \in [Relays -> Runs]
  BY DEF RelayInvariant, TypeOK
<1>1. CASE UNCHANGED relay
  BY <1>1
<1>2. ASSUME NEW s \in Relays, LeaseHead(s)
      PROVE  \/ relay'[r] = relay[r]
             \/ /\ relay'[r].sequence \in 1..Len(outbox)
                /\ \A m \in 1..(relay'[r].sequence - 1) : Delivered(m)
  <2>1. CASE r = s
    <3>1. relay'[r].sequence = Front
      BY <1>0, <1>2, <2>1, LeaseFacts
    <3>2. Front \in 1..Len(outbox) /\ \A m \in 1..(Front - 1) : Delivered(m)
      BY <1>0, <1>2, HeadFacts DEF LeaseHead
    <3>3. QED
      BY <3>1, <3>2
  <2>2. CASE r # s
    BY <1>0, <1>2, <2>2, LeaseFacts
  <2>3. QED
    BY <2>1, <2>2
<1>3. ASSUME NEW s \in Relays, Send(s)
      PROVE  relay[r].pc \in {"check", "sent"} /\ relay'[r].sequence = relay[r].sequence
  BY <1>0, <1>3 DEF Send, Runs
<1>4. ASSUME NEW s \in Relays, NEW next \in {Idle, Ready}, relay' = [relay EXCEPT ![s] = next]
      PROVE  relay[r].pc \in {"check", "sent"} /\ relay'[r].sequence = relay[r].sequence
  <2>1. Idle.pc = "idle" /\ Ready.pc = "ready"
    BY DEF Idle, Ready
  <2>2. r # s
    BY <1>0, <1>4, <2>1
  <2>3. QED
    BY <1>0, <1>4, <2>2
<1>5. CASE Tick
  BY <1>0, <1>5, TickFacts
<1>6. ASSUME NEW s \in Relays, Sync(s) \/ Deliver(s) \/ Proceed(s) \/ Crash(s)
      PROVE  \/ relay[r].pc \in {"check", "sent"} /\ relay'[r].sequence = relay[r].sequence
             \/ relay'[r] = relay[r]
             \/ /\ relay'[r].sequence \in 1..Len(outbox)
                /\ \A m \in 1..(relay'[r].sequence - 1) : Delivered(m)
  BY <1>2, <1>3, <1>4, <1>6, RunFrames DEF Deliver, Proceed
<1>7. QED
  BY <1>1, <1>5, <1>6 DEF Next, AppendReceipt, Restore, PolicyTurns, Arrive, Requeue, vars

LEMMA InLineStep == RelayInvariant /\ [Next]_vars => InLine'
<1> SUFFICES ASSUME RelayInvariant, [Next]_vars PROVE InLine'
  OBVIOUS
<1>0. InLine /\ Grows /\ Len(outbox) \in Nat /\ Len(outbox') \in Nat
  BY GrowsStep, TypeStep DEF RelayInvariant, TypeOK
<1>1. \A m \in 1..Len(outbox) : m \in 1..Len(outbox') /\ (Delivered(m) => Delivered(m)')
  BY <1>0 DEF Grows, Delivered
<1>2. ASSUME NEW r \in Relays, relay'[r].pc \in {"check", "sent"}
      PROVE  /\ relay'[r].sequence \in 1..Len(outbox')
             /\ \A m \in 1..(relay'[r].sequence - 1) : Delivered(m)'
  <2>1. /\ relay'[r].sequence \in 1..Len(outbox)
        /\ \A m \in 1..(relay'[r].sequence - 1) : Delivered(m)
    BY <1>0, <1>2, SameDelivery DEF InLine
  <2>2. QED
    BY <1>0, <1>1, <2>1
<1>3. ASSUME NEW e \in wire'
      PROVE  \E n \in 1..Len(outbox') : /\ e = outbox'[n].digest
                                       /\ \A m \in 1..(n - 1) : Delivered(m)'
  <2>1. PICK n \in 1..Len(outbox) : e = outbox[n].digest /\ \A m \in 1..(n - 1) : Delivered(m)
    <3>1. CASE e \in wire
      BY <1>0, <3>1 DEF InLine
    <3>2. CASE e \notin wire
      <4>1. PICK r \in Relays : Send(r)
        BY <1>3, <3>2, WireStep
      <4>2. e = outbox[relay[r].sequence].digest /\ relay[r].pc = "check"
        BY <1>3, <3>2, <4>1 DEF Send
      <4>3. QED
        BY <1>0, <4>2 DEF InLine
    <3>3. QED
      BY <3>1, <3>2
  <2>2. e = outbox'[n].digest /\ n \in 1..Len(outbox')
    BY <1>0, <1>1, <2>1 DEF Grows
  <2>3. \A m \in 1..(n - 1) : Delivered(m)'
    BY <1>0, <1>1, <2>1
  <2>4. QED
    BY <2>2, <2>3
<1>4. QED
  BY <1>2, <1>3 DEF InLine

\* The next event the sink sees for the first time is the next one of the stream.
LEMMA ArriveFacts ==
  ASSUME RelayInvariant, NEW e \in wire, Arrive(e)
  PROVE  /\ received \in Seq(Digests)
         /\ Len(received) + 1 <= Len(cursor)
         /\ e = SubSeq(cursor, 1, Len(received) + 1)
<1>0. /\ TypeOK /\ Copied /\ InLine /\ OrderedDelivery /\ DeliveredMeansReceived
      /\ Len(received) \in Nat /\ received \in Seq(Digests)
      /\ Len(outbox) \in Nat /\ Len(outbox) = Len(cursor)
  BY DEF RelayInvariant, TypeOK, Copied
<1>1. PICK n \in 1..Len(outbox) : e = outbox[n].digest /\ \A m \in 1..(n - 1) : Delivered(m)
  BY <1>0 DEF InLine
<1>2. e = SubSeq(cursor, 1, n)
  BY <1>0, <1>1 DEF Copied
<1>3. n > Len(received)
  <2>1. \A i \in 1..Len(received) : received[i] # e
    BY DEF Arrive
  <2>2. \A i \in 1..Len(received) : i # n
    BY <1>0, <1>2, <2>1 DEF OrderedDelivery
  <2>3. QED
    BY <1>0, <1>1, <2>2
<1>4. n - 1 <= Len(received)
  <2>1. CASE n = 1
    BY <1>0, <2>1
  <2>2. CASE n # 1
    <3>1. n - 1 \in 1..Len(outbox) /\ n - 1 \in 1..(n - 1)
      BY <1>0, <1>1, <2>2
    <3>2. QED
      BY <1>0, <1>1, <3>1 DEF DeliveredMeansReceived, Delivered
  <2>3. QED
    BY <2>1, <2>2
<1>5. n = Len(received) + 1
  BY <1>0, <1>1, <1>3, <1>4
<1>6. QED
  BY <1>0, <1>2, <1>5

LEMMA OrderedStep == RelayInvariant /\ [Next]_vars => OrderedDelivery'
<1> SUFFICES ASSUME RelayInvariant, [Next]_vars PROVE OrderedDelivery'
  OBVIOUS
<1>0. /\ TypeOK /\ Copied /\ OrderedDelivery
      /\ Len(received) \in Nat /\ Len(cursor) \in Nat
  BY DigestType DEF RelayInvariant, TypeOK
<1>1. ASSUME NEW e \in wire, Arrive(e) PROVE OrderedDelivery'
  <2>1. /\ received \in Seq(Digests) /\ e \in Digests
        /\ Len(received) + 1 <= Len(cursor)
        /\ e = SubSeq(cursor, 1, Len(received) + 1)
    BY <1>0, <1>1, ArriveFacts DEF TypeOK
  <2>2. /\ received' = Append(received, e) /\ cursor' = cursor
        /\ Len(received') = Len(received) + 1
        /\ \A i \in 1..Len(received) : received'[i] = received[i]
        /\ received'[Len(received) + 1] = e
    BY <1>1, <2>1, AppendProperties DEF Arrive
  <2>3. QED
    BY <1>0, <2>1, <2>2 DEF OrderedDelivery
<1>2. ASSUME NEW r \in Relays, Sync(r) PROVE OrderedDelivery'
  <2>1. /\ received' = received
        /\ Len(cursor') \in Nat /\ Len(cursor') >= Len(cursor)
        /\ \A n \in 0..Len(cursor) : SubSeq(cursor', 1, n) = SubSeq(cursor, 1, n)
    BY <1>0, <1>2, SyncFacts DEF Sync
  <2>2. QED
    BY <1>0, <2>1 DEF OrderedDelivery
<1>3. CASE UNCHANGED <<cursor, received>>
  BY <1>0, <1>3 DEF OrderedDelivery
<1>4. ASSUME NEW r \in Relays, Deliver(r) \/ Proceed(r) \/ Crash(r)
      PROVE  UNCHANGED <<cursor, received>>
  BY <1>4, RunFrames DEF Deliver, Proceed
<1>5. QED
  BY <1>1, <1>2, <1>3, <1>4
     DEF Next, AppendReceipt, Restore, PolicyTurns, Requeue, Tick, vars

LEMMA ReceivedStep == RelayInvariant /\ [Next]_vars => DeliveredMeansReceived'
<1> SUFFICES ASSUME RelayInvariant, [Next]_vars,
                    NEW n \in 1..Len(outbox'), outbox'[n].state = "delivered"
             PROVE  n <= Len(received')
  BY DEF DeliveredMeansReceived
<1>0. /\ TypeOK /\ Copied /\ OrderedDelivery /\ DeliveredMeansReceived
      /\ Len(received) \in Nat /\ received \in Seq(Digests)
      /\ Len(cursor) \in Nat /\ cursor \in Seq(Bodies)
  BY DigestType DEF RelayInvariant, TypeOK
<1>1. Len(received') \in Nat /\ Len(received) <= Len(received')
  <2>1. ASSUME NEW e \in wire, Arrive(e) PROVE Len(received') = Len(received) + 1
    BY <1>0, <2>1, AppendProperties DEF Arrive, TypeOK
  <2>2. UNCHANGED received => Len(received') = Len(received)
    OBVIOUS
  <2>3. UNCHANGED received \/ \E e \in wire : Arrive(e)
    BY WireStep
  <2>4. Len(received') = Len(received) \/ Len(received') = Len(received) + 1
    BY <2>1, <2>2, <2>3
  <2>5. QED
    BY <1>0, <2>4
<1>2. n \in 1..Len(outbox)
  BY BecomesDelivered
<1>3. CASE Delivered(n)
  BY <1>0, <1>1, <1>2, <1>3 DEF DeliveredMeansReceived, Delivered
<1>4. ASSUME NEW i \in 1..Len(received), received[i] = outbox[n].digest PROVE n <= Len(received)
  <2>1. SubSeq(cursor, 1, i) = SubSeq(cursor, 1, n)
    BY <1>0, <1>2, <1>4 DEF OrderedDelivery, Copied
  <2>2. i \in 1..Len(cursor) /\ n \in 1..Len(cursor)
    BY <1>0, <1>2 DEF OrderedDelivery, Copied
  <2>3. Len(SubSeq(cursor, 1, i)) = i /\ Len(SubSeq(cursor, 1, n)) = n
    BY <1>0, <2>2, SubSeqProperties
  <2>4. QED
    BY <1>0, <2>1, <2>3
<1>5. QED
  BY <1>0, <1>1, <1>2, <1>3, <1>4, BecomesDelivered

-----------------------------------------------------------------------------

LEMMA InvariantInit == Init => RelayInvariant
<1> SUFFICES ASSUME Init PROVE RelayInvariant
  OBVIOUS
<1>1. Len(outbox) = 0 /\ Len(cursor) = 0 /\ Len(received) = 0 /\ wire = {}
  BY DEF Init
<1>2. \A r \in Relays : relay[r].pc = "idle"
  BY DEF Init, Idle
<1>3. Copied /\ Released /\ InLine /\ OrderedDelivery /\ DeliveredMeansReceived
  BY <1>1, <1>2 DEF Copied, Released, InLine, OrderedDelivery, DeliveredMeansReceived
<1>4. QED
  BY <1>3, TypeInit DEF RelayInvariant

LEMMA InvariantStep == RelayInvariant /\ [Next]_vars => RelayInvariant'
  BY TypeStep, CopiedStep, ReleasedStep, InLineStep, OrderedStep, ReceivedStep DEF RelayInvariant

\* The inductive invariant: the outbox copies the stream row by row, delivered
\* rows are out of every lease, and whatever is under way or on the wire has only
\* delivered rows before it (sync, deliver_one).
THEOREM RelayCorrect == Spec => []RelayInvariant
<1>1. Init => RelayInvariant
  BY InvariantInit
<1>2. RelayInvariant /\ [Next]_vars => RelayInvariant'
  BY InvariantStep
<1>3. QED
  BY <1>1, <1>2, PTL DEF Spec

\* The rows, cursors and deliveries keep their types, attempts their budget.
THEOREM TypeCorrect == Spec => []TypeOK
<1>1. RelayInvariant => TypeOK
  BY DEF RelayInvariant
<1>2. QED
  BY <1>1, RelayCorrect, PTL

\* The sink sees one history, in order and without a gap, however many relays
\* stall, die and repeat, and however the source is restored.
THEOREM DeliveryOrdered == Spec => []OrderedDelivery
<1>1. RelayInvariant => OrderedDelivery
  BY DEF RelayInvariant
<1>2. QED
  BY <1>1, RelayCorrect, PTL

\* No row is marked delivered that the sink has not received (deliver_one).
THEOREM DeliveredReceived == Spec => []DeliveredMeansReceived
<1>1. RelayInvariant => DeliveredMeansReceived
  BY DEF RelayInvariant
<1>2. QED
  BY <1>1, RelayCorrect, PTL

\* A delivered row never changes again, although tokens are left in rows that are
\* dead or requeued.
THEOREM DeliveredFinal == Spec => DeliveredIsFinal
<1>1. RelayInvariant /\ [Next]_vars =>
        [\A n \in 1..Len(outbox) : outbox[n].state = "delivered" => outbox'[n] = outbox[n]]_vars
  BY GrowsStep DEF Grows, Delivered
<1>2. QED
  BY <1>1, RelayCorrect, PTL DEF Spec, DeliveredIsFinal

\* No event is sent before all earlier ones are acknowledged.
THEOREM HeadFirst == Spec => HeadOfLine
<1>1. RelayInvariant /\ [Next]_vars =>
        [\A e \in wire' \ wire : \A n \in 1..(Len(e) - 1) : outbox[n].state = "delivered"]_vars
  <2> SUFFICES ASSUME RelayInvariant, [Next]_vars,
                      NEW e \in wire' \ wire, NEW n \in 1..(Len(e) - 1)
               PROVE  outbox[n].state = "delivered"
    OBVIOUS
  <2>1. PICK r \in Relays : Send(r)
    BY WireStep
  <2>2. e = outbox[relay[r].sequence].digest /\ relay[r].pc = "check"
    BY <2>1 DEF Send
  <2>3. /\ relay[r].sequence \in 1..Len(outbox)
        /\ \A m \in 1..(relay[r].sequence - 1) : Delivered(m)
    BY <2>2 DEF RelayInvariant, InLine
  <2>4. cursor \in Seq(Bodies) /\ Len(outbox) = Len(cursor)
        /\ e = SubSeq(cursor, 1, relay[r].sequence)
    BY <2>2, <2>3, DigestType DEF RelayInvariant, Copied
  <2>5. Len(e) = relay[r].sequence
    BY <2>3, <2>4, SubSeqProperties
  <2>6. QED
    BY <2>3, <2>5 DEF Delivered
<1>2. QED
  BY <1>1, RelayCorrect, PTL DEF Spec, HeadOfLine

=============================================================================
