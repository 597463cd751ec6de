----------------------------- MODULE ReceiptLog -----------------------------
(***************************************************************************)
(* What the signed authority receipts promise to an auditor: one log that  *)
(* only grows, in which every outcome answers one earlier authorization,   *)
(* no authorization has two outcomes and no single-use evidence authorizes *)
(* twice (authority_crypto/verification.py, VerifiedStreamState.validate). *)
(***************************************************************************)
EXTENDS Naturals, Sequences

CONSTANTS Requests, Evidence, Keys

VARIABLE log

Kinds == {"authorization", "outcome", "denial"}

\* The parent of an outcome is the place of its authorization in the chain.
Records == [kind : Kinds, request : Requests, parent : Nat,
            claims : SUBSET Evidence, key : Keys]

\* Authorizations without an outcome: VerifiedStreamState.authorizations.
Open(l) ==
  {i \in 1..Len(l) : /\ l[i].kind = "authorization"
                     /\ \A j \in 1..Len(l) : l[j].kind = "outcome" => l[j].parent # i}

\* validate: the transition from a verified stream.
Accepts(l, r) ==
  /\ r.kind = "authorization" =>
       \A i \in 1..Len(l) : l[i].kind = "authorization" => l[i].claims \cap r.claims = {}
  /\ r.kind = "outcome" =>
       /\ r.parent \in Open(l)
       /\ l[r.parent].request = r.request
       /\ l[r.parent].claims = r.claims
  /\ r.kind = "denial" => r.claims = {}

Init == log = <<>>

\* One accepted record more, and all earlier ones as they were.
Record ==
  LET r == log'[Len(log) + 1]
  IN  /\ Len(log') = Len(log) + 1
      /\ log' = Append(log, r)
      /\ r \in Records
      /\ Accepts(log, r)

Next == Record

Spec == Init /\ [][Next]_log
=============================================================================
