--------------------------- MODULE ProviderEffects ---------------------------
(***************************************************************************)
(* What a governed operation promises to the provider, without workers,    *)
(* databases or receipts: a step is reserved within the budgets the plan   *)
(* seals, reaches the provider at most once, and is free again only while  *)
(* it has not reached it.  OperationCoordinator implements this.           *)
(***************************************************************************)
EXTENDS Naturals

CONSTANTS Steps, Cost, MaxAttempts, MaxCost

VARIABLES
  hold,         \* step -> "free", "held" (may be sent) or "settled" (was sent)
  sent,         \* steps that reached the provider
  reservations, \* attempts charged
  charged       \* cost charged

vars == <<hold, sent, reservations, charged>>

TypeOK ==
  /\ hold \in [Steps -> {"free", "held", "settled"}]
  /\ sent \subseteq Steps
  /\ reservations \in 0..MaxAttempts
  /\ charged \in 0..MaxCost

Init ==
  /\ hold = [s \in Steps |-> "free"]
  /\ sent = {}
  /\ reservations = 0
  /\ charged = 0

\* Budgets are charged when the step is reserved and never given back.
Hold(s) ==
  /\ hold[s] = "free"
  /\ reservations < MaxAttempts
  /\ charged + Cost[s] <= MaxCost
  /\ hold' = [hold EXCEPT ![s] = "held"]
  /\ reservations' = reservations + 1
  /\ charged' = charged + Cost[s]
  /\ UNCHANGED sent

Send(s) ==
  /\ hold[s] = "held" /\ s \notin sent
  /\ sent' = sent \union {s}
  /\ UNCHANGED <<hold, reservations, charged>>

Settle(s) ==
  /\ hold[s] = "held" /\ s \in sent
  /\ hold' = [hold EXCEPT ![s] = "settled"]
  /\ UNCHANGED <<sent, reservations, charged>>

Release(s) ==
  /\ hold[s] = "held" /\ s \notin sent
  /\ hold' = [hold EXCEPT ![s] = "free"]
  /\ UNCHANGED <<sent, reservations, charged>>

Next == \E s \in Steps : Hold(s) \/ Send(s) \/ Settle(s) \/ Release(s)

Spec == Init /\ [][Next]_vars
=============================================================================
