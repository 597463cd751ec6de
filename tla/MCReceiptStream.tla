--------------------------- MODULE MCReceiptStream ---------------------------
(***************************************************************************)
(* Small instances of ReceiptStream for TLC.                               *)
(***************************************************************************)
EXTENDS ReceiptStream, TLC

CONSTANTS g1, g2, k1, k2, q1, q2, q3

\* The two gateways sign with different keys.
Signers == (g1 :> k1) @@ (g2 :> k2)

\* Two requests present the same single-use evidence, the third none.
SharedEvidence == (q1 :> {"e"}) @@ (q2 :> {"e"}) @@ (q3 :> {})

\* The requests that share the evidence are interchangeable.
ClaimantSymmetry == Permutations({q1, q2})
=============================================================================
