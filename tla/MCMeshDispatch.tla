--------------------------- MODULE MCMeshDispatch ---------------------------
(***************************************************************************)
(* Small instances of MeshDispatch for TLC.                                *)
(***************************************************************************)
EXTENDS MeshDispatch, TLC

CONSTANTS s1, s2

\* s1 needs a single-use approval and has two; s2 needs none.
Approvals == (s1 :> {"e1", "e2"}) @@ (s2 :> {})

\* Requests in service are interchangeable, and so are request keys.
CallerSymmetry == Permutations(Callers) \union Permutations(Keys)
=============================================================================
