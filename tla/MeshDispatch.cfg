SPECIFICATION Spec
CONSTANTS
  s1 = s1
  s2 = s2
  Callers = {c1, c2}
  Keys = {k1, k2}
  Subjects = {s1, s2}
  Evidence = {"e1", "e2"}
  EvidenceOf <- Approvals
  Results = {x, bad}
  Unusable = {bad}
  None = None
INVARIANTS
  TypeOK
  ResultsAreProven
  MeshInvariant
PROPERTIES
  UnresolvedStaysBlocked
  ImplementsIdempotentCommands
SYMMETRY CallerSymmetry
CHECK_DEADLOCK FALSE
