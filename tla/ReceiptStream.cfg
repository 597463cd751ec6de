SPECIFICATION Spec
CONSTANTS
  g1 = g1
  g2 = g2
  k1 = k1
  k2 = k2
  q1 = q1
  q2 = q2
  q3 = q3
  Stores = {g1, g2}
  Requests = {q1, q2, q3}
  Evidence = {"e"}
  EvidenceOf <- SharedEvidence
  Keys = {k1, k2}
  SignerOf <- Signers
  Listed = {k1}
  MaxTries = 2
  None = None
INVARIANTS
  TypeOK
  CopyIsCurrent
  ProofOfCall
PROPERTIES
  AppendUnderTrust
  ImplementsReceiptLog
SYMMETRY ClaimantSymmetry
CHECK_DEADLOCK FALSE
