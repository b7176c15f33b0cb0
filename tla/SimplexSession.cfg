SPECIFICATION Spec
CONSTANTS
  h1 = h1
  h2 = h2
  h3 = h3
  f1 = f1
  Validators <- MCValidators
  Faulty <- MCFaulty
  Weight <- MCWeight
  Candidates <- MCCandidates
  ParentOf <- MCParentOf
  MaxSlot = 2
SYMMETRY HonestSymmetry
INVARIANT TypeOK
INVARIANT CertificatesCompatible
INVARIANT Agreement
INVARIANT CertificatesJustified
CHECK_DEADLOCK FALSE
