SPECIFICATION Spec
CONSTANTS
  me = me
  p1 = p1
  p2 = p2
  f = f
  Validators <- MCValidators
  Faulty = {f}
  Weight <- MCWeight
  Candidates <- MCCandidates
  ParentOf <- MCParentOf
  MaxSlot = 0
  Me = me
  spw = 1
  MaxLeaderWindowDesync = 1
  InitialNets <- MCInitialNets
  PeerBallots <- MCPeerBallots
  Senders = {p1, p2, f}
  Proposed <- MCProposed
  MaxInFlight = 1
  MaxCrashes = 0
SYMMETRY PeerSymmetry
VIEW MCView
INVARIANTS
  SealedCertificatesVerify
  HonestNotAccused
CHECK_DEADLOCK FALSE
