SPECIFICATION Spec
CONSTANTS
  me = me
  peer = peer
  Validators <- MCValidators
  Faulty = {}
  Weight <- MCWeight
  Candidates <- RunsCandidates
  ParentOf <- RunsParentOf
  MaxSlot = 3
  Me = me
  spw = 2
  MaxLeaderWindowDesync = 1
  InitialNets <- LargestNets
  PeerBallots <- MCPeerBallots
  Senders = {}
  Proposed = {}
  MaxInFlight = 1
  MaxCrashes = 0
VIEW MCView
INVARIANTS
  RunsExact
  BasesExact
  NoInternalFatal
CHECK_DEADLOCK FALSE
