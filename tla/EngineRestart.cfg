SPECIFICATION Spec
CONSTANTS
  me = me
  peer = peer
  Validators <- MCValidators
  Faulty = {}
  Weight <- MCWeight
  Candidates <- RestartCandidates
  ParentOf <- RestartParentOf
  MaxSlot = 1
  Me = me
  spw = 2
  MaxLeaderWindowDesync = 1
  InitialNets <- LargestNets
  PeerBallots <- MCPeerBallots
  Senders = {}
  Proposed <- OneProposed
  MaxInFlight = 1
  MaxCrashes = 1
VIEW MCView
INVARIANTS
  JournalConsistent
  NoInternalFatal
PROPERTIES
  ImplementsSigner
CHECK_DEADLOCK FALSE
