SPECIFICATION Spec
CONSTANTS
  me = me
  peer = peer
  Validators <- MCValidators
  Faulty = {}
  Weight <- MCWeight
  Candidates <- ChainCandidates
  ParentOf <- ChainParentOf
  MaxSlot = 1
  Me = me
  spw = 2
  MaxLeaderWindowDesync = 1
  InitialNets <- LargestNets
  PeerBallots <- MCPeerBallots
  Senders = {}
  Proposed <- ChainCandidates
  MaxInFlight = 2
  MaxCrashes = 0
VIEW MCView
INVARIANTS
  HonestLeaderNotBlamed
  NoLostParentWait
PROPERTIES
  ImplementsSigner
CHECK_DEADLOCK FALSE
