SPECIFICATION FairSpec
CONSTANTS
  me = me
  peer = peer
  Validators <- MCValidators
  Faulty = {}
  Weight <- MCWeight
  Candidates <- RestartCandidates
  ParentOf <- RestartParentOf
  MaxSlot = 1
  Me = me
  spw = 2
  MaxLeaderWindowDesync = 1
  InitialNets <- AllNets
  PeerBallots <- MCPeerBallots
  Senders = {}
  Proposed = {}
  MaxInFlight = 1
  MaxCrashes = 1
PROPERTIES
  StallAnswered
CHECK_DEADLOCK FALSE
