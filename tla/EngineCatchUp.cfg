SPECIFICATION GossipSpec
CONSTANTS
  me = me
  peer = peer
  Validators <- MCValidators
  Faulty = {}
  Weight <- MCWeight
  Candidates <- CatchUpCandidates
  ParentOf <- CatchUpParentOf
  MaxSlot = 2
  Me = me
  spw = 1
  MaxLeaderWindowDesync = 1
  InitialNets <- LargestNets
  PeerBallots <- MCPeerBallots
  Senders = {}
  Proposed = {}
  MaxInFlight = 1
  MaxCrashes = 0
PROPERTIES
  CatchesUp
CHECK_DEADLOCK FALSE
