SPECIFICATION FairSpec
CONSTANTS
  me = me
  peer = peer
  Validators <- MCValidators
  Faulty = {}
  Weight <- MCWeight
  Candidates <- SlotCandidates
  ParentOf <- SlotParentOf
  MaxSlot = 0
  Me = me
  spw = 1
  MaxLeaderWindowDesync = 1
  InitialNets <- LargestNets
  PeerBallots <- MCPeerBallots
  Senders = {}
  Proposed <- OneProposed
  MaxInFlight = 2
  MaxCrashes = 1
PROPERTIES
  DurableVoteSigned
CHECK_DEADLOCK FALSE
