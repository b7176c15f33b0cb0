SPECIFICATION Spec
CONSTANTS
  me = me
  peer = peer
  Validators <- MCValidators
  Faulty = {}
  Weight <- MCWeight
  Candidates <- SlotCandidates
  ParentOf <- SlotParentOf
  MaxSlot = 0
  Me = me
  spw = 1
  MaxLeaderWindowDesync = 1
  InitialNets <- LargestNets
  PeerBallots <- MCPeerBallots
  Senders = {}
  Proposed <- SlotCandidates
  MaxInFlight = 9
  MaxCrashes = 2
VIEW MCView
INVARIANTS
  TypeOK
  JournalConsistent
  SignedVotesDurable
  NoInternalFatal
PROPERTIES
  ImplementsSigner
CHECK_DEADLOCK FALSE
