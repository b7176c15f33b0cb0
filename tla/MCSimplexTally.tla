--------------------------- MODULE MCSimplexTally ---------------------------
(***************************************************************************)
(* One engine among four validators of equal weight, one of them faulty,   *)
(* in one slot with two candidates.  The honest peers vote as they please  *)
(* within their promise, and the engine counts votes one by one, builds    *)
(* certificates itself and takes others from the network.                  *)
(***************************************************************************)
EXTENDS SimplexEngine

CONSTANTS me, p1, p2, f

MCValidators == {me, p1, p2, f}

MCWeight == [n \in MCValidators |-> 1]

MCCandidates == {[slot |-> 0, hash |-> h] : h \in {1, 2}}

MCParentOf == [c \in MCCandidates |-> Genesis]

MCProposed == {[slot |-> 0, hash |-> 1]}

MCInitialNets == {[n \in MCValidators |-> IF n = f THEN Votes ELSE {}]}

(* Only the faulty validator votes for the second candidate.               *)
MCPeerBallots ==
  [n \in MCValidators |-> {v \in Votes : v.kind = "skip" \/ v.id \in MCProposed}]

PeerSymmetry == {[p \in {p1, p2} |-> p], [p \in {p1, p2} |-> IF p = p1 THEN p2 ELSE p1]}

(* Once no crash is left, the order and the durability of the accepted     *)
(* records only matter to SignedVotesDurable: the view forgets them.       *)
MCView ==
  <<pool, voter, phase, replay, net, received, crashes, journal.awaiting, Accepted(journal),
    IF crashes < MaxCrashes THEN <<journal.durable, journal.tail>> ELSE <<SignedVotesDurable>> >>
=============================================================================
