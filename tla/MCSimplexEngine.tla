-------------------------- MODULE MCSimplexEngine --------------------------
(***************************************************************************)
(* One engine against the rest of the group, which is folded into one      *)
(* honest peer heavy enough to certify alone.  What the peer signed is     *)
(* fixed by the initial state: AllNets has every set of votes its promise  *)
(* allows, LargestNets the maximal ones.  The engine learns of the         *)
(* certificates in any order, or not at all.  Five instances share this    *)
(* module: Slot, Chain, Restart, Runs and CatchUp.                         *)
(***************************************************************************)
EXTENDS SimplexEngine

CONSTANTS me, peer

MCValidators == {me, peer}

MCWeight == [n \in MCValidators |-> IF n = peer THEN 3 ELSE 1]

Id(s, h) == [slot |-> s, hash |-> h]

(* One slot, whose leader proposes two candidates.                         *)
SlotCandidates == {Id(0, 1), Id(0, 2)}

OneProposed == {Id(0, 1)}

SlotParentOf == [c \in SlotCandidates |-> Genesis]

(* Two slots: one candidate, one on top of it and one that skips it.       *)
ChainCandidates == {Id(0, 1), Id(1, 1), Id(1, 2)}

ChainParentOf ==
  [c \in ChainCandidates |-> IF c = Id(1, 1) THEN Id(0, 1) ELSE Genesis]

(* Two slots of a chain without forks.                                     *)
RestartCandidates == {Id(0, 1), Id(1, 1)}

RestartParentOf ==
  [c \in RestartCandidates |-> IF c = Id(1, 1) THEN Id(0, 1) ELSE Genesis]

(* Four slots in two windows, for skip runs and bases.                     *)
RunsCandidates == {Id(0, 1), Id(1, 1), Id(3, 1), Id(3, 2)}

RunsParentOf ==
  [c \in RunsCandidates |->
     CASE c = Id(0, 1) -> Genesis
       [] c = Id(1, 1) -> Id(0, 1)
       [] c = Id(3, 1) -> Id(1, 1)
       [] c = Id(3, 2) -> Id(0, 1)]

(* Three slots, one window each, with a candidate over a skipped slot.     *)
CatchUpCandidates == {Id(0, 1), Id(1, 1), Id(2, 1)}

CatchUpParentOf ==
  [c \in CatchUpCandidates |-> IF c = Id(0, 1) THEN Genesis ELSE Id(0, 1)]

(* What the peer may have signed, by its promise; all of it is certified.  *)
Ballot(B) == \A v \in B : MaySign(v, B \ {v}, B)

Ballots == {B \in SUBSET Votes : Ballot(B)}

AllNets == {[n \in MCValidators |-> IF n = peer THEN B ELSE {}] : B \in Ballots}

LargestNets ==
  {N \in AllNets : \A v \in Votes \ N[peer] : N[peer] \cup {v} \notin Ballots}

MCPeerBallots == [n \in MCValidators |-> {}]

(* Once no crash is left, the order and the durability of the accepted     *)
(* records only matter to SignedVotesDurable: the view forgets them.       *)
MCView ==
  <<pool, voter, phase, replay, net, received, crashes, journal.awaiting, Accepted(journal),
    IF crashes < MaxCrashes THEN <<journal.durable, journal.tail>> ELSE <<SignedVotesDurable>> >>
=============================================================================
