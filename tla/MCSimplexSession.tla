-------------------------- MODULE MCSimplexSession --------------------------
(***************************************************************************)
(* Three slots, four validators of weight one, one of them faulty.  Slot 0 *)
(* has one candidate.  Slot 1 has none.  The leader of slot 2 proposes one *)
(* candidate on slot 0, over a skipped slot 1, and another on genesis,     *)
(* over two skipped slots.                                                 *)
(***************************************************************************)
EXTENDS SimplexSession, TLC

CONSTANTS h1, h2, h3, f1

MCValidators == {h1, h2, h3, f1}
MCFaulty == {f1}
MCWeight == [n \in MCValidators |-> 1]

Cand(s, h) == [slot |-> s, hash |-> h]

MCParentOf ==
  Cand(0, 1) :> Genesis
    @@ Cand(2, 1) :> Cand(0, 1)
    @@ Cand(2, 2) :> Genesis

MCCandidates == DOMAIN MCParentOf

HonestSymmetry == Permutations({h1, h2, h3})
=============================================================================
