--------------------------- MODULE SimplexSigner ---------------------------
(***************************************************************************)
(* What one honest validator promises the others, whatever it runs inside: *)
(* it learns certificates, and signs a vote only when the promise MaySign  *)
(* allows it, given all it ever signed and the certificates it learned.    *)
(* A SimplexSession is a set of such signers.                              *)
(***************************************************************************)
EXTENDS SimplexBase

VARIABLES
  learned,  \* the certificates this validator has ever obtained
  mine      \* the votes it has ever signed

Init == learned = {} /\ mine = {}

Learn ==
  /\ learned' \in SUBSET Votes
  /\ learned \subseteq learned'
  /\ UNCHANGED mine

SignVote ==
  \E v \in Votes \ mine :
    /\ MaySign(v, mine, learned)
    /\ mine' = mine \cup {v}
    /\ UNCHANGED learned

Next == Learn \/ SignVote

Spec == Init /\ [][Next]_<<learned, mine>>
=============================================================================
