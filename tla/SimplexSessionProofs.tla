------------------------ MODULE SimplexSessionProofs ------------------------
(***************************************************************************)
(* The safety of the session, for every roster, weight distribution,       *)
(* candidate tree and number of slots that the assumptions of SimplexBase  *)
(* admit.                                                                  *)
(***************************************************************************)
EXTENDS SimplexSession, WellFoundedInduction, TLAPS

(***************************************************************************)
(* Weights and quorums.                                                    *)
(***************************************************************************)

(* The weight of a set splits along any other set.                         *)
LEMMA WeightSplit ==
  ASSUME NEW S \in SUBSET Validators, NEW T \in SUBSET Validators
  PROVE  WeightOf(S) = WeightOf(S \cap T) + WeightOf(S \ T)
<1>1. (S \cap T) \cap (S \ T) = {} /\ (S \cap T) \cup (S \ T) = S
  OBVIOUS
<1>2. S \cap T \in SUBSET Validators /\ S \ T \in SUBSET Validators
  OBVIOUS
<1> QED BY <1>1, <1>2, WeightAssumption

(* A subset weighs no more than the set.                                   *)
LEMMA WeightMonotone ==
  ASSUME NEW S \in SUBSET Validators, NEW T \in SUBSET Validators, S \subseteq T
  PROVE  WeightOf(S) <= WeightOf(T)
<1>1. T \cap S = S
  OBVIOUS
<1>2. WeightOf(T) = WeightOf(S) + WeightOf(T \ S)
  BY <1>1, WeightSplit
<1>3. WeightOf(S) \in Nat /\ WeightOf(T \ S) \in Nat
  BY WeightAssumption
<1> QED BY <1>2, <1>3

(* Two sets of signers that both reach the 2/3+1 threshold share an honest *)
(* validator.                                                              *)
LEMMA QuorumsIntersect ==
  ASSUME NEW P \in SUBSET Validators, NEW Q \in SUBSET Validators,
         IsQuorum(P), IsQuorum(Q)
  PROVE  \E n \in Validators \ Faulty : n \in P /\ n \in Q
<1> DEFINE W == WeightOf(Validators)
           F == WeightOf(Faulty)
<1>1. SUFFICES ASSUME P \cap Q \subseteq Faulty PROVE FALSE
  OBVIOUS
<1>2. /\ W \in Nat /\ F \in Nat /\ WeightOf(P) \in Nat /\ WeightOf(Q) \in Nat
      /\ WeightOf(P \cap Q) \in Nat /\ WeightOf(P \ Q) \in Nat
      /\ WeightOf(Q \cup P) \in Nat
  BY WeightAssumption
<1>3. WeightOf(P) = WeightOf(P \cap Q) + WeightOf(P \ Q)
  BY WeightSplit
<1>4. WeightOf(Q \cup (P \ Q)) = WeightOf(Q) + WeightOf(P \ Q)
  <2>1. Q \cap (P \ Q) = {} /\ P \ Q \in SUBSET Validators
    OBVIOUS
  <2> QED BY <2>1, WeightAssumption
<1>5. Q \cup (P \ Q) \in SUBSET Validators /\ Validators \in SUBSET Validators
  OBVIOUS
<1>6. WeightOf(Q \cup (P \ Q)) <= W
  BY <1>5, WeightMonotone
<1>7. WeightOf(P \cap Q) <= F
  BY <1>1, WeightAssumption, WeightMonotone
<1>8. WeightOf(P) + WeightOf(Q) <= W + F
  BY <1>2, <1>3, <1>4, <1>6, <1>7
<1>9. 3 * threshold > 2 * W
  BY <1>2 DEF threshold
<1>10. threshold \in Nat
  BY <1>2 DEF threshold
<1>11. WeightOf(P) >= threshold /\ WeightOf(Q) >= threshold
  BY DEF IsQuorum
<1>12. 3 * F < W
  BY FaultAssumption
<1> HIDE DEF W, F
<1> QED BY <1>2, <1>8, <1>9, <1>10, <1>11, <1>12

-----------------------------------------------------------------------------
(***************************************************************************)
(* The inductive invariant: what each honest validator has signed is free  *)
(* of contradictions, and rests on certificates that exist.                *)
(***************************************************************************)
HonestConsistent == \A n \in Honest : ConflictFree(signed[n])

HonestJustified ==
  \A n \in Honest : \A v \in signed[n] :
    /\ v.kind = "notarize" => ParentSettled(v.id, Certified)
    /\ v.kind = "finalize" => NotarizeVote(v.id) \in Certified

IInv == TypeOK /\ HonestConsistent /\ HonestJustified

(* Kinds, ids and slots of the three votes.                                *)
LEMMA VoteFields ==
  /\ \A c : NotarizeVote(c).kind = "notarize" /\ NotarizeVote(c).id = c
  /\ \A c : FinalizeVote(c).kind = "finalize" /\ FinalizeVote(c).id = c
  /\ \A s : /\ SkipVote(s).kind = "skip"
            /\ SkipVote(s).id = [slot |-> s, hash |-> 0]
            /\ SlotOf(SkipVote(s)) = s
  /\ \A c : SlotOf(NotarizeVote(c)) = c.slot /\ SlotOf(FinalizeVote(c)) = c.slot
  /\ \A c \in Candidates : NotarizeVote(c) \in Votes /\ FinalizeVote(c) \in Votes
  /\ \A s \in Slots : SkipVote(s) \in Votes
BY DEF NotarizeVote, FinalizeVote, SkipVote, SlotOf, Votes

(* Contradiction is symmetric, and no vote contradicts itself.             *)
LEMMA ConflictSymmetric ==
  ASSUME NEW u, NEW v
  PROVE  (Conflict(u, v) => Conflict(v, u)) /\ ~ Conflict(u, u)
BY DEF Conflict

(* More certificates settle no fewer parents.                              *)
LEMMA SettledMonotone ==
  ASSUME NEW c, NEW A, NEW B, A \subseteq B, ParentSettled(c, A)
  PROVE  ParentSettled(c, B)
BY DEF ParentSettled

(* Signatures are never taken back, so neither are certificates.           *)
LEMMA CertifiedMonotone ==
  ASSUME TypeOK, [Next]_signed
  PROVE  Certified \subseteq Certified'
<1>1. \A n \in Validators : signed[n] \subseteq signed'[n]
  BY DEF TypeOK, Next, Sign, SignNotarize, SignFinalize, SignSkip, Honest
<1>2. ASSUME NEW v \in Votes, IsCertified(v) PROVE IsCertified(v)'
  <2>1. /\ SignersOf(v) \subseteq SignersOf(v)'
        /\ SignersOf(v) \in SUBSET Validators
        /\ SignersOf(v)' \in SUBSET Validators
    BY <1>1 DEF SignersOf
  <2>2. WeightOf(SignersOf(v)) <= WeightOf(SignersOf(v)')
    BY <2>1, WeightMonotone
  <2>3. /\ WeightOf(SignersOf(v)) \in Nat /\ WeightOf(SignersOf(v)') \in Nat
        /\ WeightOf(Validators) \in Nat
    BY <2>1, WeightAssumption
  <2>4. threshold \in Nat
    BY <2>3 DEF threshold
  <2>5. WeightOf(SignersOf(v)) >= threshold
    BY <1>2 DEF IsCertified, IsQuorum
  <2>6. WeightOf(SignersOf(v)') >= threshold
    BY <2>2, <2>3, <2>4, <2>5
  <2> QED BY <2>6 DEF IsCertified, IsQuorum
<1> QED BY <1>2 DEF Certified

(* A step of an honest validator keeps its record consistent and           *)
(* justified: MaySign is exactly what is needed.                           *)
LEMMA SignKeepsIInv ==
  ASSUME IInv, NEW n \in Honest, NEW v \in Votes, Sign(n, v),
         Certified \subseteq Certified'
  PROVE  IInv'
<1> USE DEF IInv, Honest
<1>1. TypeOK'
  BY DEF TypeOK, Sign
<1>2. \A m \in Validators : signed'[m] = IF m = n THEN signed[n] \cup {v} ELSE signed[m]
  BY DEF TypeOK, Sign
<1>3. \A u \in signed[n] : ~ Conflict(u, v)
  BY DEF Sign, MaySign
<1>4. HonestConsistent'
  <2> SUFFICES ASSUME NEW m \in Honest, NEW u \in signed'[m], NEW w \in signed'[m]
               PROVE  ~ Conflict(u, w)
    BY DEF HonestConsistent, ConflictFree
  <2>1. CASE m # n
    BY <1>2, <2>1 DEF HonestConsistent, ConflictFree
  <2>2. CASE m = n
    <3>1. u \in signed[n] \/ u = v
      BY <1>2, <2>2
    <3>2. w \in signed[n] \/ w = v
      BY <1>2, <2>2
    <3>3. CASE u \in signed[n] /\ w \in signed[n]
      BY <3>3 DEF HonestConsistent, ConflictFree
    <3> QED BY <1>3, <3>1, <3>2, <3>3, ConflictSymmetric
  <2> QED BY <2>1, <2>2
<1>5. HonestJustified'
  <2> SUFFICES ASSUME NEW m \in Honest, NEW u \in signed'[m]
               PROVE  /\ u.kind = "notarize" => ParentSettled(u.id, Certified')
                      /\ u.kind = "finalize" => NotarizeVote(u.id) \in Certified'
    BY DEF HonestJustified, ParentSettled
  <2>1. \/ u \in signed[m]
        \/ u = v
    BY <1>2
  <2>2. /\ u.kind = "notarize" => ParentSettled(u.id, Certified)
        /\ u.kind = "finalize" => NotarizeVote(u.id) \in Certified
    BY <2>1 DEF HonestJustified, Sign, MaySign
  <2> QED BY <2>2, SettledMonotone
<1> QED BY <1>1, <1>4, <1>5

(* The inductive invariant holds in every reachable state.                 *)
THEOREM SessionInvariant == Spec => []IInv
<1>1. Init => IInv
  BY WeightAssumption
     DEF Init, IInv, TypeOK, HonestConsistent, HonestJustified, ConflictFree, Honest
<1>2. IInv /\ [Next]_signed => IInv'
  <2> SUFFICES ASSUME IInv, [Next]_signed PROVE IInv'
    OBVIOUS
  <2>1. Certified \subseteq Certified'
    BY CertifiedMonotone DEF IInv
  <2>2. CASE UNCHANGED signed
    BY <2>2 DEF IInv, TypeOK, HonestConsistent, HonestJustified, Certified,
                IsCertified, SignersOf
  <2>3. ASSUME NEW n \in Honest, NEW c \in Candidates, SignNotarize(n, c)
        PROVE  IInv'
    BY <2>1, <2>3, SignKeepsIInv, VoteFields DEF SignNotarize
  <2>4. ASSUME NEW n \in Honest, NEW c \in Candidates, SignFinalize(n, c)
        PROVE  IInv'
    BY <2>1, <2>4, SignKeepsIInv, VoteFields DEF SignFinalize
  <2>5. ASSUME NEW n \in Honest, NEW s \in Slots, SignSkip(n, s)
        PROVE  IInv'
    BY <2>1, <2>5, SignKeepsIInv, VoteFields DEF SignSkip
  <2> QED BY <2>2, <2>3, <2>4, <2>5 DEF Next
<1> QED BY <1>1, <1>2, PTL DEF Spec

-----------------------------------------------------------------------------
(***************************************************************************)
(* From the invariant to the properties of the runs.                       *)
(***************************************************************************)

(* Any two certificates have an honest signer in common.                   *)
LEMMA CommonSigner ==
  ASSUME NEW u, NEW v, IsCertified(u), IsCertified(v)
  PROVE  \E n \in Honest : u \in signed[n] /\ v \in signed[n]
<1>1. SignersOf(u) \in SUBSET Validators /\ SignersOf(v) \in SUBSET Validators
  BY DEF SignersOf
<1>2. IsQuorum(SignersOf(u)) /\ IsQuorum(SignersOf(v))
  BY DEF IsCertified
<1>3. \E n \in Validators \ Faulty : n \in SignersOf(u) /\ n \in SignersOf(v)
  BY <1>1, <1>2, QuorumsIntersect
<1> QED BY <1>3 DEF SignersOf, Honest

(* Certificates never contradict each other.                               *)
LEMMA IInvCompatible == IInv => CertificatesCompatible
<1> SUFFICES ASSUME IInv, NEW u \in Certified, NEW v \in Certified
             PROVE  ~ Conflict(u, v)
  BY DEF CertificatesCompatible, ConflictFree
<1>1. PICK n \in Honest : u \in signed[n] /\ v \in signed[n]
  BY CommonSigner DEF Certified
<1> QED BY <1>1 DEF IInv, HonestConsistent, ConflictFree

(* Certificates rest on the certificates their honest signers knew of.     *)
LEMMA IInvJustified == IInv => CertificatesJustified
<1> SUFFICES ASSUME IInv, NEW c \in Candidates
             PROVE  /\ Finalized(c) => Notarized(c)
                    /\ Notarized(c) => ParentSettled(c, Certified)
  BY DEF CertificatesJustified
<1>1. ASSUME Finalized(c) PROVE Notarized(c)
  <2>1. PICK n \in Honest : FinalizeVote(c) \in signed[n]
    BY <1>1, CommonSigner DEF Finalized
  <2>2. NotarizeVote(c) \in Certified
    BY <2>1, VoteFields DEF IInv, HonestJustified
  <2> QED BY <2>2 DEF Notarized, Certified
<1>2. ASSUME Notarized(c) PROVE ParentSettled(c, Certified)
  <2>1. PICK n \in Honest : NotarizeVote(c) \in signed[n]
    BY <1>2, CommonSigner DEF Notarized
  <2> QED BY <2>1, VoteFields DEF IInv, HonestJustified
<1> QED BY <1>1, <1>2

(* A candidate certified above a finalized one builds on a certified       *)
(* candidate that is not below it: the slot of the finalized candidate     *)
(* cannot be skipped.                                                      *)
LEMMA ParentNotBelow ==
  ASSUME IInv, NEW a \in Candidates, Finalized(a),
         NEW c \in Candidates, Notarized(c), a.slot < c.slot
  PROVE  /\ ParentOf[c] \in Candidates
         /\ Notarized(ParentOf[c])
         /\ a.slot <= ParentOf[c].slot
<1> DEFINE p == ParentOf[c]
<1>1. ParentSettled(c, Certified)
  BY IInvJustified DEF CertificatesJustified
<1>2. /\ a.slot \in Slots /\ c.slot \in Slots /\ p \in Parents
      /\ p \in Candidates => p.slot \in Slots
  BY CandidateAssumption
<1>3. p.slot \in Int
  BY <1>2, SlotAssumption DEF Parents, Genesis, Slots
<1>4. a.slot <= p.slot
  <2> SUFFICES ASSUME p.slot < a.slot PROVE FALSE
    BY <1>2, <1>3, SlotAssumption DEF Slots
  <2>1. SkipVote(a.slot) \in Certified
    BY <1>1, <1>2 DEF ParentSettled
  <2>2. FinalizeVote(a) \in Certified
    BY VoteFields DEF Finalized, Certified
  <2>3. Conflict(FinalizeVote(a), SkipVote(a.slot))
    BY VoteFields DEF Conflict
  <2> QED BY <2>1, <2>2, <2>3, IInvCompatible DEF CertificatesCompatible, ConflictFree
<1>5. p # Genesis
  BY <1>2, <1>4, SlotAssumption DEF Genesis, Slots
<1>6. p \in Candidates
  BY <1>2, <1>5 DEF Parents
<1>7. Notarized(p)
  BY <1>1, <1>5, <1>6, IInvJustified
     DEF ParentSettled, CertificatesJustified, Certified, Notarized, Finalized
<1> QED BY <1>4, <1>6, <1>7

(* A nonempty set of naturals has a least element.  The order is kept      *)
(* abstract, because the provers cannot instantiate an operator.           *)
LEMMA LeastByOrder ==
  ASSUME NEW R, IsWellFoundedOn(R, Nat),
         \A x, y \in Nat : x < y => <<x, y>> \in R,
         NEW T \in SUBSET Nat, T # {}
  PROVE  \E x \in T : \A y \in T : x <= y
<1>1. \E x \in T : \A y \in T : ~ (<<y, x>> \in R)
  <2>1. T \subseteq Nat
    OBVIOUS
  <2> QED BY ONLY <2>1, WFMin, T # {}, IsWellFoundedOn(R, Nat)
<1>2. PICK x \in T : \A y \in T : ~ (<<y, x>> \in R)
  BY <1>1
<1>3. ASSUME NEW y \in T PROVE x <= y
  <2>1. ~ (y < x)
    BY <1>2, Zenon
  <2> QED BY <2>1
<1> QED BY <1>3

(* A set of naturals that is not empty has a least element.               *)
LEMMA LeastNatural ==
  ASSUME NEW T \in SUBSET Nat, T # {}
  PROVE  \E x \in T : \A y \in T : x <= y
<1>1. IsWellFoundedOn(OpToRel(<, Nat), Nat)
  BY NatLessThanWellFounded, Zenon
<1>2. \A x, y \in Nat : x < y => <<x, y>> \in OpToRel(<, Nat)
  BY Zenon DEF OpToRel
<1> QED BY <1>1, <1>2, LeastByOrder, Zenon

(* Agreement follows by descent: in a parent-closed set that misses a, the *)
(* certified candidate of least slot at or above a has no place for its    *)
(* parent.                                                                 *)
LEMMA IInvAgreement == IInv => Agreement
<1> SUFFICES ASSUME IInv, NEW a \in Candidates, Finalized(a),
                    NEW c \in Candidates, a.slot <= c.slot,
                    Notarized(c) \/ Finalized(c),
                    NEW S \in SUBSET Parents, c \in S,
                    \A x \in S \cap Candidates : ParentOf[x] \in S,
                    a \notin S
             PROVE  FALSE
  BY DEF Agreement, Descends
<1> DEFINE Bad == {x \in S \cap Candidates : Notarized(x) /\ a.slot <= x.slot}
           T == {x.slot : x \in Bad}
<1>1. c \in Bad
  BY IInvJustified DEF CertificatesJustified
<1>2. T \in SUBSET Nat /\ T # {}
  <2>1. \A x \in Candidates : x.slot \in Nat
    BY CandidateAssumption, SlotAssumption DEF Slots
  <2> QED BY <1>1, <2>1
<1>3. PICK t \in T : \A y \in T : t <= y
  <2> HIDE DEF T
  <2> QED BY <1>2, LeastNatural
<1>4. PICK m \in Bad : m.slot = t
  BY <1>3
<1>5. m.slot \in Int /\ a.slot \in Int /\ ParentOf[m].slot < m.slot
  BY <1>4, CandidateAssumption, SlotAssumption DEF Slots
<1>6. CASE a.slot < m.slot
  <2>1. ParentOf[m] \in Bad
    BY <1>4, <1>6, ParentNotBelow
  <2>2. ParentOf[m].slot \in Int
    BY <2>1, CandidateAssumption, SlotAssumption DEF Slots
  <2>3. m.slot <= ParentOf[m].slot
    BY <1>3, <1>4, <2>1
  <2> QED BY <1>5, <2>2, <2>3
<1>7. CASE a.slot = m.slot
  <2>1. FinalizeVote(a) \in Certified /\ NotarizeVote(m) \in Certified
    BY <1>4, VoteFields DEF Finalized, Notarized, Certified
  <2>2. m # a
    BY <1>4
  <2>3. Conflict(FinalizeVote(a), NotarizeVote(m))
    BY <1>7, <2>2, VoteFields DEF Conflict
  <2> QED BY <2>1, <2>3, IInvCompatible DEF CertificatesCompatible, ConflictFree
<1>8. a.slot <= m.slot
  BY <1>4
<1> QED BY <1>5, <1>6, <1>7, <1>8

-----------------------------------------------------------------------------

(* The record of signatures is always well formed.                         *)
THEOREM SessionTypeCorrect == Spec => []TypeOK
<1>1. IInv => TypeOK
  BY DEF IInv
<1> QED BY <1>1, SessionInvariant, PTL

(* No slot is ever certified for two candidates, nor finalized and         *)
(* skipped: the engine's "consensus violation" needs a third of the weight *)
(* to be faulty.                                                           *)
THEOREM SessionCompatible == Spec => []CertificatesCompatible
BY IInvCompatible, SessionInvariant, PTL

(* Every certificate rests on the certificates its signers waited for.     *)
THEOREM SessionJustified == Spec => []CertificatesJustified
BY IInvJustified, SessionInvariant, PTL

(* Whatever is notarized or finalized at or above a finalized candidate    *)
(* descends from it.                                                       *)
THEOREM SessionAgreement == Spec => []Agreement
BY IInvAgreement, SessionInvariant, PTL
=============================================================================
