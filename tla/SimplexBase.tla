---------------------------- MODULE SimplexBase ----------------------------
(***************************************************************************)
(* The data every Simplex module shares: candidate ids and their parents,  *)
(* votes, the rules under which two votes of one validator contradict each *)
(* other, the weighted 2/3+1 quorum, and what makes the parent chain of a  *)
(* candidate settled.  It has no variables.                                *)
(***************************************************************************)
EXTENDS Integers, FiniteSets, Functions

CONSTANTS
  Validators,  \* the session's roster
  Faulty,      \* the validators nothing is assumed about
  Weight,      \* Weight[n]: voting weight of validator n
  Candidates,  \* the candidate ids that can be proposed in this session
  ParentOf,    \* ParentOf[c]: the parent that the hash of c commits to
  MaxSlot      \* bound: slots 0..MaxSlot are modelled

Slots == 0..MaxSlot

(***************************************************************************)
(* Candidate ids are (slot, hash); the parent of a candidate is an id or   *)
(* genesis.  Genesis carries slot -1, so that it sorts before every id and *)
(* the slot after it is slot 0.                                            *)
(***************************************************************************)
Genesis == [slot |-> -1, hash |-> 0]

Parents == Candidates \cup {Genesis}

(* p.Compare(q) <= 0 *)
ParentLeq(p, q) == p.slot < q.slot \/ (p.slot = q.slot /\ p.hash <= q.hash)

-----------------------------------------------------------------------------

NotarizeVote(c) == [kind |-> "notarize", id |-> c]

FinalizeVote(c) == [kind |-> "finalize", id |-> c]

SkipVote(s) == [kind |-> "skip", id |-> [slot |-> s, hash |-> 0]]

Votes == {NotarizeVote(c) : c \in Candidates}
           \cup {FinalizeVote(c) : c \in Candidates}
           \cup {SkipVote(s) : s \in Slots}

SlotOf(v) == v.id.slot

(***************************************************************************)
(* Two votes of one validator contradict each other when they are two      *)
(* notarizations or finalizations of different candidates of a slot, a     *)
(* notarization and a finalization of different candidates, or a           *)
(* finalization and a skip.  A notarization and a skip may coexist.        *)
(***************************************************************************)
Conflict(u, v) ==
  /\ SlotOf(u) = SlotOf(v)
  /\ \/ /\ u.kind # "skip" /\ v.kind # "skip"
        /\ u.id # v.id
     \/ {u.kind, v.kind} = {"finalize", "skip"}

ConflictFree(V) == \A u, v \in V : ~ Conflict(u, v)

-----------------------------------------------------------------------------

WeightOf(S) == SumFunctionOnSet(Weight, S)

(* Mutant: the quorum is two thirds, not two thirds and one.               *)
thresholdRoundedDown == (WeightOf(Validators) * 2) \div 3

threshold == (WeightOf(Validators) * 2) \div 3 + 1

IsQuorum(S) == WeightOf(S) >= threshold

(* Mutant: the slots between parent and candidate are not looked at.       *)
ParentSettledIgnoringGap(c, certs) ==
  LET p == ParentOf[c] IN p = Genesis \/ {NotarizeVote(p), FinalizeVote(p)} \cap certs # {}

(***************************************************************************)
(* certs settles the parent chain of c: the parent is genesis or has a     *)
(* notarization or finalization certificate, and every slot between the    *)
(* parent and c has a skip certificate.                                    *)
(***************************************************************************)
ParentSettled(c, certs) ==
  LET p == ParentOf[c] IN
  /\ p = Genesis \/ {NotarizeVote(p), FinalizeVote(p)} \cap certs # {}
  /\ \A s \in Slots : p.slot < s /\ s < c.slot => SkipVote(s) \in certs

(* Mutant: a finalization is signed without a notarization certificate.    *)
MaySignUnnotarized(v, mine, certs) ==
  /\ \A u \in mine : ~ Conflict(u, v)
  /\ v.kind = "notarize" => ParentSettled(v.id, certs)

(***************************************************************************)
(* The promise of an honest validator: it may sign v when it has signed    *)
(* mine and certs are certificates it can know of.                         *)
(***************************************************************************)
MaySign(v, mine, certs) ==
  /\ \A u \in mine : ~ Conflict(u, v)
  /\ v.kind = "notarize" => ParentSettled(v.id, certs)
  /\ v.kind = "finalize" => NotarizeVote(v.id) \in certs

-----------------------------------------------------------------------------

ASSUME SlotAssumption == MaxSlot \in Nat

(* A candidate's parent is genesis or sits in an earlier slot.             *)
ASSUME CandidateAssumption ==
  /\ Candidates \subseteq [slot : Slots, hash : Nat]
  /\ ParentOf \in [Candidates -> Parents]
  /\ \A c \in Candidates : ParentOf[c].slot < c.slot

ASSUME WeightAssumption ==
  /\ Faulty \subseteq Validators
  /\ Weight \in [Validators -> Nat]
  /\ \A S \in SUBSET Validators : WeightOf(S) \in Nat
  /\ \A S, T \in SUBSET Validators :
       S \cap T = {} => WeightOf(S \cup T) = WeightOf(S) + WeightOf(T)

(* Less than a third of the weight is faulty.                              *)
ASSUME FaultAssumption == 3 * WeightOf(Faulty) < WeightOf(Validators)
=============================================================================
