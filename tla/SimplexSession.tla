--------------------------- MODULE SimplexSession ---------------------------
(***************************************************************************)
(* A whole validator group at the level of its signatures: what the votes  *)
(* signed by the honest validators, each of them following the promise     *)
(* MaySign of SimplexBase, allow to be certified.                          *)
(*                                                                         *)
(* Faulty validators are taken to have signed every vote from the start: a *)
(* certificate that any behaviour of theirs could complete is a            *)
(* certificate here.  Messages carry signatures and certificates, neither  *)
(* of which can be forged or taken back, so the set of signed votes is the *)
(* network: a validator may or may not have learned of a certificate when  *)
(* it signs, and its guards only become weaker as it learns of more.       *)
(***************************************************************************)
EXTENDS SimplexBase

VARIABLE signed  \* signed[n]: the votes carrying a signature of validator n

Honest == Validators \ Faulty

SignersOf(v) == {n \in Validators : v \in signed[n]}

IsCertified(v) == IsQuorum(SignersOf(v))

Certified == {v \in Votes : IsCertified(v)}

Notarized(c) == IsCertified(NotarizeVote(c))

Finalized(c) == IsCertified(FinalizeVote(c))

-----------------------------------------------------------------------------

Init == signed = [n \in Validators |-> IF n \in Faulty THEN Votes ELSE {}]

(* The one step of a validator: sign a vote its promise allows.            *)
Sign(n, v) ==
  /\ v \notin signed[n]
  /\ MaySign(v, signed[n], Certified)
  /\ signed' = [signed EXCEPT ![n] = @ \cup {v}]

SignNotarize(n, c) == Sign(n, NotarizeVote(c))

SignFinalize(n, c) == Sign(n, FinalizeVote(c))

(* Mutant: the skip is signed for the next slot.                           *)
SignSkipNext(n, s) == Sign(n, SkipVote(s + 1))

SignSkip(n, s) == Sign(n, SkipVote(s))

Next ==
  \E n \in Honest :
    \/ \E c \in Candidates : SignNotarize(n, c)
    \/ \E c \in Candidates : SignFinalize(n, c)
    \/ \E s \in Slots : SignSkip(n, s)

Spec == Init /\ [][Next]_signed

-----------------------------------------------------------------------------

TypeOK == signed \in [Validators -> SUBSET Votes]

(* The rules of validatorVotes hold between certificates as they do between *)
(* the votes of one validator: no slot has two notarized or finalized       *)
(* candidates, none is finalized and skipped.  The engine fails the session *)
(* closed when it meets such a pair ("consensus violation").                *)
CertificatesCompatible == ConflictFree(Certified)

(* c descends from a: a is in every set of parents that holds c and is     *)
(* closed under ParentOf.                                                  *)
Descends(c, a) ==
  \A S \in SUBSET Parents :
    (c \in S /\ \A x \in S \cap Candidates : ParentOf[x] \in S) => a \in S

(* Agreement: once a candidate is finalized, every candidate notarized or  *)
(* finalized in its slot or a later one descends from it, so that two      *)
(* validators never accept blocks of diverging chains.                     *)
Agreement ==
  \A a \in Candidates : Finalized(a) =>
    \A c \in Candidates :
      (a.slot <= c.slot /\ (Notarized(c) \/ Finalized(c))) => Descends(c, a)

(* A block is finalized only on a settled chain: its notarization exists,  *)
(* and so do the certificates its validators waited for in                 *)
(* evaluateParentWait.                                                     *)
CertificatesJustified ==
  \A c \in Candidates :
    /\ Finalized(c) => Notarized(c)
    /\ Notarized(c) => ParentSettled(c, Certified)
=============================================================================
