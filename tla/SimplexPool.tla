---------------------------- MODULE SimplexPool ----------------------------
(***************************************************************************)
(* The pool of one engine: votes, certificates, skip runs, available       *)
(* bases, parent waits and the present slot.  The engine runs every input  *)
(* to completion on one goroutine, so each method of the pool is a         *)
(* function from pool states to pool states, and SimplexEngine composes    *)
(* them into its actions.                                                  *)
(*                                                                         *)
(* A pool is a record with these fields.                                   *)
(*   firstNonFinalized        slots below it are pruned                    *)
(*   now                      the present slot                             *)
(*   firstNonAnnouncedWindow  the next leader window to announce           *)
(*   lastFinalized            the last finalized candidate, or genesis     *)
(*   certs                    votes with a stored certificate, not pruned  *)
(*   saving                   votes whose certificate is being persisted   *)
(*   direct, extracted        the votes recorded per validator, from its   *)
(*                            own signed message or out of a certificate   *)
(*   weight                   weight counted per vote                      *)
(*   skipRuns                 ends of the runs of skipped slots            *)
(*   availableBase            per slot, the best parent to build on        *)
(*   parentWaits              candidates waiting for their parent chain    *)
(*   pending                  the queue of deferred notifications          *)
(*   started, fatalErr        Start has finished; why the session failed   *)
(*   accused                  validators reported for contradicting votes  *)
(* and two outputs that the engine consumes in the same step: the window   *)
(* just announced and the certificates to hand to the journal.             *)
(***************************************************************************)
EXTENDS SimplexBase, SequencesExt

CONSTANTS
  Me,   \* the local validator
  spw   \* slots per leader window

ASSUME PoolAssumption == Me \in Validators \ Faulty /\ spw \in Nat \ {0}

Nil == [slot |-> -2, hash |-> 0]  \* a nil pointer to a candidate or a base

NoSlot == -1

EmptyPool ==
  [ firstNonFinalized |-> 0, now |-> 0, firstNonAnnouncedWindow |-> 0,
    lastFinalized |-> Genesis, certs |-> {}, saving |-> {},
    direct |-> [n \in Validators |-> {}], extracted |-> [n \in Validators |-> {}],
    weight |-> [v \in Votes |-> 0], skipRuns |-> {},
    availableBase |-> [s \in 0..MaxSlot + 1 |-> Nil],
    parentWaits |-> {}, pending |-> <<>>, started |-> FALSE, fatalErr |-> "none",
    accused |-> {}, window |-> NoSlot, toSave |-> <<>> ]

Failed(p) == p.fatalErr # "none"

(* Fail closed: what is queued is dropped.                                 *)
fatal(p, why) ==
  IF Failed(p) THEN p ELSE [p EXCEPT !.fatalErr = why, !.pending = <<>>]

enqueue(p, note) == [p EXCEPT !.pending = Append(@, note)]

(* slots.at(s) # nil *)
Tracked(p, s) == s >= p.firstNonFinalized

SameCert(u, v) == u.kind = v.kind /\ SlotOf(u) = SlotOf(v)

needs(p, v) == ~ \E u \in p.certs \cup p.saving : SameCert(u, v)

(* notarizedBlock: the candidates (at most one) notarized in slot s.       *)
NotarizedIn(p, s) ==
  {v.id : v \in {u \in p.certs : u.kind = "notarize" /\ SlotOf(u) = s}}

addAvailableBase(p, s, b) ==
  [p EXCEPT !.availableBase[s] = IF ParentLeq(@, b) THEN b ELSE @]

-----------------------------------------------------------------------------
(***************************************************************************)
(* Skip runs and the present slot.                                         *)
(***************************************************************************)

RunEnds(p, s) == {r \in p.skipRuns : r >= s}

(* The first slot after i without a skip certificate, found through the    *)
(* run ends; NoSlot stands for the error that there is no run end.         *)
nextNonSkippedSlotAfter(p, i) ==
  IF SkipVote(i + 1) \notin p.certs THEN i + 1
  ELSE IF RunEnds(p, i + 1) = {} THEN NoSlot
  ELSE Min(RunEnds(p, i + 1))

(* Mutant: a skipped slot does not let the present move on.                *)
SettledByNotarization(p, s) == NotarizedIn(p, s) # {}

Settled(p, s) == NotarizedIn(p, s) # {} \/ SkipVote(s) \in p.certs

advancePresent(p) ==
  LET now == Min({s \in p.now..MaxSlot + 1 : ~ Settled(p, s)})
      q == [p EXCEPT !.now = now]
  IN  IF ~ p.started \/ Failed(p) THEN p
      ELSE IF ~ Tracked(p, p.now) THEN fatal(p, "present slot below finalized horizon")
      ELSE IF p.firstNonAnnouncedWindow > now \div spw THEN q
      ELSE IF now # 0 /\ p.availableBase[now] = Nil THEN fatal(q, "no available base")
      ELSE [q EXCEPT !.firstNonAnnouncedWindow = now \div spw + 1, !.window = now]

-----------------------------------------------------------------------------
(***************************************************************************)
(* Parent waits.  The parent chain of a candidate is refuted by a          *)
(* certificate ("misbehavior"), settled ("ok"), still open ("wait"), or of *)
(* no interest any more ("abort").                                         *)
(***************************************************************************)
(* Mutant: a parent right below the finalized horizon counts as overtaken. *)
ParentRefutedOffByOne(p, c) ==
  \/ ParentOf[c].slot + 1 <= p.firstNonFinalized
  \/ NotarizedIn(p, c.slot) \ {c} # {}

ParentRefuted(p, c) ==
  LET parent == ParentOf[c]
      next == parent.slot + 1
      rival == NotarizedIn(p, parent.slot)
  IN  \/ next < p.firstNonFinalized
      \/ NotarizedIn(p, c.slot) \ {c} # {}
      \/ next = p.firstNonFinalized /\ p.lastFinalized # parent
      \/ next > p.firstNonFinalized /\ rival # {} /\ parent \notin rival

(* Mutant: a candidate does not wait for the notarization of its parent.   *)
evaluateParentWaitEager(p, c) ==
  IF ~ Tracked(p, c.slot) THEN "abort"
  ELSE IF ParentRefuted(p, c) THEN "misbehavior"
  ELSE "ok"

evaluateParentWait(p, c) ==
  LET parent == ParentOf[c]
      next == parent.slot + 1
      parentKnown == next = p.firstNonFinalized \/ parent \in NotarizedIn(p, parent.slot)
  IN  IF ~ Tracked(p, c.slot) THEN "abort"
      ELSE IF ParentRefuted(p, c) THEN "misbehavior"
      ELSE IF ~ parentKnown THEN "wait"
      ELSE IF next = c.slot THEN "ok"
      ELSE IF SkipVote(next) \notin p.certs THEN "wait"
      ELSE IF RunEnds(p, next) = {} THEN "fatal"
      ELSE IF Min(RunEnds(p, next)) >= c.slot THEN "ok" ELSE "wait"

ParentDone(p, c) == [type |-> "parentDone", id |-> c, outcome |-> evaluateParentWait(p, c)]

registerParentWait(p, c) ==
  CASE evaluateParentWait(p, c) = "wait" -> [p EXCEPT !.parentWaits = @ \cup {c}]
    [] evaluateParentWait(p, c) = "fatal" -> fatal(p, "skipped slot has no run end")
    [] OTHER -> enqueue(p, ParentDone(p, c))

(* Mutant: a finalization wakes nobody.                                    *)
resolveParentWaitsUnlessFinalized(p) ==
  LET done == {c \in p.parentWaits : evaluateParentWait(p, c) # "wait"}
      notes == SetToSeq({ParentDone(p, c) : c \in done})
  IN  IF \E i \in DOMAIN p.pending : p.pending[i].type = "finalized" THEN p
      ELSE [p EXCEPT !.parentWaits = @ \ done, !.pending = @ \o notes]

(* The resolved waits leave the list together.  Their continuations act on *)
(* different slots, so the order in which they are queued does not matter. *)
resolveParentWaits(p) ==
  LET done == {c \in p.parentWaits : evaluateParentWait(p, c) # "wait"}
      notes == SetToSeq({ParentDone(p, c) : c \in done})
  IN  IF \E c \in done : evaluateParentWait(p, c) = "fatal"
      THEN fatal(p, "skipped slot has no run end")
      ELSE [p EXCEPT !.parentWaits = @ \ done, !.pending = @ \o notes]

-----------------------------------------------------------------------------
(***************************************************************************)
(* Certificates.  handleCertificate asks the journal to persist one;       *)
(* finishCertificateSave applies it when the journal answers.              *)
(***************************************************************************)
Above(V, s) == {v \in V : SlotOf(v) > s}

(* Mutant: one slot too many is pruned.                                    *)
notifyFinalizedOffByOne(p, s) ==
  [p EXCEPT !.firstNonFinalized = s + 2, !.certs = Above(@, s + 1), !.saving = Above(@, s + 1)]

(* notifyFinalized: everything kept for slots up to s is dropped.          *)
notifyFinalized(p, s) ==
  [p EXCEPT
     !.firstNonFinalized = s + 1,
     !.certs = Above(@, s),
     !.saving = Above(@, s),
     !.direct = [n \in Validators |-> Above(@[n], s)],
     !.extracted = [n \in Validators |-> Above(@[n], s)],
     !.weight = [v \in Votes |-> IF SlotOf(v) > s THEN @[v] ELSE 0],
     !.availableBase = [t \in DOMAIN @ |-> IF t > s THEN @[t] ELSE Nil]]

(* Mutant: the base is added to the next slot, skipped or not.             *)
onNotarCertificateAdjacent(p, c) ==
  advancePresent(addAvailableBase(enqueue(p, [type |-> "notarized", id |-> c]), c.slot + 1, c))

onNotarCertificate(p, c) ==
  LET next == nextNonSkippedSlotAfter(p, c.slot)
      q == enqueue(p, [type |-> "notarized", id |-> c])
  IN  IF next = NoSlot THEN fatal(q, "skipped slot has no run end")
      ELSE advancePresent(addAvailableBase(q, next, c))

(* Mutant: the run that ended at the skipped slot keeps its end.           *)
onSkipCertificateKeepingEnds(p, i) ==
  LET next == nextNonSkippedSlotAfter(p, i)
      q == [p EXCEPT !.skipRuns = @ \cup (IF next = i + 1 THEN {i + 1} ELSE {})]
  IN  IF p.availableBase[i] = Nil THEN advancePresent(q)
      ELSE advancePresent(addAvailableBase(q, next, p.availableBase[i]))

onSkipCertificate(p, i) ==
  LET next == nextNonSkippedSlotAfter(p, i)
      q == [p EXCEPT !.skipRuns = (@ \ {i}) \cup (IF next = i + 1 THEN {i + 1} ELSE {})]
  IN  IF next = NoSlot THEN fatal(p, "skipped slot has no run end")
      ELSE IF p.availableBase[i] = Nil THEN advancePresent(q)
      ELSE advancePresent(addAvailableBase(q, next, p.availableBase[i]))

(* Mutant: the present slot is left behind the finalized horizon.          *)
onFinalCertificateKeepingNow(p, c) ==
  LET next == nextNonSkippedSlotAfter(p, c.slot)
      based == IF NotarizeVote(c) \in p.certs THEN p ELSE addAvailableBase(p, next, c)
  IN  enqueue(notifyFinalized([based EXCEPT !.lastFinalized = c,
                                            !.skipRuns = {r \in @ : r > c.slot}], c.slot),
              [type |-> "finalized", id |-> c])

onFinalCertificate(p, c) ==
  LET next == nextNonSkippedSlotAfter(p, c.slot)
      based == IF NotarizeVote(c) \in p.certs THEN p ELSE addAvailableBase(p, next, c)
      pruned == enqueue(notifyFinalized([based EXCEPT !.lastFinalized = c], c.slot),
                        [type |-> "finalized", id |-> c])
      moved == IF pruned.now <= c.slot
               THEN advancePresent([pruned EXCEPT !.now = c.slot + 1])
               ELSE pruned
  IN  IF SkipVote(c.slot) \in p.certs
      THEN fatal(p, "consensus violation: finalize and skip")
      ELSE IF NotarizedIn(p, c.slot) \ {c} # {}
      THEN fatal(p, "consensus violation: finalize and another notarize")
      ELSE IF NotarizeVote(c) \notin p.certs /\ next = NoSlot
      THEN fatal(p, "skipped slot has no run end")
      ELSE [moved EXCEPT !.skipRuns = {r \in @ : r > c.slot}]

storeSavedCertificate(p, v) ==
  LET stored == [p EXCEPT !.certs = @ \cup {v}, !.saving = @ \ {v}]
      q == CASE v.kind = "notarize" -> onNotarCertificate(stored, v.id)
             [] v.kind = "skip" -> onSkipCertificate(stored, SlotOf(v))
             [] v.kind = "finalize" -> onFinalCertificate(stored, v.id)
  IN  IF \E u \in p.certs : SameCert(u, v) THEN fatal(p, "duplicate certificate")
      ELSE IF Failed(q) THEN q
      ELSE resolveParentWaits(q)

(* Mutant: the save is not single-flight.                                  *)
handleCertificateUnflagged(p, cert) ==
  IF Tracked(p, SlotOf(cert.vote)) /\ needs(p, cert.vote)
  THEN [p EXCEPT !.toSave = Append(@, cert)]
  ELSE p

(* A certificate is a vote and the validators whose signatures it holds.   *)
handleCertificate(p, cert) ==
  IF Tracked(p, SlotOf(cert.vote)) /\ needs(p, cert.vote)
  THEN [p EXCEPT !.saving = @ \cup {cert.vote}, !.toSave = Append(@, cert)]
  ELSE p

Recorded(p, n) == p.direct[n] \cup p.extracted[n]

(* Mutant: a notarization and a skip count as contradicting.               *)
ContradictsExclusive(p, n, v) ==
  \E u \in Recorded(p, n) : SlotOf(u) = SlotOf(v) /\ (u.kind = "skip") # (v.kind = "skip")

Contradicts(p, n, v) == \E u \in Recorded(p, n) : Conflict(u, v)

finishCertificateSave(p, cert) ==
  LET v == cert.vote
      bad == {n \in cert.signers : Contradicts(p, n, v)}
      new == {n \in cert.signers \ bad : v \notin Recorded(p, n)}
      q == [p EXCEPT
              !.accused = @ \cup bad,
              !.extracted = [n \in Validators |-> IF n \in new THEN @[n] \cup {v} ELSE @[n]]]
  IN  IF Tracked(p, SlotOf(v)) THEN storeSavedCertificate(q, v) ELSE p

-----------------------------------------------------------------------------
(***************************************************************************)
(* Votes.  A vote that is neither recorded already nor contradicts the     *)
(* record of its validator is counted, and builds the certificate when it  *)
(* brings the weight to the threshold.                                     *)
(***************************************************************************)
buildCertificate(p, v) ==
  [vote |-> v, signers |-> {n \in Validators : v \in p.direct[n]}]

(* Mutant: the certificate is built one unit of weight too early.          *)
onVoteAppliedEarly(p, n, v) ==
  LET q == [p EXCEPT !.weight[v] = @ + Weight[n]]
  IN  IF q.weight[v] + 1 >= threshold /\ needs(q, v)
      THEN handleCertificate(q, buildCertificate(q, v))
      ELSE q

onVoteApplied(p, n, v) ==
  LET q == [p EXCEPT !.weight[v] = @ + Weight[n]]
  IN  IF q.weight[v] >= threshold /\ needs(q, v)
      THEN handleCertificate(q, buildCertificate(q, v))
      ELSE q

applyVote(p, n, v, tolerateConflicts) ==
  IF ~ Tracked(p, SlotOf(v)) THEN p
  ELSE IF Contradicts(p, n, v)
  THEN IF n = Me /\ ~ tolerateConflicts
       THEN fatal(p, "we produced conflicting votes")
       ELSE [p EXCEPT !.accused = @ \cup {n}]
  ELSE IF v \in Recorded(p, n) THEN p
  ELSE onVoteApplied([p EXCEPT !.direct[n] = @ \cup {v}], n, v)
=============================================================================
