---------------------------- MODULE SimplexVoter ----------------------------
(***************************************************************************)
(* The voting policy of one engine: when to notarize, finalize and skip.   *)
(* Like the pool, each of its methods is a function from voter states to   *)
(* voter states.  A voter is a record with these fields.                   *)
(*   slots               per slot: the pending candidate and its pipeline, *)
(*                       what was voted, the notarization observed         *)
(*   firstNonFinalized   slots below it are pruned                         *)
(*   timeoutSlot         one past the slot the alarm watches               *)
(*   alarmArmed          the alarm is set                                  *)
(*   currentWindow       the last leader window observed                   *)
(*   cast                output: the votes cast by this step, in order     *)
(* Deadlines are left out: an armed alarm may fire at any moment.  The     *)
(* adaptive first-block timeout only moves deadlines.                      *)
(***************************************************************************)
EXTENDS SimplexPool

CONSTANT MaxLeaderWindowDesync

EmptySlot ==
  [ pending |-> Nil, votedNotar |-> Nil, notarCert |-> Nil,
    votedSkip |-> FALSE, votedFinal |-> FALSE,
    storeInFlight |-> FALSE, stored |-> FALSE,
    validationInFlight |-> FALSE, validated |-> FALSE ]

Voted(t, s) == s >= t.firstNonFinalized

castVote(t, v) == [t EXCEPT !.cast = Append(@, v)]

WindowSlots(w) == {s \in Slots : s \div spw = w}

(* Mutant: recovery forgets the skips, the journaled and the reserved.     *)
bootstrapVoterWithoutSkips(votes, firstNonAnnouncedWindow) ==
  LET notarized(s) == {c \in Candidates : c.slot = s /\ NotarizeVote(c) \in votes}
      finalized(s) == \E c \in Candidates : c.slot = s /\ FinalizeVote(c) \in votes
  IN  [ slots |->
          [s \in Slots |->
             [EmptySlot EXCEPT
                !.votedNotar = IF notarized(s) = {} THEN Nil
                               ELSE CHOOSE c \in notarized(s) : TRUE,
                !.votedFinal = finalized(s)]],
        firstNonFinalized |-> 0, timeoutSlot |-> 0, alarmArmed |-> FALSE,
        currentWindow |-> 0, cast |-> <<>> ]

(***************************************************************************)
(* The flags restored from the journal.  The slots of the last announced   *)
(* window are reserved for the recovery skips, unless finalized.  votes is *)
(* free of contradictions (JournalConsistent in SimplexEngine), so the     *)
(* branches that drop a corrupted record never apply.                      *)
(***************************************************************************)
bootstrapVoter(votes, firstNonAnnouncedWindow) ==
  LET interrupted == WindowSlots(firstNonAnnouncedWindow - 1)
      notarized(s) == {c \in Candidates : c.slot = s /\ NotarizeVote(c) \in votes}
      finalized(s) == \E c \in Candidates : c.slot = s /\ FinalizeVote(c) \in votes
  IN  [ slots |->
          [s \in Slots |->
             [EmptySlot EXCEPT
                !.votedNotar = IF notarized(s) = {} THEN Nil
                               ELSE CHOOSE c \in notarized(s) : TRUE,
                !.votedFinal = finalized(s),
                !.votedSkip = SkipVote(s) \in votes
                                \/ (s \in interrupted /\ ~ finalized(s))]],
        firstNonFinalized |-> 0, timeoutSlot |-> 0, alarmArmed |-> FALSE,
        currentWindow |-> 0, cast |-> <<>> ]

(* Skips are cast in slot order.                                           *)
CastSkips(t, S) ==
  LET open == {s \in S : Voted(t, s) /\ ~ t.slots[s].votedFinal}
  IN  [t EXCEPT !.cast = @ \o [i \in 1..Cardinality(open) |->
                                 SkipVote(SetToSortSeq(open, <)[i])]]

castStartupWindowSkips(t, firstNonAnnouncedWindow) ==
  CastSkips(t, WindowSlots(firstNonAnnouncedWindow - 1))

(* Mutant: the alarm is armed only when the window starts past it.         *)
voterWindowObservedStrict(t, startSlot) ==
  LET q == [t EXCEPT !.currentWindow = startSlot \div spw]
  IN  IF t.timeoutSlot < startSlot
      THEN [q EXCEPT !.timeoutSlot = startSlot + 1, !.alarmArmed = TRUE]
      ELSE q

voterWindowObserved(t, startSlot) ==
  LET q == [t EXCEPT !.currentWindow = startSlot \div spw]
  IN  IF t.timeoutSlot <= startSlot
      THEN [q EXCEPT !.timeoutSlot = startSlot + 1, !.alarmArmed = TRUE]
      ELSE q

(* Mutant: the finalization does not wait for the notarization certificate. *)
tryVoteFinalUncertified(t, s) ==
  LET slot == t.slots[s]
  IN  IF ~ slot.votedSkip /\ ~ slot.votedFinal /\ slot.votedNotar # Nil
      THEN [castVote(t, FinalizeVote(slot.votedNotar)) EXCEPT !.slots[s].votedFinal = TRUE]
      ELSE t

tryVoteFinal(t, s) ==
  LET slot == t.slots[s]
  IN  IF /\ ~ slot.votedSkip /\ ~ slot.votedFinal
         /\ slot.votedNotar # Nil /\ slot.votedNotar = slot.notarCert
      THEN [castVote(t, FinalizeVote(slot.votedNotar)) EXCEPT !.slots[s].votedFinal = TRUE]
      ELSE t

voterNotarizationObserved(t, c) ==
  LET next == c.slot + 1
      timed == IF t.timeoutSlot <= next
               THEN [t EXCEPT !.timeoutSlot = IF next % spw = 0 THEN next ELSE next + 1,
                              !.alarmArmed = TRUE]
               ELSE t
  IN  IF Voted(t, c.slot)
      THEN tryVoteFinal([timed EXCEPT !.slots[c.slot].notarCert = c], c.slot)
      ELSE t

voterFinalizationObserved(t, c) ==
  IF Voted(t, c.slot)
  THEN [t EXCEPT !.firstNonFinalized = c.slot + 1,
                 !.slots = [s \in Slots |-> IF s > c.slot THEN @[s] ELSE EmptySlot]]
  ELSE t

(* The alarm skips the overdue slot and the rest of its leader window.     *)
fireVoterAlarm(t) ==
  LET rangeStart == t.timeoutSlot - 1
      window == rangeStart \div spw
      range == {s \in WindowSlots(window) : s >= rangeStart}
      skipped(s) == s \in range /\ Voted(t, s) /\ ~ t.slots[s].votedFinal
  IN  [CastSkips(t, range) EXCEPT
         !.alarmArmed = FALSE,
         !.timeoutSlot = (window + 1) * spw,
         !.slots = [s \in Slots |-> [@[s] EXCEPT !.votedSkip = @ \/ skipped(s)]]]

-----------------------------------------------------------------------------
(***************************************************************************)
(* The pipeline of a candidate: accepted, stored and, once its parent      *)
(* chain is settled, validated; then notarized.                            *)
(***************************************************************************)
Acceptable(t, c) ==
  /\ c.slot < (t.currentWindow + MaxLeaderWindowDesync + 1) * spw
  /\ Voted(t, c.slot)
  /\ t.slots[c.slot].votedNotar = Nil
  /\ t.slots[c.slot].pending = Nil

acceptCandidate(t, c) ==
  [t EXCEPT !.slots[c.slot].pending = c, !.slots[c.slot].storeInFlight = TRUE]

onParentWaitDone(t, c, outcome) ==
  LET slot == t.slots[c.slot]
  IN  IF /\ outcome = "ok" /\ Voted(t, c.slot)
         /\ slot.pending = c /\ slot.votedNotar = Nil /\ ~ slot.validationInFlight
      THEN [t EXCEPT !.slots[c.slot].validationInFlight = TRUE]
      ELSE t

maybeVoteNotar(t, c) ==
  LET slot == t.slots[c.slot]
  IN  IF slot.validated /\ slot.stored /\ slot.votedNotar = Nil
      THEN tryVoteFinal([castVote(t, NotarizeVote(c)) EXCEPT !.slots[c.slot].votedNotar = c],
                        c.slot)
      ELSE t

completeValidation(t, c, accepted) ==
  LET q == [t EXCEPT !.slots[c.slot].validationInFlight = FALSE]
  IN  IF accepted THEN maybeVoteNotar([q EXCEPT !.slots[c.slot].validated = TRUE], c) ELSE q

completeStore(t, c) ==
  maybeVoteNotar([t EXCEPT !.slots[c.slot].storeInFlight = FALSE,
                           !.slots[c.slot].stored = TRUE], c)
=============================================================================
