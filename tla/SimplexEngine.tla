--------------------------- MODULE SimplexEngine ---------------------------
(***************************************************************************)
(* The engine of one validator: pool, voter and journal composed, driven   *)
(* by the network, by the candidate services, by its alarm and by the      *)
(* journal's completions, across crashes and restarts.                     *)
(*                                                                         *)
(* The engine handles one input at a time and drains the queue of deferred *)
(* notifications before the next one.  Delivering a notification is an     *)
(* action of its own, and no input is handled while one is queued.  Start  *)
(* is split the same way into phases: "certs" replays the certificates,    *)
(* "votes" delivers what that queued and replays the own votes, "up" is    *)
(* the running engine.                                                     *)
(*                                                                         *)
(* The other validators are those of SimplexSession.                       *)
(***************************************************************************)
EXTENDS SimplexVoter, SimplexJournal

CONSTANTS
  InitialNets,  \* what the validators may have signed at the start
  PeerBallots,  \* bound: PeerBallots[n] is what peer n may come to sign
  Senders,      \* bound: the peers whose votes reach this validator one by one
  Proposed,     \* bound: the candidates that reach this validator
  MaxInFlight,  \* bound: writes awaited by an engine that takes a new input
  MaxCrashes    \* bound: the number of crashes

VARIABLES
  pool, voter, journal,
  phase,     \* "down", "certs", "votes" or "up"
  replay,    \* what Start has still to replay in this phase
  net,       \* net[n]: the votes that carry a signature of n
  received,  \* history: votes whose certificate this engine ever applied
  crashes    \* the number of crashes so far

vars == <<pool, voter, journal, phase, replay, net, received, crashes>>

Session == INSTANCE SimplexSession WITH signed <- net

Idle == phase = "up" /\ ~ Failed(pool) /\ pool.pending = <<>>

Open == Idle /\ Cardinality(journal.awaiting) < MaxInFlight

(***************************************************************************)
(* The end of every step: an announced window is observed by the voter at  *)
(* once, then votes, certificates and the window cursor go to the journal. *)
(* The store refuses a cursor that does not advance, which is fatal when   *)
(* the write completes; here the engine fails at once.                     *)
(***************************************************************************)
Step(p, t, j) ==
  LET announced == p.window # NoSlot
      observed == IF announced THEN voterWindowObserved(t, p.window) ELSE t
      records == [i \in DOMAIN t.cast |-> VoteRecord(t.cast[i])]
                   \o [i \in DOMAIN p.toSave |-> CertRecord(p.toSave[i])]
                   \o (IF announced THEN <<CursorRecord(p.firstNonAnnouncedWindow)>> ELSE <<>>)
      stuck == announced
                 /\ p.firstNonAnnouncedWindow <= FirstNonAnnouncedWindow(Accepted(j))
      q == IF stuck THEN fatal(p, "window cursor does not advance") ELSE p
  IN  /\ pool' = [q EXCEPT !.window = NoSlot, !.toSave = <<>>]
      /\ voter' = [observed EXCEPT !.cast = <<>>]
      /\ journal' = IF Failed(q) THEN j ELSE Save(j, records)

-----------------------------------------------------------------------------
(***************************************************************************)
(* Start, and the crash that makes it necessary.                           *)
(***************************************************************************)
Init ==
  /\ pool = EmptyPool
  /\ voter = bootstrapVoter({}, 0)
  /\ journal = EmptyJournal
  /\ phase = "down"
  /\ replay = {}
  /\ net \in InitialNets
  /\ received = {}
  /\ crashes = 0

(* Mutant: the window cursor is not restored.                              *)
BootstrapWithoutCursor ==
  /\ phase = "down"
  /\ phase' = "certs"
  /\ pool' = addAvailableBase(EmptyPool, 0, Genesis)
  /\ voter' = bootstrapVoter(OurVotes(journal.durable), 0)
  /\ replay' = Certificates(journal.durable)
  /\ UNCHANGED <<journal, net, received, crashes>>

Bootstrap ==
  LET window == FirstNonAnnouncedWindow(journal.durable) IN
  /\ phase = "down"
  /\ phase' = "certs"
  /\ pool' = addAvailableBase([EmptyPool EXCEPT !.firstNonAnnouncedWindow = window], 0, Genesis)
  /\ voter' = bootstrapVoter(OurVotes(journal.durable), window)
  /\ replay' = Certificates(journal.durable)
  /\ UNCHANGED <<journal, net, received, crashes>>

ReplayCertificate ==
  \E r \in replay :
    /\ phase = "certs" /\ ~ Failed(pool)
    /\ replay' = replay \ {r}
    /\ pool' = IF ~ Tracked(pool, SlotOf(r.vote)) THEN pool
               ELSE IF ~ needs(pool, r.vote) THEN fatal(pool, "journal holds duplicate certificate")
               ELSE storeSavedCertificate(pool, r.vote)
    /\ received' = received \cup {r.vote}
    /\ UNCHANGED <<voter, journal, phase, net, crashes>>

(* Mutant: the own votes are not replayed.                                 *)
CertificatesReplayedOnly ==
  /\ phase = "certs" /\ ~ Failed(pool) /\ replay = {}
  /\ phase' = "votes"
  /\ UNCHANGED <<replay, pool, voter, journal, net, received, crashes>>

CertificatesReplayed ==
  /\ phase = "certs" /\ ~ Failed(pool) /\ replay = {}
  /\ phase' = "votes"
  /\ replay' = OurVotes(journal.durable)
  /\ UNCHANGED <<pool, voter, journal, net, received, crashes>>

Sign(v) == net' = [net EXCEPT ![Me] = @ \cup {v}]

ReplayVote ==
  \E v \in replay :
    /\ phase = "votes" /\ ~ Failed(pool) /\ pool.pending = <<>>
    /\ replay' = replay \ {v}
    /\ IF Tracked(pool, SlotOf(v))
       THEN Sign(v) /\ Step(applyVote(pool, Me, v, TRUE), voter, journal)
       ELSE UNCHANGED <<net, pool, voter, journal>>
    /\ UNCHANGED <<phase, received, crashes>>

FinishStart ==
  /\ phase = "votes" /\ ~ Failed(pool) /\ pool.pending = <<>> /\ replay = {}
  /\ phase' = "up"
  /\ Step(advancePresent([pool EXCEPT !.started = TRUE]),
          castStartupWindowSkips(voter, pool.firstNonAnnouncedWindow), journal)
  /\ UNCHANGED <<replay, net, received, crashes>>

Crash ==
  /\ phase # "down" /\ crashes < MaxCrashes
  /\ crashes' = crashes + 1
  /\ phase' = "down"
  /\ \E k \in 0..Len(journal.tail) : journal' = Recover(journal, k)
  /\ pool' = EmptyPool
  /\ voter' = bootstrapVoter({}, 0)
  /\ replay' = {}
  /\ UNCHANGED <<net, received>>

-----------------------------------------------------------------------------
(***************************************************************************)
(* The delivery of the deferred notifications, in order.                   *)
(***************************************************************************)
Note == Head(pool.pending)

Deliver(type, observed) ==
  /\ phase \in {"votes", "up"} /\ pool.pending # <<>>
  /\ Note.type = type
  /\ Step([pool EXCEPT !.pending = Tail(@)], observed, journal)
  /\ UNCHANGED <<phase, replay, net, received, crashes>>

DeliverNotarized == Deliver("notarized", voterNotarizationObserved(voter, Note.id))

DeliverFinalized == Deliver("finalized", voterFinalizationObserved(voter, Note.id))

DeliverParentDone ==
  Deliver("parentDone", onParentWaitDone(voter, Note.id, Note.outcome))

-----------------------------------------------------------------------------
(***************************************************************************)
(* The network.                                                            *)
(***************************************************************************)
firstTooNewSlot == (pool.now \div spw + MaxLeaderWindowDesync + 1) * spw

wants(p, n, v) == ~ \E u \in Recorded(p, n) : SameCert(u, v)

PeerSign(n, v) ==
  /\ Session!Sign(n, v)
  /\ UNCHANGED <<pool, voter, journal, phase, replay, received, crashes>>

ReceiveVote(n, v) ==
  /\ Open
  /\ SlotOf(v) < firstTooNewSlot /\ Tracked(pool, SlotOf(v)) /\ wants(pool, n, v)
  /\ Step(applyVote(pool, n, v, FALSE), voter, journal)
  /\ UNCHANGED <<phase, replay, net, received, crashes>>

(* A certificate is accepted from any peer, and from any number of slots   *)
(* ahead.  It may hold any quorum of the signatures that exist.            *)
ReceiveCertificate(v) ==
  /\ Open
  /\ Tracked(pool, SlotOf(v)) /\ needs(pool, v)
  /\ \E S \in SUBSET Session!SignersOf(v) :
       /\ IsQuorum(S)
       /\ Step(handleCertificate(pool, [vote |-> v, signers |-> S]), voter, journal)
  /\ UNCHANGED <<phase, replay, net, received, crashes>>

-----------------------------------------------------------------------------
(***************************************************************************)
(* Candidates, the services that store and validate them, and the alarm.   *)
(***************************************************************************)
SubmitCandidate(c) ==
  /\ Open /\ c \in Proposed /\ Acceptable(voter, c)
  /\ Step(registerParentWait(pool, c), acceptCandidate(voter, c), journal)
  /\ UNCHANGED <<phase, replay, net, received, crashes>>

InPipeline(c) == Voted(voter, c.slot) /\ voter.slots[c.slot].pending = c

CandidateStored(c) ==
  /\ Open /\ InPipeline(c) /\ voter.slots[c.slot].storeInFlight
  /\ Step(pool, completeStore(voter, c), journal)
  /\ UNCHANGED <<phase, replay, net, received, crashes>>

CandidateStoreFails(c) ==
  /\ Open /\ InPipeline(c) /\ voter.slots[c.slot].storeInFlight
  /\ pool' = fatal(pool, "service failure")
  /\ UNCHANGED <<voter, journal, phase, replay, net, received, crashes>>

CandidateValidated(c, accepted) ==
  /\ Open /\ InPipeline(c) /\ voter.slots[c.slot].validationInFlight
  /\ Step(pool, completeValidation(voter, c, accepted), journal)
  /\ UNCHANGED <<phase, replay, net, received, crashes>>

(* An alarm for a slot above MaxSlot is outside the bounds of the model.   *)
VoterAlarm ==
  /\ Open /\ voter.alarmArmed /\ voter.timeoutSlot - 1 \in Slots
  /\ Step(pool, fireVoterAlarm(voter), journal)
  /\ UNCHANGED <<phase, replay, net, received, crashes>>

-----------------------------------------------------------------------------
(***************************************************************************)
(* The completions of the journal, in any order.  An own vote is signed,   *)
(* applied and sent when it is durable, never before.                      *)
(***************************************************************************)
VoteDurable(r) ==
  /\ Idle /\ r.type = "vote"
  /\ Sign(r.vote)
  /\ Step(applyVote(pool, Me, r.vote, FALSE), voter, Complete(journal, r))
  /\ UNCHANGED <<phase, replay, received, crashes>>

CertificateSaved(r) ==
  /\ Idle /\ r.type = "cert"
  /\ received' = received \cup {r.vote}
  /\ Step(finishCertificateSave(pool, r), voter, Complete(journal, r))
  /\ UNCHANGED <<phase, replay, net, crashes>>

WindowSaved(r) ==
  /\ Idle /\ r.type = "cursor"
  /\ journal' = Complete(journal, r)
  /\ UNCHANGED <<pool, voter, phase, replay, net, received, crashes>>

(* A write or the signing of a vote fails: the session fails closed.       *)
SaveFails ==
  /\ Idle /\ journal.awaiting # {}
  /\ pool' = fatal(pool, "service failure")
  /\ UNCHANGED <<voter, journal, phase, replay, net, received, crashes>>

-----------------------------------------------------------------------------
Start ==
  Bootstrap \/ ReplayCertificate \/ CertificatesReplayed \/ ReplayVote \/ FinishStart

Drain == DeliverNotarized \/ DeliverFinalized \/ DeliverParentDone

Completion ==
  \E r \in journal.awaiting : VoteDurable(r) \/ CertificateSaved(r) \/ WindowSaved(r)

Receive == \E v \in Session!Certified : ReceiveCertificate(v)

Next ==
  \/ Start
  \/ Drain
  \/ Completion
  \/ \E n \in Validators \ (Faulty \cup {Me}) : \E v \in PeerBallots[n] : PeerSign(n, v)
  \/ \E n \in Senders : \E v \in net[n] : ReceiveVote(n, v)
  \/ Receive
  \/ \E c \in Candidates :
       \/ SubmitCandidate(c)
       \/ CandidateStored(c)
       \/ CandidateStoreFails(c)
       \/ \E accepted \in BOOLEAN : CandidateValidated(c, accepted)
  \/ VoterAlarm
  \/ SaveFails
  \/ Crash

Spec == Init /\ [][Next]_vars

(***************************************************************************)
(* Fairness.  Start and drainPending are loops of the running process, an  *)
(* accepted write is completed by the store, and the runner sleeps no      *)
(* longer than NextWakeup.  Nothing is assumed of peers and services.  The *)
(* enabling conditions are spelled out for TLC: each implies that the      *)
(* action is enabled and changes the state.                                *)
(***************************************************************************)
CanStart ==
  phase # "up" /\ (phase = "down" \/ ~ Failed(pool)) /\ (phase = "votes" => pool.pending = <<>>)

CanDrain == phase \in {"votes", "up"} /\ pool.pending # <<>>

CanComplete == Idle /\ journal.awaiting # {}

CanFire == Open /\ voter.alarmArmed /\ voter.timeoutSlot - 1 \in Slots

Fairness ==
  /\ []<> (~ CanStart) \/ []<> <<Start>>_vars
  /\ []<> (~ CanDrain) \/ []<> <<Drain>>_vars
  /\ []<> (~ CanComplete) \/ []<> <<Completion>>_vars
  /\ []<> (~ CanFire) \/ []<> <<VoterAlarm>>_vars

FairSpec == Spec /\ Fairness

(* Peers gossip every certificate they store and repeat it on standstill,  *)
(* so that one that exists is received in the end.                         *)
CanReceive == Open /\ \E v \in Session!Certified : Tracked(pool, SlotOf(v)) /\ needs(pool, v)

GossipSpec == FairSpec /\ ([]<> (~ CanReceive) \/ []<> <<Receive>>_vars)

-----------------------------------------------------------------------------
(***************************************************************************)
(* Properties.                                                             *)
(***************************************************************************)
TypeOK ==
  /\ DOMAIN pool = DOMAIN EmptyPool
  /\ pool.firstNonFinalized \in 0..MaxSlot + 1
  /\ pool.now \in 0..MaxSlot + 1
  /\ pool.certs \cup pool.saving \subseteq Votes
  /\ pool.direct \in [Validators -> SUBSET Votes]
  /\ pool.extracted \in [Validators -> SUBSET Votes]
  /\ pool.skipRuns \subseteq 1..MaxSlot + 1
  /\ pool.availableBase \in [0..MaxSlot + 1 -> Parents \cup {Nil}]
  /\ pool.window = NoSlot /\ pool.toSave = <<>> /\ voter.cast = <<>>
  /\ \A s \in Slots : DOMAIN voter.slots[s] = DOMAIN EmptySlot
  /\ phase \in {"down", "certs", "votes", "up"}
  /\ net \in [Validators -> SUBSET Votes]
  /\ received \subseteq Votes
  /\ crashes \in 0..MaxCrashes

(* Across crashes, the votes handed to the journal never contradict each   *)
(* other: the flags restored by bootstrapVoter, the skips it reserves and  *)
(* the order-free completions leave no path to a second intent.            *)
JournalConsistent == ConflictFree(OurVotes(Accepted(journal)))

(* A signature never exists without a durable intent behind it, so that no *)
(* crash makes the validator forget what it signed (the journal contract   *)
(* "journal -> sign -> apply -> send" of finishVoteCast).                  *)
SignedVotesDurable == net[Me] \subseteq OurVotes(journal.durable)

(* A certificate handed to the journal verifies from the outside, also the *)
(* ones seal only attests: it holds existing signatures for its vote, of   *)
(* more than two thirds of the weight.                                     *)
SealedCertificatesVerify ==
  \A r \in Certificates(Accepted(journal)) :
    /\ r.signers \subseteq Session!SignersOf(r.vote)
    /\ 3 * WeightOf(r.signers) > 2 * WeightOf(Validators)

(* While less than a third of the weight is faulty the engine only fails   *)
(* when a service fails: none of its internal errors and consensus         *)
(* violations is reachable, on the replay path of Start included.          *)
NoInternalFatal == pool.fatalErr \in {"none", "service failure"}

(* No validator that follows the protocol is ever reported for             *)
(* contradicting votes, whatever the order in which its votes and the      *)
(* certificates holding them arrive.  That includes the local one.         *)
HonestNotAccused == pool.accused \subseteq Faulty

(* A leader is not reported for a candidate whose parent chain is settled  *)
(* by existing certificates, unless it proposed another candidate in the   *)
(* slot and that one is notarized.                                         *)
HonestLeaderNotBlamed ==
  \A i \in DOMAIN pool.pending :
    LET note == pool.pending[i] IN
    (note.type = "parentDone" /\ note.outcome = "misbehavior") =>
      \/ ~ ParentSettled(note.id, Session!Certified)
      \/ \E c \in Candidates \ {note.id} :
           c.slot = note.id.slot /\ NotarizeVote(c) \in Session!Certified

(* The run ends kept by onSkipCertificate and onFinalCertificate are       *)
(* exactly the ends of the maximal runs of skipped slots, in whatever      *)
(* order the skip certificates came.                                       *)
RunsExact ==
  pool.skipRuns =
    {s \in 1..MaxSlot + 1 : SkipVote(s - 1) \in pool.certs /\ SkipVote(s) \notin pool.certs}

(* The parents a candidate of slot s may have, by the certificates held.   *)
Bases(s) ==
  {b \in {pool.lastFinalized} \cup {v.id : v \in {u \in pool.certs : u.kind = "notarize"}} :
     b.slot < s /\ \A t \in Slots : b.slot < t /\ t < s => SkipVote(t) \in pool.certs}

(* The base of a slot that is not skipped is the highest of the parents it *)
(* may build on: a leader never builds on a stale base, and never lacks    *)
(* one it could know of.                                                   *)
BasesExact ==
  phase # "down" =>
    \A s \in pool.firstNonFinalized..MaxSlot + 1 :
      (SkipVote(s) \notin pool.certs) =>
        LET base == pool.availableBase[s] IN
        IF Bases(s) = {} THEN base = Nil
        ELSE base \in Bases(s) /\ \A b \in Bases(s) : ParentLeq(b, base)

(* A candidate waits for its parent chain only while the certificates held *)
(* do not settle it: no wakeup is lost.                                    *)
NoLostParentWait ==
  \A c \in pool.parentWaits :
    ~ ParentSettled(c, pool.certs \cup {FinalizeVote(pool.lastFinalized)})

(* The engine, through crashes and restarts, keeps the promise that        *)
(* SimplexSession relies on: it signs a vote only if nothing it ever       *)
(* signed contradicts it, a notarization only on a settled parent chain, a *)
(* finalization only over a notarization.                                  *)
Signer == INSTANCE SimplexSigner WITH learned <- received, mine <- net[Me]

ImplementsSigner == Signer!Spec

(* Liveness: a durable intent is not forgotten.  In the end the vote is    *)
(* signed, by the completion of its write or by the replay after a crash,  *)
(* unless its slot is finalized first or the session fails.                *)
DurableVoteSigned ==
  \A v \in Votes :
    VoteRecord(v) \in journal.durable ~>
      (v \in net[Me] \/ ~ Tracked(pool, SlotOf(v)) \/ Failed(pool))

(* Liveness: an engine whose present slot is settled nowhere in the        *)
(* network does not wait forever.  Alarm or recovery make it sign a skip,  *)
(* unless it signed a finalization, so that the group can get past a slot  *)
(* whose leader is silent.                                                 *)
StallAnswered ==
  \A s \in Slots :
    (phase = "up" /\ pool.now = s) ~>
      (\/ \E v \in net[Me] : v.kind # "notarize" /\ SlotOf(v) = s
       \/ \E v \in Session!Certified : v.kind # "finalize" /\ SlotOf(v) = s
       \/ phase # "up" \/ Failed(pool))

(* Liveness: with every slot settled in the network, the present slot of   *)
(* an engine that only receives certificates passes them all, whatever     *)
(* their order and the pruning in between.                                 *)
CatchesUp == <>[](pool.now = MaxSlot + 1 \/ Failed(pool))
=============================================================================
