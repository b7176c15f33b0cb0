# Verification of the gton node

gton is a TON node in Go: it synchronizes the masterchain and the shards,
serves them, and takes part in validation. This directory holds TLA+ models of
it, TLC configurations, and proofs checked by TLAPS. The models start where a
mistake costs most and tests reach least: the Simplex consensus a validator
runs for every validator group, with its vote journal and crash recovery.

1. [Inventory](#1-inventory)
2. [The consensus code](#2-the-consensus-code)
3. [Modules and how they correspond to the code](#3-modules-and-how-they-correspond-to-the-code)
4. [Runs](#4-runs)
5. [Bounds and abstractions](#5-bounds-and-abstractions)
6. [Fairness](#6-fairness)
7. [Proofs](#7-proofs)
8. [What is not modelled](#8-what-is-not-modelled)
9. [Plan](#9-plan)

To repeat everything, in this directory:

    tlc -workers 2 -config EngineSlot.cfg MCSimplexEngine
    tlapm SimplexSessionProofs.tla

`PROJECT.json` lists every run with its module and configuration, the source
lines behind every definition, the hazards of the code, and for each property a
change of the model, of the kind a programming error would make, that breaks
the property.

## 1. Inventory

Paths are relative to `src/`. "Hard" names the behaviours that tests hardly
reach, "Right" what makes the component correct.

### Validation (`service/validator`)

| Component | State and operations | Hard | Right |
|---|---|---|---|
| Simplex engine `simplex/engine.go`, `pool.go`, `voter.go`, `slots.go` | votes and certificates per slot, skip runs, bases, parent waits, voting flags, alarm; start, messages, candidates, timers, journal completions | free order of messages, completions and timers; crash between journaling, signing and sending | never signs contradicting votes, never fails on its own, keeps moving |
| Consensus journal `pebblestore/journal.go`, `store.go` | reservations, cached bootstrap state, one write FIFO with two durability classes; save vote, certificate, cursor; bootstrap | what a crash keeps; scans beside writes; a failed batch | a completed vote survives every crash; a restart sees every vote that may have been signed |
| Runner `simplex/runner.go` | two queues, wake token, stop flag; post, do, batch, stop | stop racing callers; batches and wakeups | every posted function runs once or the caller learns that it did not; nothing sleeps on work |
| Supervisor `supervisor.go` | desired, preparing, managed and retrying sessions; reconcile, results, retries | results of superseded preparations; failing cleanup; waiting for a run that reports | one runtime per session; every runtime closed; retire only what is gone |
| Reaper `session_reaper.go` | watermarks, failures, pending request; pass, cancel | claims copied before the pass | no vote journal of a session in use is deleted; superseded ones are in the end |
| Session runtime `session_runtime.go`, `local_session_backend.go` | window queue, progress, own candidates; run, update, close, validate, store | latest-window-wins queues; work that outlives its window | a leader produces on the announced base; a candidate is answered once |
| Candidate resolver `candidate_resolver.go` | entries, flights, retention budget; stage, resolve, serve, release | flights shared by waiters with different deadlines; release beside serving | a stored candidate is served; a released one is durable |
| State resolver `state_resolver.go`, acceptance `block_acceptance.go` | speculative states, prepared acceptances | finalization overtaking speculation | states belong to their candidate; blocks accepted in chain order |
| Consensus observer `consensus_observer.go` | observer sessions and their recovery | as for the supervisor | as for the supervisor |
| Groups `groups/tracker.go` | snapshot of active and future sessions, retained history; apply, project | transient topology; promotion | a session is active or future, never both; nothing in use is forgotten |
| Message pool `msgpool` | external messages with quarantine, retries and expiry; streams; internal queues | included, rejected and expired at once; concurrent collations | a message is offered while it may be included, and not twice by one collation |
| Network, keyring, control, statistics | transport, key files, operator requests, counters | transport only | not stated here |
| Collator `collator` | builds and verifies blocks | cell level semantics | out of a model checker's reach |

### Synchronization and storage (`service`)

| Component | State and operations | Hard | Right |
|---|---|---|---|
| Sync coordinator and pipelines `sync_coordinator.go`, `next_sync_pipeline.go`, `catchup_*.go` | current and staged state; download, apply, commit, flush | stages running ahead of the flushed state | committed states form one chain; a restart resumes from a flushed one |
| Prewriters `prewriter.go`, `state_cell_prewriter.go`, `artifact_prewriter.go` | job queue, bytes, written mark, error; enqueue, wait, pop, mark, fail, close | waiters at the limit, failure and shutdown | no waiter sleeps forever; success means written |
| Master prepare flight `master_prepare_flight.go` | calls by block; do | failure and cancelled waiters | a result belongs to its block; failures are not kept |
| Broadcast admission `broadcast_admission.go` | live and flushed masterchain seqno, closed; observe | states observed out of order | hysteresis: closed only while the flush lags |
| Maintenance `maintenance_runner.go`, `exclusive_task.go` | exclusive task; begin, release | limits checked outside the lock | one exclusive task at a time |
| Cell generations `cell_generation_*.go`, `state_lifecycle.go` | active and candidate generation, switch flags; migrate, catch up, switch, stop | the current state moves during migration; crash in between | the active generation always holds the current state |
| State serializer, archive import, block application | jobs, packages, shard states | checkpoints and restarts | resumed work equals uninterrupted work |
| Storage `storage/pebblestore` | pack journal, generations, metadata | crash between files and database | the database refers only to complete files |
| Live view, block proofs, state, shard | read side and pure parsing | single flights in the live view | answers belong to one state |

### Network, APIs and the rest

| Component | State and operations | Hard | Right |
|---|---|---|---|
| Peer-to-peer node `service/p2p` | subscriptions, peers, broadcast caches and waiters | duplicates and late waiters | a block is delivered to its waiters once |
| Plumtree `service/p2p/plumtree_*.go` | eager and lazy links, parts, repairs | repair racing delivery; limits | every announced part is delivered or repaired |
| Rate limiter `internal/ratelimit` | one instant per key; allow, prune | lock-free pruning | no more than the burst is admitted |
| APIs, console, genesis, node composition | request handling and wiring | start and stop order | not stated here |

How they interact: the sync pipelines apply masterchain blocks; the group
tracker derives validator groups from them; the supervisor prepares and runs a
session per group; a session is a runtime around one engine, its runner and its
journal; the engine's finalizations go through block acceptance back to the
sync pipelines.

## 2. The consensus code

A group of validators agrees on a chain of candidates over slots. The slots
come in leader windows of `spw` slots. For each slot a validator may sign
*notarize* (a candidate), *finalize* (a notarized candidate) and *skip*. Votes of more
than two thirds of the weight make a certificate. A candidate names its
parent; it may be notarized when the parent is notarized or finalized and every
slot in between is skipped. `validatorVotes` says which votes of one validator
contradict each other: a notarization and a skip do not, a finalization and a
skip do.

One engine handles one input at a time. Its parts are

- the *pool*: votes and certificates, the present slot, the base each slot
  builds on, the candidates that wait for their parents;
- the *voter*: per slot what was voted, the candidate in the pipeline (store
  and validation run beside each other), and the alarm that skips;
- the *journal*: a vote is journaled, and signed, applied and sent only when
  the write completes. Certificates and the cursor of announced windows are
  written too, but a restart may lose them.

After a restart the engine restores the voting flags, reserves skips for the
window it may have been leading, replays certificates, then its votes.

## 3. Modules and how they correspond to the code

| Module | Models | Extends |
|---|---|---|
| `SimplexBase` | ids, votes, contradiction (`validatorVotes.add`), threshold, settled parents, the promise `MaySign` | - |
| `SimplexSession` | a whole group at the level of signatures | `SimplexBase` |
| `SimplexSessionProofs` | its theorems | `SimplexSession` |
| `SimplexSigner` | abstract: what one honest validator promises | `SimplexBase` |
| `SimplexPool` | `pool.go`, `slots.go` | `SimplexBase` |
| `SimplexVoter` | `voter.go` | `SimplexPool` |
| `SimplexJournal` | what `pebblestore/journal.go` and `store.go` promise the engine | `SimplexBase` |
| `SimplexEngine` | `engine.go`: the composition, the network, the services, crash and restart | `SimplexVoter`, `SimplexJournal` |
| `MCSimplexSession`, `MCSimplexEngine`, `MCSimplexTally` | instances for TLC | |

**Group.** `SimplexSession` has one variable, the votes each validator has
signed. An honest validator signs only what `MaySign` allows: nothing that
contradicts a vote it signed, a notarization only on a settled parent chain, a
finalization only over a notarization certificate. Faulty validators have
signed everything from the start, which is the worst they can do because
signatures cannot be taken back. Certificates are whatever sets of signatures
reach the threshold.

**Engine.** `SimplexEngine` shows that one validator keeps that promise. It
composes `pool`, `voter` and `journal` (records whose fields are those of the
Go structs) with `phase` and `replay` (how far `Start` is), `net` (who signed
what), `received` (history of certificates) and `crashes`. Methods that run to
completion on the engine's goroutine are functions from one state to the next
(`handleCertificate`, `tryVoteFinal`, ...); an action applies the whole
handler, and `Step` then hands the cast votes, the certificates to save and
the announced window to voter and journal, as the code does at the end of a
handler. Notifications that the code defers with `enqueue` are delivered one by
one by the `Deliver` actions, before the next input.

| Action | Code |
|---|---|
| `Bootstrap`, `ReplayCertificate`, `CertificatesReplayed`, `ReplayVote`, `FinishStart` | `Engine.Start` |
| `DeliverNotarized`, `DeliverFinalized`, `DeliverParentDone` | `drainPending` with `voterNotarizationObserved`, `voterFinalizationObserved`, `onParentWaitDone` |
| `ReceiveVote`, `ReceiveCertificate` | `handleMessage` |
| `SubmitCandidate` | `SubmitCandidate`, `acceptCandidate`, `registerParentWait` |
| `CandidateStored`, `CandidateStoreFails`, `CandidateValidated` | `completeStore`, `completeValidation` |
| `VoterAlarm` | `fireVoterAlarm` |
| `VoteDurable`, `CertificateSaved`, `WindowSaved`, `SaveFails` | the completions given to the journal: `finishVoteCast`, `finishCertificateSave`, the cursor's callback |
| `PeerSign` | another validator, a step of `SimplexSession` |
| `Crash` | the process ends; the journal keeps its durable records and any prefix of the others |

**Journal.** The store writes one FIFO of records to one log. A vote's
completion waits for a sync, which covers everything accepted before it;
certificates and cursors complete without one. So a crash keeps a prefix of the
accepted records that includes every completed vote.

**Abstraction and refinement.** `ImplementsSigner` checks that the engine,
through crashes, refines `SimplexSigner` (`learned <- received`,
`mine <- net[Me]`), and `SimplexSession` is what any number of such signers can
do. The theorems about `SimplexSession` are therefore about groups of such
engines.

## 4. Runs

| Run | Instance | States | Checks |
|---|---|---|---|
| `session` | 4 validators, 1 faulty, 3 slots, 3 candidates | 19 k | `TypeOK`, `CertificatesCompatible`, `Agreement`, `CertificatesJustified` |
| `engine_slot` | 1 slot, 2 candidates, any writes in flight, 2 crashes | 322 k | `TypeOK`, `JournalConsistent`, `SignedVotesDurable`, `NoInternalFatal`, `ImplementsSigner` |
| `engine_chain` | 2 slots, a fork, 2 writes in flight | 944 k | `HonestLeaderNotBlamed`, `NoLostParentWait`, `ImplementsSigner` |
| `engine_restart` | 2 slots of one window, a candidate for the first, 1 crash | 308 k | `JournalConsistent`, `NoInternalFatal`, `ImplementsSigner` |
| `engine_runs` | 4 slots, 2 windows, certificates only | 393 k | `RunsExact`, `BasesExact`, `NoInternalFatal` |
| `engine_tally` | 4 validators of equal weight, 1 faulty, 1 slot | 666 k | `SealedCertificatesVerify`, `HonestNotAccused` |
| `engine_alarm` | 2 slots, 1 crash, every behaviour of the rest | 74 k | `StallAnswered` (liveness) |
| `engine_intent` | 1 slot, 1 crash | 48 k | `DurableVoteSigned` (liveness) |
| `engine_catchup` | 3 slots, certificates only | 229 k | `CatchesUp` (liveness) |

What they show:

- *Signing.* Whatever the order of alarm, certificates, candidate pipeline,
  completions, crashes and replay, the journal never holds contradicting votes,
  no signature exists without a durable record, and every signature is within
  the promise. Reserving the recovery skips before the certificate replay is
  what makes this true: without it the engine finalizes a replayed slot and
  then skips it.
- *Pool.* The incrementally kept run ends and bases equal their definition for
  every order of certificates, with pruning in between; waiting candidates are
  woken; an honest leader or validator is not blamed; certificates that the
  engine seals without verification do verify.
- *Failing closed.* The engine's internal errors are unreachable while less
  than a third of the weight is faulty. Only a failing service stops a session.
- *Progress.* A silent leader is answered by a skip, a durable vote is signed
  in the end, an engine fed with certificates catches up.

No run shows the code to differ from what its comments say.

## 5. Bounds and abstractions

Every bound is a constant: `MaxSlot`, `Candidates`, `Proposed` (candidates that
reach the engine), `Senders` (peers whose votes arrive one by one),
`PeerBallots`, `MaxInFlight` (writes an engine may await when it takes a new
input) and `MaxCrashes`.

- *Slots.* Contradictions are within a slot, so one slot with two candidates
  has all of them. Two slots have a parent, a gap and a window whose slots are
  skipped together. Four slots in two windows have adjacent and separate skip
  runs, runs that merge and a finalization that prunes a run.
- *The rest of the group.* Except in `engine_tally` the others are folded into
  one honest peer whose weight is a quorum. What it signed is chosen in the
  initial state among everything the promise allows; the engine may receive any
  part of it, at any time. Since an engine's guards only grow weaker with what
  it has received, the largest choices suffice for safety; the stall property,
  which is about votes that do not exist, uses all of them.
  `engine_tally` counts single votes of equal weight.
- *Writes in flight.* In `engine_slot` the bound of nine never binds. With two
  slots it is one or two, so orders of more outstanding writes across slots are
  not explored. Completions that are already awaited come in any order, and a
  handler may add several writes at once.
- *View.* When no crash can follow, the order and durability of records cannot
  matter, except to `SignedVotesDurable`. `MCView` forgets them but for that
  property's value.
- *Symmetry.* Honest validators of equal weight are interchangeable in
  `session` and `engine_tally`. No liveness run uses symmetry or a view.
- *Time* is abstract: an armed alarm may fire at any moment.
- *Deadlock* is not checked: a failed session stops by design, and an engine
  that has seen everything within the bounds has nothing left to do. What must
  happen is stated by the liveness properties instead.
- *Signatures* are never forged, and hashes commit to the parent.

## 6. Fairness

`FairSpec` assumes of the code only what its loops do: `Start` and the draining
of notifications go on while they can, an accepted write is completed, an armed
alarm fires. The runner sleeps no longer than `NextWakeup`, and the store's
writer completes every accepted request. Nothing is assumed of peers, of the
candidate services or of the network. `GossipSpec`, for `CatchesUp` only, adds
that a certificate that exists is received in the end: peers send every
certificate they store, and repeat them on standstill. The conditions are
written with explicit guards, each of which implies that the action can be
taken, because TLC evaluates `ENABLED` of these actions too slowly.

## 7. Proofs

`SimplexSessionProofs` proves, for every roster, weight function, set of
candidates and number of slots:

| Theorem | States |
|---|---|
| `SessionTypeCorrect` | `Spec => []TypeOK` |
| `SessionCompatible` | no two certificates contradict each other |
| `SessionJustified` | a finalized candidate is notarized, a notarized one has a settled parent chain |
| `SessionAgreement` | whatever is certified at or above a finalized candidate descends from it |

*Assumptions*, all in `SimplexBase` and evaluated by TLC in every run:
`SlotAssumption`, `CandidateAssumption` (a parent is in an earlier slot, which
`Candidate.ValidateShape`, `candidate.go:159`, enforces), `FaultAssumption` (less
than a third of the weight is faulty), and `WeightAssumption`. The last one
includes that the weight of disjoint sets adds up. That is a fact about sums
over finite sets, whose proof needs an induction that is out of the prover's
reach.

*Argument.* The properties are about certificates and are not inductive: they
say nothing of the single signatures a certificate is made of. The inductive
invariant `IInv` does: no honest validator has signed contradicting votes
(`HonestConsistent`), and every vote an honest validator signed is justified by
certificates that exist (`HonestJustified`). It is preserved because
certificates never disappear (`CertifiedMonotone`) and justification only gets
weaker. Two quorums share an honest validator (`QuorumsIntersect`), so what
holds between the votes of one honest validator holds between certificates.
For agreement, a certified candidate above a finalized one has a certified
parent that is not below it (`ParentNotBelow`): otherwise the finalized slot
would be skipped, which contradicts the finalization. Descent then follows by
the least slot at which it could fail (`LeastNatural`).

*Only model-checked*: everything about `SimplexEngine`, its refinement of
`SimplexSigner` included, and all liveness.

## 8. What is not modelled

Of the consensus code: bans, the broadcast precheck and the batching of
signature checks in `engine.go`; the standstill rebroadcast in `pool.go`; the
deadlines of the alarm and its adaptive timeout; observers, which never vote;
the writer, its batches and the bootstrap cache behind the journal, and a
restart within one process. `PROJECT.json` lists the hazards these carry, with
the line where each bites.

Of the rest of the node nothing is modelled yet. Three kinds of code will stay
out: what works on cells (collator, block proofs, Merkle updates, codecs),
whose states a model would have to invent; pure input and output (transport,
discovery, files, APIs); and metrics, logging and wiring.

## 9. Plan

In this order, most important first. Each module gets an abstract
specification where one is worth stating, runs on small instances, and theorems
where the invariant is inductive without recursion.

1. `PebbleJournal`: reservations, the write queue, batches of two durability
   classes, failed commits, the cached bootstrap scan, and a session restarted
   on the same journal object. It is to refine `SimplexJournal`, which becomes
   its abstract specification.
2. `SimplexIngress`, extending the engine: batched verification with the second
   gate, bans, broadcast precheck.
3. `SimplexGroup`: two or three engines with message loss and the standstill
   rebroadcast; liveness of a group with a silent leader, and the assumption of
   `GossipSpec` discharged.
4. `Runner`: queues, wake token, batches, stop. Nothing posted is lost or run
   twice; `do` answers truthfully; no sleep on work.
5. `Supervisor` and `Reaper`, composed: one runtime per session, all of them
   closed, no vote journal in use deleted, superseded ones deleted in the end.
6. `GroupTracker`: active and future sessions over masterchain states.
7. Small concurrent parts of the service: `Prewriter`, `ExclusiveTask`,
   `BroadcastAdmission`, `MasterPrepareFlight`, `RateLimiter`.
8. `CandidateResolver` and `SessionRuntime`: flights, retention, window queues.
9. `CellGeneration`: migration, catch-up and switch beside a moving current
   state, with crashes.
10. `MessagePool`, `Plumtree`, the sync pipeline's commit and flush.

Theorems planned: conflict-freedom of the journal and durability of signed
votes for `SimplexEngine`, with the inductive invariant that ties voting flags
to journaled votes; `ImplementsSigner` as a step simulation; the refinement of
`SimplexJournal` by `PebbleJournal`; mutual exclusion and no lost wakeup for
the small concurrent parts; for the reaper, that no claimed namespace is
deleted.
