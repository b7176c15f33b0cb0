--------------------------- MODULE SimplexJournal ---------------------------
(***************************************************************************)
(* The consensus journal of a session on the Pebble store: one FIFO of     *)
(* accepted records, written to one write-ahead log.  A journal is a       *)
(* record with these fields.                                               *)
(*   durable    the records known to be on stable storage                  *)
(*   tail       the accepted records after them, in order: written or not, *)
(*              a crash keeps a prefix of them                             *)
(*   awaiting   the records whose completion has not been delivered yet    *)
(* The completion of an own vote waits for an fsync of the log, which also *)
(* covers everything accepted before the vote.  Certificates and the       *)
(* window cursor complete without one.  Completions arrive in any order.   *)
(***************************************************************************)
EXTENDS SimplexBase, SequencesExt

VoteRecord(v) == [type |-> "vote", vote |-> v]

CertRecord(cert) == [type |-> "cert", vote |-> cert.vote, signers |-> cert.signers]

CursorRecord(w) == [type |-> "cursor", window |-> w]

EmptyJournal == [durable |-> {}, tail |-> <<>>, awaiting |-> {}]

Accepted(j) == j.durable \cup ToSet(j.tail)

(* The saves of one step, in order.  A duplicate is not written again.     *)
(* The engine ignores the answer for a vote, which is applied by the       *)
(* completion of the original, and takes it as success for a certificate.  *)
Save(j, records) ==
  LET new == SelectSeq(records, LAMBDA r : r \notin Accepted(j))
  IN  [j EXCEPT
         !.tail = @ \o new,
         !.awaiting = @ \cup ToSet(new) \cup {r \in ToSet(records) : r.type = "cert"}]

(* Mutant: a vote completes like the other records, without a sync.        *)
CompleteUnsynced(j, r) == [j EXCEPT !.awaiting = @ \ {r}]

Complete(j, r) ==
  LET synced == IF r.type = "vote" THEN SelectInSeq(j.tail, LAMBDA x : x = r) ELSE 0
  IN  [ durable |-> j.durable \cup ToSet(SubSeq(j.tail, 1, synced)),
        tail |-> SubSeq(j.tail, synced + 1, Len(j.tail)),
        awaiting |-> j.awaiting \ {r} ]

(* What is left after a crash that the first k records of the tail survive. *)
Recover(j, k) ==
  [durable |-> j.durable \cup ToSet(SubSeq(j.tail, 1, k)), tail |-> <<>>, awaiting |-> {}]

-----------------------------------------------------------------------------
(***************************************************************************)
(* What Bootstrap reads back.                                              *)
(***************************************************************************)
OurVotes(R) == {r.vote : r \in {q \in R : q.type = "vote"}}

Certificates(R) == {r \in R : r.type = "cert"}

FirstNonAnnouncedWindow(R) == Max({0} \cup {r.window : r \in {q \in R : q.type = "cursor"}})
=============================================================================
