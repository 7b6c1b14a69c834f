-------------------------------- MODULE Outbox --------------------------------
(***************************************************************************)
(* The transactional outbox of one service (py-shared, events/outbox).     *)
(*                                                                         *)
(* A business transaction inserts its event as an outbox row; the row      *)
(* becomes visible when that transaction commits.  Publishers, one per     *)
(* replica of the service, claim visible rows with FOR UPDATE SKIP LOCKED, *)
(* publish them one by one on the bus, and record every outcome in ONE     *)
(* transaction that commits at the end of the batch.  The bus keeps what   *)
(* reached it in arrival order.                                            *)
(***************************************************************************)
EXTENDS Naturals, Sequences, FiniteSets

CONSTANTS
    Events,        \* the events of one correlation id
    Publishers,    \* replicas running an OutboxWorker
    MaxAttempts,   \* MAX_PUBLISH_ATTEMPTS
    BatchSize,     \* rows claimed at once
    MaxFaults      \* bound: crashes and lost replies in a behaviour

ASSUME OutboxAssumption ==
    /\ IsFiniteSet(Events)
    /\ MaxAttempts \in Nat \ {0}
    /\ BatchSize \in Nat \ {0}
    /\ MaxFaults \in Nat

VARIABLES
    row,        \* life of each event's row
    stamp,      \* created_at: the start time of the inserting transaction
    attempts,   \* failed publishes on record
    todo,       \* rows a publisher has claimed and not yet tried
    good,       \* rows of its open transaction the bus took
    bad,        \* rows of its open transaction whose publish raised
    stream,     \* what reached the bus, in order
    faults      \* crashes and lost replies so far

vars == <<row, stamp, attempts, todo, good, bad, stream, faults>>
batch == <<todo, good, bad>>

RowStates == {"absent", "open", "waiting", "published", "undone"}

Claimed(p) == todo[p] \cup good[p] \cup bad[p]

Earlier(d, e) == stamp[d] < stamp[e]

\* Copies(s, e): how often e occurs on the stream s.
Copies(s, e) == Cardinality({i \in 1..Len(s) : s[i] = e})

OnStream(e) == \E i \in 1..Len(stream) : stream[i] = e

Init ==
    /\ row = [e \in Events |-> "absent"]
    /\ stamp = [e \in Events |-> 0]
    /\ attempts = [e \in Events |-> 0]
    /\ todo = [p \in Publishers |-> {}]
    /\ good = [p \in Publishers |-> {}]
    /\ bad = [p \in Publishers |-> {}]
    /\ stream = <<>>
    /\ faults = 0

-------------------------------------------------------------------------------
(* The business transaction.                                               *)

\* enqueue: the row is added to the caller's transaction, which began now.
Enqueue(e) ==
    /\ row[e] = "absent"
    /\ row' = [row EXCEPT ![e] = "open"]
    /\ stamp' = [stamp EXCEPT ![e] = 1 + Cardinality({d \in Events : stamp[d] > 0})]
    /\ UNCHANGED <<attempts, batch, stream, faults>>

\* The transaction ends: its row appears, or never existed.
EndBusiness(e) ==
    /\ row[e] = "open"
    /\ \E outcome \in {"waiting", "undone"} : row' = [row EXCEPT ![e] = outcome]
    /\ UNCHANGED <<stamp, attempts, batch, stream, faults>>

-------------------------------------------------------------------------------
(* drain_once.                                                             *)

Locked(e) == \E p \in Publishers : e \in Claimed(p)

\* A mistake: the claim as a plain SELECT, blind to other replicas' locks.
ClaimIgnoringLocks(e) == row[e] = "waiting" /\ attempts[e] < MaxAttempts

\* What the claim asks for: unpublished, retries left, not locked by another.
Claimable(e) == row[e] = "waiting" /\ attempts[e] < MaxAttempts /\ ~Locked(e)

\* The oldest BatchSize rows of S, or all of S when there are fewer.
OldestOf(S, T) ==
    /\ T \subseteq S
    /\ Cardinality(T) <= BatchSize
    /\ Cardinality(T) = BatchSize \/ T = S
    /\ \A e \in T, d \in S \ T : Earlier(e, d)

Claim(p) ==
    /\ Claimed(p) = {}
    /\ \E T \in SUBSET Events :
         /\ T # {}
         /\ OldestOf({e \in Events : Claimable(e)}, T)
         /\ todo' = [todo EXCEPT ![p] = T]
    /\ UNCHANGED <<row, stamp, attempts, good, bad, stream, faults>>

\* The row the loop of p is at: claimed rows are tried oldest first.
NextRow(p, e) == e \in todo[p] /\ \A d \in todo[p] \ {e} : Earlier(e, d)

PublishOk(p, e) ==
    /\ NextRow(p, e)
    /\ todo' = [todo EXCEPT ![p] = @ \ {e}]
    /\ good' = [good EXCEPT ![p] = @ \cup {e}]
    /\ stream' = Append(stream, e)
    /\ UNCHANGED <<row, stamp, attempts, bad, faults>>

\* publish raised before the entry reached the bus: noted, next row.
PublishFails(p, e) ==
    /\ NextRow(p, e)
    /\ todo' = [todo EXCEPT ![p] = @ \ {e}]
    /\ bad' = [bad EXCEPT ![p] = @ \cup {e}]
    /\ UNCHANGED <<row, stamp, attempts, good, stream, faults>>

\* publish raised after the entry reached the bus: the reply was lost.
ReplyLost(p, e) ==
    /\ faults < MaxFaults
    /\ NextRow(p, e)
    /\ todo' = [todo EXCEPT ![p] = @ \ {e}]
    /\ bad' = [bad EXCEPT ![p] = @ \cup {e}]
    /\ stream' = Append(stream, e)
    /\ faults' = faults + 1
    /\ UNCHANGED <<row, stamp, attempts, good>>

Released(p) ==
    /\ todo' = [todo EXCEPT ![p] = {}]
    /\ good' = [good EXCEPT ![p] = {}]
    /\ bad' = [bad EXCEPT ![p] = {}]

\* A mistake: the attempt counter never advances, so a poisoned row stays.
NeverCounted(p, e) == attempts[e]

\* What the batch's commit writes on a row of p.
Marked(p, e) == IF e \in good[p] THEN "published" ELSE row[e]

Counted(p, e) == IF e \in bad[p] THEN attempts[e] + 1 ELSE attempts[e]

\* session_scope commits every mark of the batch at once.
CommitBatch(p) ==
    /\ Claimed(p) # {}
    /\ todo[p] = {}
    /\ row' = [e \in Events |-> Marked(p, e)]
    /\ attempts' = [e \in Events |-> Counted(p, e)]
    /\ Released(p)
    /\ UNCHANGED <<stamp, stream, faults>>

\* The process dies, the task is cancelled, or the commit fails: the
\* transaction rolls back and every mark of the batch with it.
LoseBatch(p) ==
    /\ faults < MaxFaults
    /\ Claimed(p) # {}
    /\ Released(p)
    /\ faults' = faults + 1
    /\ UNCHANGED <<row, stamp, attempts, stream>>

\* reset_stuck_events: an operator lets the exhausted rows be tried again.
Stuck(e) == row[e] = "waiting" /\ attempts[e] >= MaxAttempts

ResetStuck ==
    /\ \E e \in Events : Stuck(e)
    /\ attempts' = [e \in Events |-> IF Stuck(e) THEN 0 ELSE attempts[e]]
    /\ UNCHANGED <<row, stamp, batch, stream, faults>>

Publish(p) ==
    \/ Claim(p)
    \/ \E e \in Events : PublishOk(p, e) \/ PublishFails(p, e) \/ ReplyLost(p, e)
    \/ CommitBatch(p)
    \/ LoseBatch(p)

Done ==
    /\ \A e \in Events : row[e] \in {"published", "undone"}
    /\ \A p \in Publishers : Claimed(p) = {}
    /\ UNCHANGED vars

Next ==
    \/ \E e \in Events : Enqueue(e) \/ EndBusiness(e)
    \/ \E p \in Publishers : Publish(p)
    \/ ResetStuck
    \/ Done

\* OutboxWorker.run polls for ever, so every replica's loop keeps moving.
\* Nothing is assumed of the bus or the business.
Fairness == \A p \in Publishers : WF_vars(Publish(p))

Spec == Init /\ [][Next]_vars
\* reset_stuck_events is "an operator action, taken after the underlying
\* cause is fixed": it is not repeated for ever.
FairSpec == Spec /\ Fairness /\ <>[][~ResetStuck]_vars

-------------------------------------------------------------------------------
(* Properties.                                                             *)

TypeOK ==
    /\ row \in [Events -> RowStates]
    /\ stamp \in [Events -> Nat]
    /\ attempts \in [Events -> 0..MaxAttempts]
    /\ todo \in [Publishers -> SUBSET Events]
    /\ good \in [Publishers -> SUBSET Events]
    /\ bad \in [Publishers -> SUBSET Events]
    /\ stream \in Seq(Events)
    /\ faults \in 0..MaxFaults

\* "A rolled-back transaction emits nothing", and nothing is emitted before
\* its transaction commits; conversely a row marked published did reach the
\* bus.  This is the outbox's whole promise (enqueue, table.py; drain_once).
EmittedIffCommitted ==
    \A e \in Events :
        /\ OnStream(e) => row[e] \in {"waiting", "published"}
        /\ row[e] = "published" => OnStream(e)

\* Replicas drain concurrently "without double-publishing" (publisher.py):
\* every copy of an event after the first is paid for by a crash or a reply
\* the broker's connection lost.
DuplicatesComeFromFaults ==
    \A e \in Events : Copies(stream, e) <= 1 + faults

\* A row that is through stays through: whatever replicas hold, lose or retry, no
\* step takes a published row up again or emits another copy of its event, nor
\* one of a transaction that was rolled back (the claim asks for unpublished rows
\* only, and it is the row locks that keep its answer true until the commit).
FinishedIsFinal ==
    [][\A e \in Events : row[e] \in {"published", "undone"} =>
            row'[e] = row[e] /\ Copies(stream', e) = Copies(stream, e)]_vars

\* An event is dropped only into an operator's hands: whatever the business
\* committed is published or exhausts its attempts, whichever rows fail
\* around it and however replicas share the table (attempts cap, worker loop).
CommittedIsPublishedOrStuck ==
    \A e \in Events : row[e] = "waiting" ~> (row[e] = "published" \/ Stuck(e))
==============================================================================
