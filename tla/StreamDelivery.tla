---------------------------- MODULE StreamDelivery ----------------------------
(***************************************************************************)
(* Delivery of one event stream to its consumer groups: the Redis Streams  *)
(* bus (events/impl/redis_streams.py) with the idempotency records of      *)
(* events/idempotency.py, as the workers of alerting-svc and agent-svc use *)
(* them.                                                                   *)
(*                                                                         *)
(* A worker reads the next entries of its group, and for each one inserts  *)
(* the claim (group, event id), runs the handler, commits both, and only   *)
(* then acknowledges.  An exception anywhere ends its subscription.        *)
(***************************************************************************)
EXTENDS Naturals, Sequences, FiniteSets

CONSTANTS
    Events,        \* original events
    Groups,        \* consumer groups
    Safe,          \* the groups subscribed with side_effect_free = True
    Workers,       \* consumer processes
    GroupOf,       \* the group each subscribes for
    BatchSize,     \* entries one XREADGROUP returns at most
    MaxStream,     \* bound: entries added in a behaviour
    MaxFaults,     \* bound: subscriptions that end in an error
    Anyone         \* the target of an event that is not a replay

ASSUME DeliveryAssumption ==
    /\ Safe \subseteq Groups
    /\ GroupOf \in [Workers -> Groups]
    /\ BatchSize \in Nat \ {0}
    /\ MaxStream \in Nat
    /\ MaxFaults \in Nat
    /\ Anyone \notin Groups

VARIABLES
    stream,     \* entries: an event, and the group a replay was meant for
    created,    \* groups that exist
    read,       \* the last entry delivered to each group
    acked,      \* entries each group acknowledged
    pc,         \* what each worker is doing
    hand,       \* entries delivered to a worker and not finished, in order
    done,       \* committed idempotency records of each group
    written,    \* how often each group committed its writes for an event
    sent,       \* how often its handler acted on the outside world for it
    faults      \* subscriptions that ended so far

vars == <<stream, created, read, acked, pc, hand, done, written, sent, faults>>
bus == <<stream, created>>

IsReplay(i) == stream[i].target # Anyone

\* as_replay gives a replayed copy an event id of its own.
Id(i) == [event |-> stream[i].event, copy |-> IF IsReplay(i) THEN i ELSE 0]

Here(w) == Head(hand[w])

Holds(w, i) == \E k \in 1..Len(hand[w]) : hand[w][k] = i

Init ==
    /\ stream = <<>>
    /\ created = {}
    /\ read = [g \in Groups |-> 0]
    /\ acked = [g \in Groups |-> {}]
    /\ pc = [w \in Workers |-> "down"]
    /\ hand = [w \in Workers |-> <<>>]
    /\ done = [g \in Groups |-> {}]
    /\ written = [g \in Groups |-> [e \in Events |-> 0]]
    /\ sent = [g \in Groups |-> [e \in Events |-> 0]]
    /\ faults = 0

-------------------------------------------------------------------------------
(* What reaches the stream.                                                *)

Add(entry) ==
    /\ Len(stream) < MaxStream
    /\ stream' = Append(stream, entry)
    /\ UNCHANGED <<created, read, acked, pc, hand, done, written, sent, faults>>

\* XADD of a first delivery; an outbox may publish one event several times.
Publish(e) == Add([event |-> e, target |-> Anyone])

\* A replay asked for by group g puts a marked copy on the same stream.
Replay(i, g) == Add([event |-> stream[i].event, target |-> g])

-------------------------------------------------------------------------------
(* subscribe: the worker's loop.                                           *)

\* A process starts: the group is created at "$" unless it exists.
Subscribe(w) ==
    LET g == GroupOf[w] IN
    /\ pc[w] = "down"
    /\ pc' = [pc EXCEPT ![w] = "polling"]
    /\ created' = created \cup {g}
    /\ read' = IF g \in created THEN read ELSE [read EXCEPT ![g] = Len(stream)]
    /\ UNCHANGED <<stream, acked, hand, done, written, sent, faults>>

ReadTo(g) == IF read[g] + BatchSize < Len(stream) THEN read[g] + BatchSize ELSE Len(stream)

\* XREADGROUP with ">": entries no worker of the group was given.
Read(w) ==
    LET g == GroupOf[w] IN
    /\ pc[w] = "polling"
    /\ hand[w] = <<>>
    /\ read[g] < Len(stream)
    /\ hand' = [hand EXCEPT ![w] = [k \in 1..(ReadTo(g) - read[g]) |-> read[g] + k]]
    /\ read' = [read EXCEPT ![g] = ReadTo(g)]
    /\ UNCHANGED <<bus, acked, pc, done, written, sent, faults>>

\* A mistake: only the consumer a replay was not meant for refuses it.
RefusesMisdirected(g, i) == IsReplay(i) /\ g \notin Safe /\ stream[i].target # g

\* refuses_replay: a consumer with side effects takes no replayed event.
Refuses(g, i) == IsReplay(i) /\ g \notin Safe

Acknowledge(w, i) ==
    /\ acked' = [acked EXCEPT ![GroupOf[w]] = @ \cup {i}]
    /\ hand' = [hand EXCEPT ![w] = Tail(@)]

Refuse(w) ==
    /\ pc[w] = "polling"
    /\ hand[w] # <<>>
    /\ Refuses(GroupOf[w], Here(w))
    /\ Acknowledge(w, Here(w))
    /\ UNCHANGED <<bus, read, pc, done, written, sent, faults>>

\* A mistake: a SELECT for the record sees no uncommitted one.
SeesNoOther(w) == FALSE

\* A mistake: a worker locks every event of the batch it was given.
ContendedByBatch(w) ==
    \E v \in Workers \ {w} :
        GroupOf[v] = GroupOf[w] /\ \E k \in 1..Len(hand[v]) : Id(hand[v][k]) = Id(Here(w))

\* Another worker of the group holds an uncommitted record of the same event:
\* this INSERT waits for it.
Contended(w) ==
    \E v \in Workers \ {w} :
        /\ GroupOf[v] = GroupOf[w]
        /\ pc[v] \in {"handling", "acted"}
        /\ Id(Here(v)) = Id(Here(w))

AtClaim(w) ==
    /\ pc[w] = "polling"
    /\ hand[w] # <<>>
    /\ ~Refuses(GroupOf[w], Here(w))
    /\ ~Contended(w)

Recorded(w) == Id(Here(w)) \in done[GroupOf[w]]

\* once: the record is inserted first, then the handler runs.
Claim(w) ==
    /\ AtClaim(w)
    /\ ~Recorded(w)
    /\ pc' = [pc EXCEPT ![w] = "handling"]
    /\ UNCHANGED <<bus, read, acked, hand, done, written, sent, faults>>

\* once: a duplicate returns without touching anything.
Duplicate(w) ==
    /\ AtClaim(w)
    /\ Recorded(w)
    /\ pc' = [pc EXCEPT ![w] = "committed"]
    /\ UNCHANGED <<bus, read, acked, hand, done, written, sent, faults>>

\* The handler returns, having sent its message or found no one to send to.
Act(w) ==
    LET g == GroupOf[w]
        e == stream[Here(w)].event
    IN
    /\ pc[w] = "handling"
    /\ pc' = [pc EXCEPT ![w] = "acted"]
    /\ \E n \in {0, 1} : sent' = [sent EXCEPT ![g][e] = @ + n]
    /\ UNCHANGED <<bus, read, acked, hand, done, written, faults>>

\* The record and the handler's writes commit together.
Commit(w) ==
    LET g == GroupOf[w]
        i == Here(w)
    IN
    /\ pc[w] = "acted"
    /\ pc' = [pc EXCEPT ![w] = "committed"]
    /\ done' = [done EXCEPT ![g] = @ \cup {Id(i)}]
    /\ written' = IF IsReplay(i) THEN written
                  ELSE [written EXCEPT ![g][stream[i].event] = @ + 1]
    /\ UNCHANGED <<bus, read, acked, hand, sent, faults>>

Ack(w) ==
    /\ pc[w] = "committed"
    /\ pc' = [pc EXCEPT ![w] = "polling"]
    /\ Acknowledge(w, Here(w))
    /\ UNCHANGED <<bus, read, done, written, sent, faults>>

\* A mistake: what a lost worker was given counts as acknowledged.
AckedOnExit(w) == {hand[w][k] : k \in 1..Len(hand[w])}

\* Entries the bus acknowledges for a worker that goes away.
AckedByExit(w) == {}

\* The handler or a Redis call raises, the task is cancelled, the process
\* dies: the open transaction rolls back and the subscription is over, until the
\* process is started again.
Die(w) ==
    /\ pc[w] # "down"
    /\ faults < MaxFaults
    /\ pc' = [pc EXCEPT ![w] = "down"]
    /\ hand' = [hand EXCEPT ![w] = <<>>]
    /\ acked' = [acked EXCEPT ![GroupOf[w]] = @ \cup AckedByExit(w)]
    /\ faults' = faults + 1
    /\ UNCHANGED <<bus, read, done, written, sent>>

Work(w) ==
    \/ Read(w) \/ Refuse(w)
    \/ Claim(w) \/ Duplicate(w) \/ Act(w) \/ Commit(w) \/ Ack(w)

Next ==
    \/ \E e \in Events : Publish(e)
    \/ \E i \in 1..Len(stream), g \in Groups : Replay(i, g)
    \/ \E w \in Workers : Subscribe(w) \/ Work(w) \/ Die(w)

\* A subscription that lives goes on; nothing has to be published, nothing has to
\* fail, and what has ended need not begin again: a worker subscribes once for each
\* start of its process.
Fairness == \A w \in Workers : WF_vars(Work(w))

Spec == Init /\ [][Next]_vars
FairSpec == Spec /\ Fairness

-------------------------------------------------------------------------------
(* Properties.                                                             *)

PcStates == {"down", "polling", "handling", "acted", "committed"}

Entry == [event : Events, target : Groups \cup {Anyone}]

TypeOK ==
    /\ stream \in Seq(Entry)
    /\ Len(stream) <= MaxStream
    /\ created \subseteq Groups
    /\ read \in [Groups -> Nat]
    /\ \A g \in Groups : read[g] <= Len(stream)
    /\ acked \in [Groups -> SUBSET Nat]
    /\ pc \in [Workers -> PcStates]
    /\ hand \in [Workers -> Seq(Nat)]
    /\ \A w \in Workers : pc[w] \in {"handling", "acted", "committed"} => hand[w] # <<>>
    /\ done \in [Groups -> SUBSET [event : Events, copy : Nat]]
    /\ written \in [Groups -> [Events -> Nat]]
    /\ sent \in [Groups -> [Events -> Nat]]
    /\ faults \in 0..MaxFaults

\* However often an event is on the stream and however many workers of a group
\* race for its copies, the group's writes for it commit at most once (once,
\* idempotency.py: the record is claimed before the handler runs).
WrittenOnce == \A g \in Groups, e \in Events : written[g][e] <= 1

\* A consumer that texts people texts once, plus once per crash between the
\* text and its commit, whatever duplicates and replays reach the stream
\* (once and refuses_replay together).
SentOncePerFault ==
    \A g \in Groups \ Safe, e \in Events : sent[g][e] <= 1 + faults

\* "An event is acknowledged only after its handler returns": what a group has
\* acknowledged is on record as handled, or is a replay it must refuse.
AckedIsHandled ==
    \A g \in Groups : \A i \in acked[g] :
        Id(i) \in done[g] \/ Refuses(g, i)

\* Workers of a group share the stream: an entry is in one place of one worker's
\* hand at a time, and in nobody's once it is acknowledged.
HandedOnce ==
    \A v, w \in Workers : \A k \in 1..Len(hand[v]), n \in 1..Len(hand[w]) :
        GroupOf[v] = GroupOf[w] =>
            /\ hand[v][k] = hand[w][n] => v = w /\ k = n
            /\ hand[v][k] \notin acked[GroupOf[v]]

\* The group has moved past an entry nobody acknowledged and nobody holds.
Gone(g, i) ==
    /\ i \in 1..read[g] \ acked[g]
    /\ \A w \in Workers : GroupOf[w] = g => ~Holds(w, i)

\* No restart finds it again: subscribe reads from ">" only, never the group's
\* pending list, so what a worker held when it died is handled by no worker.
LostStaysLost ==
    [][\A g \in Groups : \A i \in 1..Len(stream) : Gone(g, i) => Gone(g, i)']_vars

\* Workers of a group waiting for each other's records never wait for ever:
\* what a worker holds is acknowledged unless its subscription ends.
HeldIsAcknowledged ==
    \A w \in Workers : \A i \in 1..MaxStream :
        Holds(w, i) ~> (i \in acked[GroupOf[w]] \/ pc[w] = "down")
==============================================================================
