------------------------------- MODULE Anchors -------------------------------
(***************************************************************************)
(* The daily anchor of ledger-svc (workers/anchor.py): once a Colombo day  *)
(* is over, a Merkle root over that day's disbursements, in a record that  *)
(* carries the hash of the anchor before it.                               *)
(*                                                                         *)
(* Every replica runs the worker: on start, and then at every midnight, it *)
(* anchors in one transaction every past day that has entries and no       *)
(* anchor.  A release is stamped with its day when the gate decides it,    *)
(* and its row is committed later, by a transaction that may first queue   *)
(* for the chain's lock (module LedgerChain): midnight may come between.   *)
(*                                                                         *)
(* Transactions run READ COMMITTED.  A root is the set of entries it is    *)
(* computed over, a hash the record that is hashed.  No object store is    *)
(* configured anywhere in the repository, so none is written to.           *)
(***************************************************************************)
EXTENDS FiniteSetsExt, Integers

CONSTANTS
    Releases,       \* disbursements that may be decided
    Replicas,       \* processes running an AnchorWorker
    Days,           \* bound: the last Colombo day
    MaxFaults       \* bound on failed runs and restarted processes

ASSUME AnchorAssumption ==
    /\ Days \in Nat \ {0}
    /\ MaxFaults \in Nat

VARIABLES
    today,          \* the Colombo date
    release,        \* per disbursement: how far, the day it is stamped with,
                    \* and the day it was committed on
    anchor,         \* aid.ledger_anchor: per day, its committed row
    run,            \* what each replica's worker is doing
    faults

anchorVars == <<today, release, anchor, run, faults>>

Calendar == 1..Days

\* No row; as a predecessor, NULL.
NoAnchor == [date |-> 0]

Asleep == [at |-> "asleep"]
Due == [at |-> "due"]
Running(w) == run[w] \notin {Asleep, Due}

\* What statements see: a committed disbursement; an anchor that is committed
\* or the transaction's own.
EntriesOf(d) == {r \in Releases : release[r].at = "committed" /\ release[r].day = d}
View(w) ==
    [d \in Calendar |-> IF run[w].own[d] # NoAnchor THEN run[w].own[d] ELSE anchor[d]]

NewestBefore(table, d) ==
    LET dates == {c \in Calendar : c < d /\ table[c] # NoAnchor}
    IN  IF dates = {} THEN NoAnchor ELSE table[Max(dates)]

AnchorsInit ==
    /\ today = 1
    /\ release = [r \in Releases |-> [at |-> "asked", day |-> 0, on |-> 0]]
    /\ anchor = [d \in Calendar |-> NoAnchor]
    /\ run = [w \in Replicas |-> Due]
    /\ faults = 0

-----------------------------------------------------------------------------
\* The gate decides, and the rail has the money: released_at is decision.at.
Decide(r) ==
    /\ release[r].at = "asked"
    /\ release' = [release EXCEPT ![r] = [at |-> "decided", day |-> today, on |-> 0]]
    /\ UNCHANGED <<today, anchor, run, faults>>

\* The request's transaction ends, with the row or without.
EndRelease(r) ==
    /\ release[r].at = "decided"
    /\ \E end \in {"committed", "undone"} :
         release' = [release EXCEPT ![r].at = end, ![r].on = today]
    /\ UNCHANGED <<today, anchor, run, faults>>

\* Timing: a request and a run last less than a day, so that a second midnight
\* finds neither still open.  Who sleeps is due again; a run that outlasts a
\* midnight sleeps until the next one.
Midnight ==
    /\ today < Days
    /\ \A r \in Releases : release[r].at = "decided" => release[r].day = today
    /\ \A w \in Replicas : Running(w) => run[w].when = today
    /\ today' = today + 1
    /\ run' = [w \in Replicas |-> IF run[w] = Asleep THEN Due ELSE run[w]]
    /\ UNCHANGED <<release, anchor, faults>>

-----------------------------------------------------------------------------
\* _tick: run_once fixes its today before it opens the transaction.
BeginRun(w) ==
    /\ run[w] = Due
    /\ run' = [run EXCEPT ![w] =
            [at |-> "list", when |-> today, left |-> {}, found |-> {}, latest |-> NoAnchor,
             own |-> [d \in Calendar |-> NoAnchor]]]
    /\ UNCHANGED <<today, release, anchor, faults>>

\* Mutants: the day that is still going is anchored as well; only yesterday is.
TodayToo(w) == {d \in Calendar : d <= run[w].when /\ EntriesOf(d) # {} /\ anchor[d] = NoAnchor}
Yesterday(w) == {d \in Calendar : d = run[w].when - 1 /\ EntriesOf(d) # {} /\ anchor[d] = NoAnchor}

\* unanchored_days
UnanchoredDays(w) == {d \in Calendar : d < run[w].when /\ EntriesOf(d) # {} /\ anchor[d] = NoAnchor}

ListDays(w) ==
    /\ run[w].at = "list"
    /\ run' = [run EXCEPT ![w].at = "day", ![w].left = UnanchoredDays(w)]
    /\ UNCHANGED <<today, release, anchor, faults>>

\* Mutant: a backlog is worked off from its newest day.
NewestFirst(w) == Max(run[w].left)

\* ORDER BY 1
CurrentDay(w) == Min(run[w].left)

\* entries_for_day.  Rows are never deleted: a listed day has some.
ReadEntries(w) ==
    /\ run[w].at = "day"
    /\ run[w].left # {}
    /\ run' = [run EXCEPT ![w].at = "latest", ![w].found = EntriesOf(CurrentDay(w))]
    /\ UNCHANGED <<today, release, anchor, faults>>

\* latest_anchor: the greatest date of all, below the day being anchored or not.
ReadLatest(w) ==
    /\ run[w].at = "latest"
    /\ run' = [run EXCEPT ![w].at = "insert", ![w].latest = NewestBefore(View(w), Days + 1)]
    /\ UNCHANGED <<today, release, anchor, faults>>

\* build_anchor and insert_anchor.  The unique date makes the INSERT wait for
\* a transaction that holds the same one; a committed row wins, silently.
InsertAnchor(w) ==
    LET d == CurrentDay(w) IN
    /\ run[w].at = "insert"
    /\ \A v \in Replicas : Running(v) => run[v].own[d] = NoAnchor
    /\ run' = [run EXCEPT ![w].at = "day", ![w].left = @ \ {d},
            ![w].found = {}, ![w].latest = NoAnchor,
            ![w].own[d] = IF anchor[d] # NoAnchor THEN NoAnchor
                ELSE [date |-> d, entries |-> run[w].found, prev |-> run[w].latest]]
    /\ UNCHANGED <<today, release, anchor, faults>>

\* One commit for all the days, then seconds_until_next_midnight, from now.
CommitRun(w) ==
    /\ run[w].at = "day"
    /\ run[w].left = {}
    /\ anchor' = View(w)
    /\ run' = [run EXCEPT ![w] = Asleep]
    /\ UNCHANGED <<today, release, faults>>

\* Any exception: the whole run is rolled back and logged, and the loop sleeps.
\* Not on the last day, after which nobody wakes.
FailRun(w) ==
    /\ Running(w)
    /\ faults < MaxFaults /\ today < Days
    /\ run' = [run EXCEPT ![w] = Asleep]
    /\ faults' = faults + 1
    /\ UNCHANGED <<today, release, anchor>>

\* The process dies, in a run or between two, and a new one catches up on start.
Restart(w) ==
    /\ faults < MaxFaults
    /\ run' = [run EXCEPT ![w] = Due]
    /\ faults' = faults + 1
    /\ UNCHANGED <<today, release, anchor>>

Tick(w) ==
    \/ BeginRun(w) \/ ListDays(w) \/ ReadEntries(w) \/ ReadLatest(w)
    \/ InsertAnchor(w) \/ CommitRun(w)

AnchorsNext ==
    \/ \E r \in Releases : Decide(r) \/ EndRelease(r)
    \/ Midnight
    \/ \E w \in Replicas : Tick(w) \/ FailRun(w) \/ Restart(w)

\* Time passes, requests end, and a worker that is due keeps executing.
AnchorsSpec ==
    /\ AnchorsInit /\ [][AnchorsNext]_anchorVars
    /\ WF_anchorVars(Midnight)
    /\ \A r \in Releases : WF_anchorVars(EndRelease(r))
    /\ \A w \in Replicas : WF_anchorVars(Tick(w))

-----------------------------------------------------------------------------
\* An anchor covers its own day's entries only, and what it misses of them was
\* committed after that day was over: no run, however late, overlapping another
\* or repeated after a failure, anchors a day that is still being written to.
OnlyLateEntriesAreMissing ==
    \A d \in Calendar : anchor[d] # NoAnchor =>
        /\ anchor[d].entries \subseteq EntriesOf(d)
        /\ \A r \in EntriesOf(d) \ anchor[d].entries : release[r].on > d

\* Each anchor carries the hash of the anchor of the last day before it that has
\* one, as it is published: a removed day shows, and no honest day looks removed,
\* whatever backlog two replicas work off at the same time.
AnchorsAreLinked ==
    \A d \in Calendar : anchor[d] # NoAnchor => anchor[d].prev = NewestBefore(anchor, d)

\* The anchors as a log: an anchor's number is its day, and it names the day of
\* the anchor whose hash it carries.
AnchoredDays == {d \in Calendar : anchor[d] # NoAnchor}
AnchorEntries == {[seq |-> d, prev |-> anchor[d].prev.date] : d \in AnchoredDays}
AnchorLog == INSTANCE AppendLog WITH entries <- AnchorEntries

\* The job keeps the promise the ledger's own chains make: a run publishes its
\* days in one batch, wholly after every day published before, and no committed
\* anchor changes, goes away or gets a predecessor afterwards.
AnchorsImplementLog == AnchorLog!LogSpec

\* A published anchor is what an outsider pinned: no step changes it, the record
\* of the entries it covers included.
AnchorsStay == [][\A d \in Calendar : anchor[d] # NoAnchor => anchor'[d] = anchor[d]]_anchorVars

\* insert_anchor blocks on the unique date of another run's uncommitted row.
AwaitsRow(w, v) ==
    /\ v # w /\ run[w].at = "insert"
    /\ Running(v) /\ run[v].own[CurrentDay(w)] # NoAnchor

\* A run that another one waits for may itself wait only for a later day, so
\* that replicas in their inserts never wait for each other in a circle: it is
\* the days' order that keeps PostgreSQL from having to kill one of them.
WaitsGoForward ==
    \A w, v \in Replicas :
        AwaitsRow(w, v) /\ run[v].at = "insert" => CurrentDay(w) < CurrentDay(v)

\* Every day with entries is anchored in the end, across failed runs, restarts
\* and replicas that wait for each other ("a missing anchor is a hole in the
\* public proof and it never fills itself").  Of the last two days the calendar
\* has too little left to say so.
EveryDayIsAnchored ==
    \A d \in Calendar : d + 3 <= Days => (EntriesOf(d) # {} ~> anchor[d] # NoAnchor)

\* What the release code and the verifier expect, and the code does not give:
\* an anchor covers every entry of its day.
AnchorCoversItsDay ==
    \A d \in Calendar : anchor[d] # NoAnchor => anchor[d].entries = EntriesOf(d)
==============================================================================
