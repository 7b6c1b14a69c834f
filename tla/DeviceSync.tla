------------------------------ MODULE DeviceSync ------------------------------
(***************************************************************************)
(* Work written offline on a handset reaches the platform                  *)
(* (apps/mobile: offline/log and offline/sync; ledger-svc: domain/sync.py  *)
(* and POST /assessments/sync; incident-svc: POST /reports).               *)
(*                                                                         *)
(* Every write is appended to the device's operation log and numbered      *)
(* there.  The sync engine claims a batch of rows, pushes its assessments  *)
(* in one request, submits every other row on its own, writes the answers  *)
(* into the log and, at the end of the run, the server's cursor.  The      *)
(* server applies a device's assessments in the order of their numbers and *)
(* stops at the first gap.                                                 *)
(*                                                                         *)
(* Requests are slow: the device gives one up while the server still works *)
(* on it, and may then send the same rows again.  The app can be killed    *)
(* whenever it runs; the log is in SQLite and survives.                    *)
(***************************************************************************)
EXTENDS Integers, FiniteSets

CONSTANTS
    MaxOp,       \* bound: operations written on the device
    Kinds,       \* what they may be
    BatchSize,   \* rows a run claims at a time
    Requests,    \* bound: pushes of assessments in flight
    MaxFaults,   \* bound: requests the device gives up
    MaxKills,    \* bound: runs the app is killed in
    None         \* no request, no reply

Ops == 1..MaxOp

ASSUME DeviceSyncAssumption ==
    /\ MaxOp \in Nat
    /\ Kinds \subseteq {"assessment", "unlisted", "report"}
    /\ BatchSize \in Nat \ {0}
    /\ MaxFaults \in Nat
    /\ MaxKills \in Nat
    /\ None \notin Requests

VARIABLES
    kind,        \* of each row: an assessment of a listed or of an unlisted
                 \* category; "report" is a report or a grievance
    status,      \* of each row of the log
    cursor,      \* the server's cursor as the device last recorded it
    phase,       \* where the engine's run stands
    batch,       \* the rows it has claimed
    cur,         \* serverCursor, the run's own copy
    call,        \* the push it waits for
    single,      \* the report it is submitting, 0 when none
    request,     \* pushes in flight, as the server sees them
    reply,       \* the answer to the push the engine waits for
    known,       \* the server has a cursor row for the device
    lastApplied, \* that cursor
    stored,      \* assessments stored for each operation
    reports,     \* reports stored for each operation
    lost,        \* submissions of each report the device gave up unanswered
    faults,      \* requests given up so far
    kills        \* runs killed so far

log == <<kind, status, cursor>>
run == <<phase, batch, cur, call, single>>
server == <<known, lastApplied, stored, reports>>
bounds == <<lost, faults, kills>>
vars == <<log, run, request, reply, server, bounds>>

\* "pending" stands for the three statuses of SENDABLE: pending, blocked and
\* failed.
Statuses == {"absent", "pending", "syncing", "synced", "conflict"}
Phases == {"idle", "claim", "push", "wait", "singles", "answer", "record"}

\* A push, and the state of the server's transaction for it: the cursor it read,
\* the operations it found on record, whether it holds the cursor's row lock.
PushOf(state, ops) ==
    [state |-> state, ops |-> ops, from |-> 0, seen |-> {}, locks |-> FALSE]
Free == PushOf("free", {})

Init ==
    /\ kind = [s \in Ops |-> "none"]
    /\ status = [s \in Ops |-> "absent"]
    /\ cursor = 0
    /\ phase = "idle" /\ batch = {} /\ cur = 0 /\ call = None /\ single = 0
    /\ request = [r \in Requests |-> Free]
    /\ reply = None
    /\ known = FALSE
    /\ lastApplied = 0
    /\ stored = [s \in Ops |-> 0]
    /\ reports = [s \in Ops |-> 0]
    /\ lost = [s \in Ops |-> 0]
    /\ faults = 0
    /\ kills = 0

-------------------------------------------------------------------------------
(* The operation log.                                                      *)

\* append: the row takes the next number in the transaction that writes it.
Append(s, k) ==
    /\ status[s] = "absent"
    /\ \A t \in 1..(s - 1) : status[t] # "absent"
    /\ kind' = [kind EXCEPT ![s] = k]
    /\ status' = [status EXCEPT ![s] = "pending"]
    /\ UNCHANGED <<cursor, run, request, reply, server, bounds>>

\* A mistake: a row another batch carries may be sent again.
EvenSyncing(s) == status[s] \in {"pending", "syncing"}

Sendable(s) == status[s] = "pending"

\* Where planBatch stops: a conflict, or a row another batch carries.  Behind
\* the cursor such a row is passed over.
Stops(s) ==
    \/ status[s] = "conflict"
    \/ ~Sendable(s) /\ status[s] = "syncing" /\ s > cursor

Candidates == {s \in Ops : Sendable(s) /\ \A t \in 1..(s - 1) : ~Stops(t)}

\* planBatch.  The log has no holes: rows are numbered as they are written and
\* nothing calls purgeSynced.
PlanBatch == {s \in Candidates : Cardinality({t \in Candidates : t < s}) < BatchSize}

\* The status of row s when the rows of S are set to v.
Marked(S, v) == [s \in Ops |-> IF s \in S THEN v ELSE status[s]]

\* A mistake: the rows keep the status the claim gave them.
ClaimKept(S) == status

\* release, by status: a row answered before the failure keeps its answer.
Released(S) == Marked({s \in S : status[s] = "syncing"}, "pending")

-------------------------------------------------------------------------------
(* A run of the engine.                                                    *)

\* request and #run: one run at a time; #pushOperations reads the device row.
Start ==
    /\ phase = "idle"
    /\ phase' = "claim"
    /\ cur' = cursor
    /\ UNCHANGED <<log, batch, call, single, request, reply, server, bounds>>

Assessments(S) == {s \in S : kind[s] # "report"}

Claim ==
    /\ phase = "claim"
    /\ batch' = PlanBatch
    /\ status' = Marked(PlanBatch, "syncing")
    /\ phase' = IF PlanBatch = {} THEN "record"
                ELSE IF Assessments(PlanBatch) = {} THEN "singles" ELSE "push"
    /\ UNCHANGED <<kind, cursor, cur, call, single, request, reply, server, bounds>>

\* pushAssessments.
Push(r) ==
    /\ phase = "push"
    /\ request[r].state = "free"
    /\ request' = [request EXCEPT ![r] = PushOf("sent", Assessments(batch))]
    /\ call' = r
    /\ phase' = "wait"
    /\ UNCHANGED <<log, batch, cur, single, reply, server, bounds>>

\* A mistake: an operation the server holds back counts as delivered.
AllAnswered == Marked(Assessments(batch), "synced")

\* applyResults: applied and duplicate rows are synced, a blocked row may be
\* sent again.
Answered ==
    [s \in Ops |-> IF s \in reply.ok THEN "synced"
                   ELSE IF s \in reply.refused THEN "conflict"
                   ELSE IF s \in Assessments(batch) THEN "pending" ELSE status[s]]

Receive ==
    /\ phase = "wait"
    /\ reply # None
    /\ status' = Answered
    /\ cur' = reply.cursor
    /\ phase' = "singles"
    /\ call' = None
    /\ reply' = None
    /\ UNCHANGED <<kind, cursor, batch, single, request, server, bounds>>

\* The reports and grievances of the batch that are still to be submitted.
Singles == {s \in batch : kind[s] = "report" /\ status[s] = "syncing"}

\* submitReport: incident-svc keeps the Idempotency-Key with the report and
\* compares it with nothing.
Submit(s) ==
    /\ phase = "singles"
    /\ s \in Singles
    /\ reports' = [reports EXCEPT ![s] = @ + 1]
    /\ single' = s
    /\ phase' = "answer"
    /\ UNCHANGED <<log, batch, cur, call, request, reply, known, lastApplied, stored, bounds>>

Submitted ==
    /\ phase = "answer"
    /\ status' = Marked({single}, "synced")
    /\ single' = 0
    /\ phase' = "singles"
    /\ UNCHANGED <<kind, cursor, batch, cur, call, request, reply, server, bounds>>

\* #submitOne turns a permanent refusal into a conflict.
RefuseReport(s) ==
    /\ phase = "singles"
    /\ s \in Singles
    /\ status' = Marked({s}, "conflict")
    /\ UNCHANGED <<kind, cursor, run, request, reply, server, bounds>>

\* A full batch is followed by another one.
EndBatch ==
    /\ phase = "singles"
    /\ Singles = {}
    /\ phase' = IF Cardinality(batch) < BatchSize THEN "record" ELSE "claim"
    /\ batch' = {}
    /\ UNCHANGED <<log, cur, call, single, request, reply, server, bounds>>

Forget ==
    /\ phase' = "idle"
    /\ batch' = {}
    /\ cur' = 0
    /\ call' = None
    /\ single' = 0
    /\ reply' = None

\* recordSync, unconditionally.
Record ==
    /\ phase = "record"
    /\ cursor' = cur
    /\ Forget
    /\ UNCHANGED <<kind, status, request, server, bounds>>

\* The request the engine waits for never reaches the server, or goes on there.
Abandon ==
    request' \in {request} \cup {[request EXCEPT ![r] = Free] : r \in Requests \cap {call}}

\* A request fails: no signal, a timeout, a 5xx, a batch refused as a whole.
\* The claimed rows go back and the run ends.
GiveUp ==
    /\ phase \in {"push", "wait", "singles", "answer"}
    /\ phase = "singles" => Singles # {}
    /\ faults < MaxFaults
    /\ faults' = faults + 1
    /\ status' = Released(batch)
    /\ lost' = [s \in Ops |-> IF s = single THEN lost[s] + 1 ELSE lost[s]]
    /\ Abandon
    /\ Forget
    /\ UNCHANGED <<kind, cursor, server, kills>>

\* The process dies: only what is in SQLite is left.
Kill ==
    /\ phase # "idle"
    /\ kills < MaxKills
    /\ kills' = kills + 1
    /\ Abandon
    /\ Forget
    /\ UNCHANGED <<log, server, lost, faults>>

-------------------------------------------------------------------------------
(* POST /assessments/sync: one transaction per request.                    *)

\* Who holds the lock of the device's cursor row.
Locked == \E r \in Requests : request[r].locks

\* lock_device_cursor: FOR UPDATE, which locks nothing before the first push of
\* the device has committed.
LockCursor(r) ==
    /\ request[r].state = "sent"
    /\ ~Locked
    /\ request' = [request EXCEPT
           ![r] = [@ EXCEPT !.state = "locked", !.from = lastApplied, !.locks = known]]
    /\ UNCHANGED <<log, run, reply, server, bounds>>

\* applied_operation_ids.
OnRecord(S) == {s \in S : stored[s] > 0}

ReadStored(r) ==
    /\ request[r].state = "locked"
    /\ request' = [request EXCEPT
           ![r] = [@ EXCEPT !.state = "planned", !.seen = OnRecord(request[r].ops)]]
    /\ UNCHANGED <<log, run, reply, server, bounds>>

\* A mistake: nothing is held back.
NoGap(q, s) == FALSE

\* The device has not sent the operation before s, and s is not a replay.
Gap(q, s) == s \notin q.seen /\ s > q.from + 1 /\ (s - 1) \notin q.ops

\* sync.plan: the first gap holds back everything from there on.
Blocked(q) == {s \in q.ops : \E t \in q.ops : t <= s /\ Gap(q, t)}

\* Behind the cursor and not on record, or of an unlisted category.
Refused(q) ==
    {s \in q.ops \ (Blocked(q) \cup q.seen) : s <= q.from \/ kind[s] = "unlisted"}

Ok(q) == q.ops \ (Blocked(q) \cup Refused(q))

\* insert_assessment: ON CONFLICT DO NOTHING on the operation's id.
Inserts(q) == {s \in Ok(q) : stored[s] = 0}

\* A mistake: the cursor moves over the whole batch.
WholeBatch(q) == q.ops

\* Applied and duplicate operations move the cursor.
Moves(q) == Ok(q)

\* save_device_cursor: GREATEST of the stored cursor and the batch's.
Furthest(q) ==
    CHOOSE n \in {lastApplied} \cup Moves(q) : \A m \in {lastApplied} \cup Moves(q) : m <= n

Answer(q) == [ok |-> Ok(q), refused |-> Refused(q), cursor |-> Furthest(q)]

\* The inserts and the upsert of the cursor, which waits for the row's lock.
Commit(r) ==
    /\ request[r].state = "planned"
    /\ request[r].locks \/ ~Locked
    /\ stored' = [s \in Ops |-> IF s \in Inserts(request[r]) THEN stored[s] + 1 ELSE stored[s]]
    /\ lastApplied' = Furthest(request[r])
    /\ known' = TRUE
    /\ reply' = IF call = r THEN Answer(request[r]) ELSE reply
    /\ request' = [request EXCEPT ![r] = Free]
    /\ UNCHANGED <<log, run, reports, bounds>>

\* A request nobody waits for any more is cut off: its transaction rolls back.
CutOff(r) ==
    /\ request[r].state # "free"
    /\ r # call
    /\ request' = [request EXCEPT ![r] = Free]
    /\ UNCHANGED <<log, run, reply, server, bounds>>

-------------------------------------------------------------------------------
Proceed ==
    \/ Claim \/ Receive \/ Submitted \/ EndBatch \/ Record
    \/ \E r \in Requests : Push(r)
    \/ \E s \in Ops : Submit(s)

Serve(r) == LockCursor(r) \/ ReadStored(r) \/ Commit(r)

Next ==
    \/ \E s \in Ops, k \in Kinds : Append(s, k)
    \/ Start
    \/ Proceed
    \/ \E s \in Ops : RefuseReport(s)
    \/ GiveUp
    \/ Kill
    \/ \E r \in Requests : Serve(r) \/ CutOff(r)

Spec == Init /\ [][Next]_vars

\* A trigger always comes (foreground, connectivity, every fifteen minutes, a
\* write), a run that is neither failed nor killed goes on, and so does a
\* transaction of the server.
FairSpec ==
    /\ Spec
    /\ WF_vars(Start)
    /\ WF_vars(Proceed)
    /\ \A r \in Requests : WF_vars(Serve(r))

-------------------------------------------------------------------------------
(* Properties.                                                             *)

Pushes ==
    [state : {"free", "sent", "locked", "planned"}, ops : SUBSET Ops,
     from : 0..MaxOp, seen : SUBSET Ops, locks : BOOLEAN]

Replies == [ok : SUBSET Ops, refused : SUBSET Ops, cursor : 0..MaxOp]

TypeOK ==
    /\ kind \in [Ops -> Kinds \cup {"none"}]
    /\ status \in [Ops -> Statuses]
    /\ cursor \in 0..MaxOp
    /\ phase \in Phases
    /\ batch \subseteq Ops
    /\ cur \in 0..MaxOp
    /\ call \in Requests \cup {None}
    /\ single \in 0..MaxOp
    /\ request \in [Requests -> Pushes]
    /\ reply \in Replies \cup {None}
    /\ known \in BOOLEAN
    /\ lastApplied \in 0..MaxOp
    /\ stored \in [Ops -> Nat]
    /\ reports \in [Ops -> Nat]
    /\ lost \in [Ops -> Nat]
    /\ faults \in 0..MaxFaults
    /\ kills \in 0..MaxKills

\* "Confirmation - not sending - is what makes a row eligible for purge": what
\* the device calls synced is on record, whichever answers were lost, late or
\* abandoned.
SyncedIsStored ==
    \A s \in Ops : status[s] = "synced" =>
        IF kind[s] = "report" THEN reports[s] > 0 ELSE stored[s] > 0

\* "Five concurrent copies of the same batch leave exactly fifty assessments":
\* also before the device has a cursor row to lock.
StoredOnce == \A s \in Ops : stored[s] <= 1

\* "The record is rebuilt in the order the officer actually wrote it": an
\* assessment is on record only when everything written before it is, but for
\* what the server refused.
AppliedWithoutGaps ==
    \A s \in Ops : stored[s] > 0 =>
        \A t \in 1..(s - 1) : stored[t] > 0 \/ kind[t] = "unlisted"

\* A late answer never moves the device's cursor over a row it has no answer
\* for: the planner passes over rows in flight behind the cursor, so such a row
\* would be left for good without anything showing it.
NothingBehindCursor ==
    \A s \in Ops : s <= cursor => status[s] \in {"synced", "conflict"}

\* A report arrives twice only when the device gave up on an answer that was on
\* its way: no trigger, claim, release or kill sends it again of its own.
RepeatedOnlyAfterLoss == \A s \in Ops : reports[s] <= 1 + lost[s]

\* What keeps a row waiting for ever: a conflict in front of it, a row left
\* "syncing" by a killed run, or an assessment with a report in front of it.
Stuck(s) ==
    \/ \E t \in 1..(s - 1) : status[t] = "conflict"
    \/ kills > 0 /\ \E t \in 1..s : status[t] = "syncing" /\ t \notin batch
    \/ \E u \in 1..s, t \in 1..(s - 1) : t < u /\ kind[t] = "report" /\ kind[u] # "report"

Delivered(s) == status[s] \in {"synced", "conflict"}

\* "A batch that fails in transit returns to the queue whole": every row is
\* answered in the end, but for the three ways to be stuck.
DeviceCatchesUp ==
    \A s \in Ops : status[s] = "pending" ~> Delivered(s) \/ Stuck(s)

\* What a row was answered stays: no release, late answer or later batch opens it
\* again.
AnsweredStays ==
    [][\A s \in Ops : Delivered(s) => status'[s] = status[s]]_vars

\* The device never believes the server is further than it is, and what it
\* believes only grows, though runs are cut short and answers come late.
CursorBehindServer == cursor <= lastApplied
CursorGrows == [][cursor <= cursor']_vars

\* The assessment on record right before s, 0 when there is none.
Previous(s) ==
    CHOOSE n \in {0} \cup {t \in OnRecord(Ops) : t < s} :
        \A m \in OnRecord(Ops) : m < s => m <= n

\* The device's assessments on record, read in the order they were written, are
\* a log that only grows at its end: none is ever slipped in before another.
ServerLog ==
    INSTANCE AppendLog
        WITH entries <- {[seq |-> s, prev |-> Previous(s)] : s \in OnRecord(Ops)}
ServerKeepsLog == ServerLog!LogSpec
===============================================================================
