# Sarana: TLA+ models, model checking and proofs

Sarana is a disaster-management platform: citizens report incidents, field
officers assess damage on handsets that are often offline, dispatchers approve
plans that software agents propose, and households are paid from a published,
hash-chained aid ledger. This directory holds TLA+ models of the parts of it
whose correctness depends on the order in which independent actors take their
steps, the TLC runs that check them on small instances, and TLAPS proofs of
their safety properties for every value of the constants. Paths below are
relative to `src/`; `ledger_svc/...` is short for
`services/ledger-svc/src/ledger_svc/...`, and so on for the other services;
`sarana_shared/...` is in `packages/py-shared/src/`.

1. [The system](#1-the-system): inventory of its parts
2. [The modules](#2-the-modules): which module models what, and how
3. [The runs](#3-the-runs): what is checked, with which bounds, under which fairness
4. [The proofs](#4-the-proofs)
5. [Where code and documentation disagree](#5-where-code-and-documentation-disagree)
6. [What is not modelled](#6-what-is-not-modelled)
7. [Plan](#7-plan)

## 1. The system

Six Python services (FastAPI, asyncio, one PostgreSQL schema each, Redis
Streams between them), a shared library, three TypeScript front ends.

**How requests run.** A request of a service is one database transaction,
opened and ended by `get_session` (`api/deps.py` of each service): commit when
the handler returns, rollback when it raises. The engine is created without an
isolation level (`sarana_shared/db/session.py`), so transactions are READ
COMMITTED: every statement sees what was committed when it started. Several
replicas of a service may run, each with its own workers. All models follow
from this: a handler is a sequence of statements, other transactions commit
between any two of them, and only row locks, advisory locks, unique indexes and
triggers stand in the way.

**When an answer leaves.** All models let a caller hear of success only after the
commit. `get_session` commits in the exit code of a `yield` dependency, and the
FastAPI that `uv.lock` pins runs that code after the response has been sent: a
commit that fails is an answer of 200 for nothing. The models abstract from that
window, in every service.

| Part | State it keeps | Operations | Hard because | Correct when |
|---|---|---|---|---|
| Ledger hash chain (`ledger_svc/repo/chain_writer.py`, migration `0006`) | entries with `seq`, `prev_hash`, `entry_hash` | append with retry loop, publish pages, verify | the number is drawn before the lock is taken; the tail is read before the insert; rollbacks and savepoints | one chain, no fork, readers miss nothing |
| Approval and release (`api/v1/entitlements.py`, `api/v1/disbursements.py`, `domain/disbursement_gate.py`, migrations `0004`, `0010`) | approvals, entitlement status, disbursements | approve, release | reads in separate statements; a call of the rail before the write; triggers that read before any lock | independent people behind every payment, one live payment |
| Reversal (`workers/settlement.py`, `api/internal/reversals.py`) | reversal chain, `reversed_at`, cases | pass of the worker, callback | many payments in one transaction, two reporters of one return, outages of the rail | exactly the returned payments are reversed, once, with one case |
| Grievances (`domain/grievance.py`) | cases and their status | raise, assign, resolve; the SLA is a deadline that reads compare with the clock | read by the gate in a statement of its own | a dispute holds money |
| Assessments and entitlements | assessments, amounts | sync, calculate | device batches repeated and overtaking one another | each operation stored once, in order |
| Anchors (`workers/anchor.py`) | one row per Colombo day: a Merkle root and the hash of the row before | on start and at midnight, anchor every past day that has entries | midnight between a release's decision and its commit; a backlog worked off by two replicas at once | the anchors form one chain; nothing is missing but what came late |
| Public feeds, anomalies, confirmations | none of their own, flags, answers | read, flag, confirm | readers beside writers | what is published stays true |
| Dispatch gate (`incident_svc/api/v1/dispatch.py`, `domain/dispatch_gate.py`) | plans, sign-offs | approve, reject | an HTTP call between read and write, over two services | one release, by a person, with the thread resumed |
| Incidents (`incident_svc/api/v1/incidents.py`, `service/intake.py`) | incidents, reports | submit, patch, merge, split, review | read-check-write by id alone; two reports of one event at once; a status that is stale when it is written over; a candidate query with a limit | one event, one incident, but for the named reasons; what is resolved stays resolved |
| Agents (`agent_svc/runtime`, `api/v1/agents.py`, `agents/warning`) | runs, checkpoints, threads | start, pause, answer, resume | a resume that runs although its caller gave up; two executions of one thread; values that outlive a run | resumed once, before the release; one run, one alert; an answer is kept |
| Outbox (`sarana_shared/events/outbox`) | one row per event | enqueue, drain, reset | a batch's marks commit together after its publishes; replicas | emitted iff committed, duplicates only from faults |
| Event bus and consumers (`events/impl/redis_streams.py`, `events/idempotency.py`) | stream, groups, pending lists, records | publish, read, claim, handle, acknowledge, replay | at-least-once delivery, two workers over two copies, effects outside the database | effects once, acknowledged only when handled |
| Device sync (`apps/mobile/src/offline`, `ledger_svc/domain/sync.py`) | operation log, cursor on both sides | append, claim, push, submit, apply answers, record | kills, lost answers, late requests, gaps | nothing lost, nothing twice, in order |
| Alerting (`alerting_svc`) | alerts, dispatch rows, receipts, notices | draft, sign off, dispatch, cancel, notify | a message cannot be rolled back; channels answer in any order or raise | a household is told once, what is closed is proved, the figures agree |
| Gateway and sessions (`core_api/gateway`, `core_api/domain/auth`) | refresh families, one-time codes, breakers | log in, refresh, proxy | reuse of a token racing its rotation | one live token per family |
| Audit chain (`core_api/domain/audit_chain`, trigger `sarana_hash_chain`) | entries with `seq`, `prev_hash`, `entry_hash` | write, verify a range | the number is drawn before the lock, and the trigger fills in the tail it finds; a check is three statements | a check of an untouched log finds nothing |
| Resilience graph (`core_api`) | merged records | project events | replayed events | projections are repeatable |
| Government mock, web applications, infrastructure, seed and tools | | | | not part of the platform's own logic |

**How they interact.** A business transaction writes its own tables and an
outbox row; the outbox worker publishes to the stream; consumers in alerting,
agents and core project or notify. incident-svc calls agent-svc over HTTP while
its own transaction is open. ledger-svc calls the payment rail while its own
transaction is open, and the rail calls back later or is asked by the
settlement worker. The warning agent drafts and dispatches alerts in alerting-svc,
in two requests with a timeout. The handset talks to ledger-svc (assessments, in batches)
and incident-svc and ledger-svc (reports and grievances, one by one).

`PROJECT.json` lists the same parts with the modules that cover them, and under
`hazards` the places in the code where an order nobody tested can bite.

## 2. The modules

Each component has a specification module, a `...Proofs` module that extends it
and TLAPS, and an `MC...` module that gives the constants their values for TLC.
`SendingProofs` is the proof module of three of them, `Outbox`, `Alerting` and
`Warning`, and `LedgerChainProofs` that of
`LedgerChain`, `Anchors` and `AuditChain`.

| Module | Models | Composed with |
|---|---|---|
| `AppendLog` | abstract: what a published ledger promises its readers | implemented by `LedgerChain`, by the anchors of `Anchors` and by the server's record in `DeviceSync` |
| `LedgerChain` | `chain_writer.append`, trigger `sarana_enforce_supplied_chain`, commit and rollback, a paging reader | extends `AppendLog` |
| `Anchors` | `AnchorWorker`, `run_once`, `anchor_day` on every replica, with releases that commit around midnight | reads what `LedgerChain` commits; instantiates `AppendLog` |
| `AuditChain` | `write_entry`, trigger `sarana_hash_chain`, `/audit/verify` | extends `AppendLog`, which it implements only as long as no entry is overtaken |
| `PaymentPromise` | abstract: one payment at a time, only its return makes room for another | implemented by `AidRelease` |
| `AidRelease` | approvals, release, reversal and grievances of one entitlement | instantiates `PaymentPromise` |
| `Settlement` | worker passes and rail callbacks over several payments | refines the reversal step of `AidRelease` into its pass |
| `Outbox` | `enqueue`, `drain_once`, worker, reset of stuck rows | its duplicates are the copies `StreamDelivery` starts from |
| `StreamDelivery` | Redis stream, groups, idempotency records, payment notices | |
| `IncidentStates` | the state machine of incidents | used by the next two |
| `IncidentQueue` | intake with deduplication, patch, merge, split, returned plans | extends `IncidentStates` |
| `Dispatch` | approve, reject and patch over plans and incidents, the agent's resume | extends `IncidentStates` |
| `Alerting` | alerts: draft, sign-off, dispatch over channels, cancellation, figures | |
| `Warning` | the warning agent's runs: graph, checkpoint, people's answers | extends `Alerting`, whose requests its dispatch node makes |
| `DeviceSync` | operation log, sync engine, server transaction for a batch | instantiates `AppendLog` |

### LedgerChain

`Writers` are transactions. `BeginAppend`, `ReadTail`, `DrawSeq`, `TakeLock`,
`InsertRow`, `ChainBreak`, `AppendFailed`, `Commit`, `Rollback` follow
`append` statement by statement: the tail read, the identity number drawn by
the INSERT, the transaction-scoped advisory lock taken inside the trigger, the
comparison with the tail under the lock, and the savepoint that a refusal rolls
back (with the lock, if it was taken inside the savepoint). `mine` holds the
rows of a transaction before its commit. A SHA-256 digest is represented by the
sequence number of the entry it covers; `Nobody` is the free lock. `ReadPage` is
the public feed, which pages by `seq`. `commits`, `began` and `readAt` are
history variables that only `LostRacesAreCommits` and `FailuresCostCommits` look at.

### Anchors

`today` is the date in Colombo. A disbursement is stamped with it when the gate
decides (`Decide`) and committed by a later step, or undone (`EndRelease`). `run`
is what a replica's worker does: `Asleep` until the next midnight, `Due`, or in
the transaction of `run_once`, statement by statement: `ListDays`
(`unanchored_days`), then for each day `ReadEntries`, `ReadLatest`,
`InsertAnchor`, and one `CommitRun` for all. `own` holds the transaction's rows,
`View` what its statements see; `ON CONFLICT (anchor_date)` makes the INSERT wait
for a rival that holds the date, and do nothing when the rival commits. `FailRun`
is any exception, after which the loop sleeps until midnight; `Restart` is a new
process, which catches up on start. A Merkle root is the set of entries it covers
and a hash the record that is hashed. A request and a run are taken to last less
than a day (`Midnight`). The object store is left out (nothing configures one: the
worker runs with `NullAnchorStore`), and the event that is enqueued is `Outbox`'s
matter.

### AuditChain

`DrawNumber`, `Lock`, `Link` are the INSERT and its trigger: the identity number
first, then the advisory lock, then the tail as it is by then, which becomes
`prev_hash` whatever it is. `BeginCheck`, `ReadAnchor`, `ReadRange` are the three
statements of a verification, between which entries may be committed; `LinksAgree`
is its loop. That a row's own hash is right is taken for granted, as nobody edits a
row here. `late` is history: the entries that were overtaken.

### AidRelease

One entitlement. A request runs through the phases of its handler: an approval
through tail read, trigger and write; a release through the release context,
the approvals, the grievances, the rail's call, then the append; a reversal
through its append. `view`, `tail` and `ref` are what the request has read or
been given. The segregation triggers are evaluated in a step of their own
before the chain's lock is held, as in the database, where the BEFORE INSERT
triggers fire in the order of their names; a broken chain starts the append
over, triggers included. `Abort` ends a request anywhere: a refusal, an
exhausted retry, a timeout or a crash. REJECTED stands for RETURNED too, which
the code treats alike. `standing` is history: the cases open ever since the
release began.

### Settlement

Payments are numbered in the order of their release. A worker's `BeginPass`
takes the oldest `Limit` payments of unknown outcome (`_PENDING_SETTLEMENT`),
`NothingToReverse`, `LeftForLater`, `Returned` are the answers of the rail one
by one, `ReadContext`, `AlreadyReversed`, `Reverse`, `Refused` are
`record_reversal`, and all of it is one transaction. `RailSettles` is external:
what the rail may come to answer. `Age` moves a payment out of the
`WINDOW_DAYS`; it is allowed only after `Window` passes began since the rail's
decision, which is how the model says that passes every few minutes fit many
times into a window of days.

### Outbox

`Enqueue` and `EndBusiness` are the business transaction; `Claim` is the
`SELECT ... FOR UPDATE SKIP LOCKED` of one batch, `PublishOk`, `PublishFails`,
`ReplyLost` the loop over it, `CommitBatch` the marks, `LoseBatch` a crash or
cancellation before them. `stamp` is `created_at`, the start time of the
inserting transaction, by which the claim orders. `ResetStuck` is the operator's
action.

### StreamDelivery

`stream` is the Redis stream with each entry's target group (a replay is meant
for one), `read` the group's last-delivered position, `hand` what `XREADGROUP`
gave a worker. `Claim` inserts the record of `events/idempotency.py`, waiting
while another transaction holds the same key (`Contended`); `Act` is the effect
outside the database (a text message); `Commit`, then `Ack`. `Die` is an
exception or crash at any of these points. It ends the subscription: `_loop` of
`PaymentNoticeWorker` and of `AgentTriggerWorker` calls `subscribe` once and catches
nothing, so the group has that worker again only when its process is started again
(`Subscribe`), which the model allows and does not promise. `Safe` are the groups subscribed
with `side_effect_free=True`; the others refuse replays.

### IncidentQueue

A request is a transaction that takes an incident's status at its start
(`Patch`, `Merge`, `Split`, `ReturnPlan`), or a submission of one or several
reports (`Submit`, `Next1`, `Take`): `KeepUnplaced`, `LinkToCandidate`,
`OpenIncident` and `RefuseType` are the ways `accept` ends for one report, and
`CommitReports` publishes all of a mesh node's batch at once. `WriteChange` is the
UPDATE by id; `LockTarget` and `Fold` are the merge's two rows, and a merge in each
direction can deadlock (`DeadlockVictim`).

Deduplication is in two parts, as in the code. `Matching` is the WHERE of
`_DEDUP_CANDIDATES`: incidents the transaction can see, of the same division and type,
still open, first reported within `Window` (20 minutes, `dedup.py:29`) of the present;
`NewestFirst` is its `ORDER BY first_reported_at DESC LIMIT 50`, with `Limit` for the
50. What comes back is then compared in Python (`Candidates`, with `Alike` for
`is_candidate`): near enough (`Near`), and reported within the window of each other.
`now` is the clock (`Tick`); a report has the time it arrived or, from a mesh node, the
time the node took it (`Observed`), so a late one has candidates among the incidents of
its own time that the query still returns. `Unlisted` reports have a type that the
table refuses.

`origin` (the report that opened an incident, when, and what its request could see)
and `closed` are history.

### Dispatch

A request reads its plan (`Decide`), resumes the agent thread over HTTP
(`AgentAccepts`, `AgentRuns` on agent-svc's side; `ResumeAnswered`,
`ResumeFails` on the caller's), updates the plan under its row lock
(`ReleasePlan`, `RejectPlan`, `TooLate`), and commits. A rejection then puts
back the plan's incidents one by one (`LookAt`, `GiveBack`, `WriteIncident`).
`PatchIncident` is an operator's status patch, with `LegalNext` the state
machine. Row locks, waiting and the deadlock detector are PostgreSQL's and
marked external. `Threaded` plans were proposed by a paused agent thread; for
the others, and for deployments with `NullResumer`, nothing is resumed.

### Alerting

`request` is where each `POST /alerts/{id}/dispatch` stands: `Read` is the two
conflicts, `Resolve` the directory, `StartSending` the UPDATE that takes the row
(`holder`), `Send` one channel's answer, `Store` the rows, receipts and the commit.
The unique key over an alert and a channel is `AlreadyStored`. `sent` and `undone`
are history: what left, and how many dispatches were rolled back after they had
begun to send. `Summary` (`delivery.summarise`) and `StoredSummary`
(`_summarise_rows`) translate the two functions that count the same thing from
different data; `Results` lets each channel say anything its adapter may say.

### Warning

A thread's checkpoint is `next` (the node to run) and `saved` (the values
the nodes have written). `execution` is one start or resume: a look at the
checkpoint (`LookToStart`, `LookToResume`), then an execution on a copy of the
values, which writes the checkpoint after every node (`Goto`) whatever another
execution wrote meanwhile. The nodes' actions carry their names; `AfterSelection`,
`AfterValidation`, `AfterSignoff` are the graph's routing functions, and what a
node concludes from forecasts, templates and exposure is a choice. An interrupted
node ran to its interrupt and runs again from the top with the answer
(`AskAPerson`, `Resume`, `TakeAnswer`). `resume_run` accepts an answer to any thread
with somewhere left to go (`agents.py:212`): one that an exception stopped at another
node runs that node on and the answer is lost (`Resume`). The dispatch node makes two requests of
`Alerting` (`DraftAlert`, `AskToDispatch`) and hears of the second, or times out
(`Fail`) while alerting-svc goes on (`Serve`). In this composition only the
agent drafts and asks, an operator signs off at the console,
and each execution's alert and request carry its name. LangGraph is external: its
actions are modelled from how the runtime uses it. `drafted`, `refused`,
`taken`, `failures` and `overlaps` are history: `refused` is written when a refusal is
accepted, with the state it found the run in (`Found`), `taken` when a gate takes an
answer, so a refusal that never gets there is not forgotten.

### DeviceSync

Rows of the operation log are numbers. `Start`, `Claim`, `Push`, `Receive`,
`Submit`, `Submitted`, `RefuseReport`, `EndBatch`, `Record`, `GiveUp` are the
engine's run; `PlanBatch` is `planBatch`, with the conditions at which it stops.
`LockCursor`, `ReadStored`, `Commit` are the server's transaction over a batch,
`CutOff` its rollback; a request the device gave up (`Abandon`) stays in flight
and may still commit. `Kill` ends the app anywhere in a run, leaving the log as
SQLite has it. When a run starts is left open, as triggers (connectivity, a
timer, a tap) are.

## 3. The runs

`tlc -config X.cfg MCModule` in this directory. Every bound is named in the
module that declares it.

| Run | Config | Shows |
|---|---|---|
| `ledger_chain` | `LedgerChain.cfg` | implements `AppendLog`, so the chain never forks; a reader misses nothing, lost attempts are commits of others, every append is answered |
| `aid_release` | `AidRelease.cfg` | one live payment, independent people, disputes hold money, one case per return; implements `PaymentPromise` |
| `anchors` | `Anchors.cfg` | an anchor misses only what was committed after its day, the published anchors implement `AppendLog`, every day is anchored in the end |
| `settlement` | `Settlement.cfg` | a lost race costs no other reversal, every return is reversed in its window, callbacks are answered |
| `outbox` | `Outbox.cfg` | duplicates only from faults, every committed event is published or stuck |
| `stream_delivery` | `StreamDelivery.cfg` | effects once, one message plus one per fault, acknowledged means handled, no worker waits for ever |
| `incident_queue` | `IncidentQueue.cfg` | two incidents of one event only from requests that could not see each other, after the first was closed, or past the limit of the candidate query; a resolved incident is reopened only by a request that was already past its check |
| `dispatch` | `Dispatch.cfg` | one approver is told, no unreasoned release, a rejection returns incidents and is final but for approvals on their way, every request ends |
| `alerting` | `Alerting.cfg` | sent twice only by a dispatch that was rolled back, closed means proved, the two figures agree, every dispatch ends |
| `warning` | `Warning.cfg` | a second alert needs a failure or an overlap, answers are kept, free text passes both gates |
| `device_sync` | `DeviceSync.cfg` | synced means stored, without gaps, the cursor hides nothing, every row is answered but for three ways to be stuck |
| `audit_overtaken` | `AuditChain.cfg` | a violation, see section 5 |

### Bounds, and why they are enough

- **LedgerChain**: three transactions, two entries each, two attempts. A writer
  can lose to both others and fail; a number drawn first can wait behind two
  commits. A fork needs two writers, a hidden entry needs one waiting writer and
  a reader. The code has four attempts; two already have a middle and a last.
- **Anchors**: two replicas, two releases, four days, one fault. Two days can be
  due at once (a backlog needs a failed or late run), two runs can overlap on it,
  and one release can commit after midnight beside one that does not. Of the last
  two days `EveryDayIsAnchored` says nothing: a run that fails sleeps until the next
  midnight, and the calendar must have one left. Replicas stop when the calendar
  ends, so deadlock is not checked.
- **AuditChain**: three entries and any range; two entries suffice for the
  counterexample.
- **AidRelease**: an assessor with an approving role, one DS and two district
  officers (a large payment needs four different people), two concurrent requests.
  The bounds depend on the size of the amount. The rail makes two transfers of a large
  amount (`Transfers`), the second after a return or beside the first, and its household
  may raise one complaint (`Complaints`); a small amount is transferred once and nobody
  complains, as its releases are those of a large amount that need less. The cases the
  platform opens for a return are not bounded, so a return reported twice could have
  two. Requests are reused, so a behaviour has many; races in the code are between two
  statements of two transactions. `Symmetric` swaps requests and district officers; the
  run's properties are safety, so symmetry is sound.
- **Settlement**: two payments (an earlier reversal of the pass to lose), two
  replicas and a callback, one fault, a window of four passes.
- **Outbox**: two events, two replicas, two attempts, two faults.
- **StreamDelivery**: one event with two entries on the stream (original and
  duplicate or replay), two racing workers in a group with side effects, one in
  a group without, one fault.
- **Dispatch**: three requests, two plans listing the same two incidents in
  opposite orders (two rejections can deadlock), two dispatchers, one plan with a
  thread and one without. Requests are handled once, which is why the run does
  not check deadlock: it ends.
- **IncidentQueue**: three incidents, two requests at once, over a report by app and
  one that a mesh node took one unit of time earlier, each sent as often as its sender
  likes; the node may send its report twice in one batch, or together with one whose
  type the table refuses. The two are of one division and type but too far apart to be
  duplicates, so each can push the other's incident out of a query that returns one row
  (`Limit`); the third incident is then the duplicate nobody raced for. `Window` and
  `Horizon` are one: at the last moment the mesh report's own time is a window and
  more ago. People work on the app's incidents (`Handled`) and move them to RESOLVED
  (`Targets`); split, merge and returned plans reach the other statuses. Incidents and
  requests are interchangeable, and the run checks safety, so symmetry is sound. A
  behaviour ends when time has run out and every incident is closed, so deadlock is not
  checked.
- **Alerting**: one alert, two dispatches, one process that dies; two households on
  one phone and one without, so that targets and households differ; a channel that
  confirms or fails and one that confirms or does not know, so that every pair of
  verdicts meets on a target, and each may raise.
- **Warning**: three starts and resumes of one subject. The first may draft, the
  second may overlap it or take its answer, the third meets what both left; a
  second run of the subject is among them. One node may fail for each run, one
  request of alerting-svc may die. One household and one channel: who is reached is
  `Alerting`'s question. Executions are interchangeable (they name their own alert
  and request), and the run checks invariants.
- **DeviceSync**: three rows of any of three kinds, batches of two, two pushes in
  flight, one push given up, one kill. Larger instances (two faults; batches of
  one; four rows) were checked while the module was written and passed.

Other runs without deadlock checking are those whose system may stop: the
stream has no more entries within `MaxStream`.

### Fairness

- Statements of a running transaction are weakly fair (`Advance`, `Work`,
  `Report`, `Handle`): an open transaction goes on, waits for a lock, or ends.
- The advisory lock of a chain is strongly fair (`TakeLock`): PostgreSQL serves
  lock waiters in order of arrival, so a waiter is not overtaken for ever.
- In `Anchors` time passes (`Midnight`), a request's transaction ends (`EndRelease`),
  and a worker that is due goes on (`Tick`): `_loop` never ends while the process
  lives. `FailRun` and `Restart` are not fair and are bounded.
- The loop of the outbox worker and of the settlement worker is weakly fair (`Publish`
  per replica, `Work`): it runs on a timer and catches exceptions. A consumer's
  subscription is weakly fair while it lives (`Work` in `StreamDelivery`); that one
  begins again after it ended is not assumed, as no loop of a consumer does it
  (`Subscribe` is not fair). `Die` and `LoseBatch`, the faults, are not fair,
  and are bounded.
- The deadlock detector is part of a request's fairness in `Dispatch`:
  PostgreSQL aborts one of a cycle of waiters.
- `Outbox` assumes `<>[][~ResetStuck]_vars`: an operator does not reset the same
  rows for ever.
- In `DeviceSync` `Start` is fair (a run is triggered again and again while rows
  wait), `Proceed` is fair (the engine goes on with its run) and `Serve` is (the
  server ends a transaction). Kills and given-up requests are not.
- In `Alerting` a handler that runs goes on (`Work`); nobody has to draft, sign or
  cancel, and `Abort` is not fair and is bounded.
- `IncidentQueue`, `Warning` and `AuditChain` check safety and assume none.
- Nothing else is assumed: households, officers, operators, the rail's decisions
  and the calendar may stop for ever.

### What each property excludes

The comment above each property quotes the code or document it is about, and
every property of a passing run has in `PROJECT.json` a mutant of a mapped
definition (a dropped predicate, a swapped order, a forgotten reset) under which
TLC finds it violated.

## 4. The proofs

`tlapm XProofs.tla` checks a proof module. The theorems hold for every value of
the constants that satisfies the assumption named in the specification
(`ChainAssumption`, `AidAssumption`, ...). The assumptions only type the
constants (bounds are natural numbers, `Nobody` is nobody, the sets of roles are
subsets of the people, a phone is no household, adapters report the statuses of
their enumeration); nothing about the code is assumed. The caps (`MaxFaults`,
`MaxTransfers`, ...) are arbitrary too: the theorems are not about small
instances.

In every proof module `IInv` (`AlertingIInv`, `WarningIInv`) is the inductive
invariant: the initial states
satisfy it (`InitIInv`), every action keeps it (one lemma per action where there
are many), and it implies the properties. Why each needs strengthening:

- **LedgerChainProofs** — `TypeCorrect`, `ChainNeverForks`, `ReaderComplete`,
  `ChainImplementsLog`, `LostRaceIsACommit`, `FailureCostsCommits`, `LockHasAnOwner`. `NoFork` alone says nothing of rows
  not yet committed. The invariant adds: uncommitted rows exist only under the
  lock (`LockGuardsRows`), the number of an INSERT in flight is above the tail it
  was based on (`SeqAboveTail`), so uncommitted rows are above everything
  committed (`MineAbove`), and each transaction sees one chain
  (`VisibleLinear`). The refinement follows: a commit is a `Publish`. Each lost
  attempt is charged to a commit, so an append that gives up was overtaken as often
  as it tried.
- **LedgerChainProofs**, the anchors — `OnlyLateIsMissing`, `AnchorsFormAChain`,
  `AnchorsAreALog`, `AnchorsAreFinal`, `AnchorWaitsGoForward`. A
  release that may still be committed is stamped with today or yesterday
  (`ReleasesAreRecent`). A run lists days before its own today; of those, none but
  the last can still grow, so that each of the others with entries is still to come
  or has a row the run sees (`WorkIsListed`); it works forward, so
  the newest row it sees is the row of the last such day. That has to hold while a
  second run commits rows of the same backlog, which it may do only for dates that
  the first does not hold. The greatest of a set of dates comes from the library's
  theorem that strict inclusion of finite sets is well-founded. The refinement
  follows from what each published anchor keeps: no day before it with entries is
  without one (`NoHoleBefore`), so the days a run commits lie after all of them, those
  a rival committed meanwhile included. TLC checked the whole invariant (`AnchorsInv`)
  before it was proved.
- **LedgerChainProofs**, the audit log — `FalseAlarmsAreOvertakes`, `OvertakenIsBroken`,
  `OvertakesAreFound`, `AuditIsALogInOrder`: a check of an
  untouched log reports a divergence only of an overtaken entry or of a range that
  begins ahead of the log (`DivergenceNeedsAnOvertake`). Who holds the lock names the
  tail (`TailIsHeld`); as long as nothing is overtaken the log is one chain and what
  a check has read before its range stays right (`CheckIsSound`). The converse holds
  too: an overtaken entry names a greater number than its own
  (`LateShows`), and no later append repairs that, so the log is one chain
  exactly when nothing was overtaken and a check of such a range never fails to
  report it. TLC checked the
  invariant (`AuditInv`) and the property before they were proved.
- **AidReleaseProofs** — `TypeCorrect`, `NeverPaidTwice`,
  `JudgementsStayIndependent`, `ApprovalsBySeparatePeople`, `DisputesHoldMoney`,
  `ReturnsHaveOneCase`, `PaymentsKeepPromise`, `LostMoneyIsNeverFound`. Approvals only accumulate, so what
  a request read stays true (`ReadsStand`); an unmoved chain tail means that
  nothing was added since the trigger looked (`WriteIsIndependent`), which is
  what makes an unlocked segregation trigger sound; the rail's reference belongs
  to one release until it is recorded (`RefsOwned`).
- **SettlementProofs** — `TypeCorrect`, `OnlyTheReturnedIsReversed`,
  `RefusalCostsNoReversal`, `OpenReversalsUnderLock`. A transaction holds the chain's lock exactly when it
  has an uncommitted reversal (`HolderAppended`), and what the rail returned
  stays returned (`RecordsReturned`).
- **SendingProofs**, the outbox — `TypeCorrect`, `NothingLostNothingInvented`,
  `ReplicasDoNotDoublePublish`, `FinishedRowsStay`. Row locks make the claims of replicas disjoint
  (`ClaimsExclusive`), and copies of an unacknowledged row are paid for by
  faults (`UnacknowledgedCopies`).
- **SendingProofs**, alerting — `RepeatsAreRollbacks`, `ClosedHasItsProof`,
  `FiguresStayTheSame`, `UnsignedTextStays`, `OneIsTold`, `RecordsAreFinal`. What was sent exceeds what was rolled back and recorded by
  one while a request holds the row; that alone is not inductive, because the
  channel may have been served before or after. The invariant says which: only the
  holder sends (`HolderSends`), and the extra message is one the holder has its
  answer for (`HolderAnswers`), so storing the answers turns it into the record and
  rolling back into `undone`. `OneAnswerCoversAll` and `TargetsAreCounted` are the
  two facts about counting that the figures rest on. A dispatch that got past its
  conflicts did so on a row that was cleared, and clearing is never taken back
  (`Cleared`), though the row may change in between: that is why no stale read sends
  unsigned text.
- **SendingProofs**, the warning agent over alerting — `OneRunOneAlert`,
  `AnswersDecide`, `BothGatesHold`, `RecordedHasItsProof`, `AgentCallsAlerting`. `drafted` says nothing of
  what may still be drafted: `Tokens` counts with it every execution of the run that
  has not reached the draft and, when nobody executes the run, a checkpoint from
  which a resume might; a node passes its token on, a pause leaves it at the
  checkpoint, and a resume takes it from there unless it overlaps. That needs a run
  to stay on one thread (`RunsStay`) and a fresh one to have left no trace
  (`Unbegun`). `Alone`: without overlaps there is one execution at a time, at the
  node of the checkpoint, so a refusal the gate takes ends the run for good, and one that
  finds the run asking is on its way there (`Gated`); a run at rest anywhere else has
  failed before. What the values claim
  was answered or dispatched is true wherever they are held (`Honest`), which a copy
  loaded before somebody else's write relies on; each execution asks for its own
  alert (`OwnAlert`), so what it hears is about it. TLC checked the whole
  invariant on the instance of `warning` before it was proved. The steps of
  alerting-svc are those of `Alerting`, whose invariant the proof reuses;
  `AgentCallsAlerting` says so as a refinement: every step of the composition is a step
  of `Alerting` or leaves its variables alone, so that `Alerting`'s theorems hold below
  the agent.
- **StreamDeliveryProofs** — `TypeCorrect`, `EffectsCommitOnce`, `MessagesArePaidByFaults`,
  `AcknowledgedWasHandled`, `EntriesAreHandedOnce`, `LostIsNeverFound`. A worker that handles holds the only claim on the
  event in its group and finds no record of it (`ClaimIsAlone`, `ClaimIsFirst`);
  a message not on record is in the hands of one worker (`SentIsAnswered`). A group's
  hands are disjoint because its read position moves past what it gives out
  (`ReadGives`, `HandsStayApart`); the same position is why nobody is given an entry
  again.
- **IncidentQueueProofs** — `TypeCorrect`, `DuplicatesHaveReasons`, `ResolvedStays`.
  What the second of two incidents is excused by has to stay true once its row is
  there: what its request saw is fixed with it, nobody changes a time of report, and
  `closed` only grows. At the moment it is opened the query's rows decide: if the first
  incident is open and matches, either it is among them, and the report is added to it,
  or the query returned its limit of rows at least as new, all of which the request saw
  (`Crowd`); counting those is a matter of subsets of a finite set. The invariant says
  who sees whom: rows of an open submission belong to it alone (`RowsHold`,
  `OnlyIntakeInserts`), and what a request has seen is committed or goes when its own
  incident goes (`SawHolds`).
- **DispatchProofs** — `TypeCorrect`, `OneRelease`, `ReasonedRelease`,
  `FinalRelease`, `RejectionReturnsIncidents`, `RejectionStands`,
  `RejectionsAloneDeadlock`. A plan's row lock belongs to one transaction, and what its
  UPDATE found is still true when it commits (`HolderMayDecide`). For `RejectionReturnsIncidents`, a rejection's loop has put
  back, or seen closed, every incident that is not still to come (`LoopCovers`), and
  only a patch closes an incident (`ClosedIsPatched`).
- **DeviceSyncProofs** — `CursorCorrect`, `TypeCorrect`, `SyncedCorrect`, `StoredOnceCorrect`,
  `GaplessCorrect`, `RepeatCorrect`, `ServerRecordIsALog`, `AnswersAreFinal`,
  `CursorNeverGoesBack`, `CursorIsBehind`. On the server everything at or below the
  cursor is settled (`Covered`), also for the cursor a transaction read before
  another committed (`InFlight`); were something below an applied operation
  unsettled, the least member of the batch above it would be a gap and the plan
  would have stopped. That needs a least member of a set of numbers; `LeastOf`
  derives it from the library's theorem that strict inclusion of finite sets is
  well-founded. `CursorCorrect` (`NothingBehindCursor`) needs a second invariant on
  top, `CursorInv`: a row with no report in front of it that the server may know of
  and the device has no answer for is within reach of the next batch (`Waits`), so
  a push always carries it (`Carried`) and the answer that moves the cursor over it
  answers it too; nothing can be left syncing in front of such a batch (`Jam`), and
  a commit moves the cursor only over rows the server had been sent
  (`CommitOfSent`). TLC checked `CursorInv` before it was proved, with three rows
  and with four. A third one, `BeliefInv`, orders the four cursors (the device's, the
  run's, the answer's, the server's) and ties an answer to the rows of the batch. The
  record is a log because everything at or below the server's cursor is on record or
  refused (`InsertsAreLast`), and any set of numbers read in order is linear
  (`LogIsLinear`).

Read by what they say, the theorems fall into four groups.

*Refinements.* `ChainImplementsLog`, `AnchorsAreALog`, `ServerRecordIsALog` and, as long
as numbers are linked in the order they are drawn, `AuditIsALogInOrder` state one
promise, `AppendLog`, of four logs that are kept by four mechanisms: an advisory lock
and a comparison; a unique date and the order a backlog is worked off in; a cursor and a
plan; an advisory lock alone, which is not enough. `PaymentsKeepPromise` and
`AgentCallsAlerting` are the other two.

*Safety halves of liveness.* That a transaction ends is outside the prover. That nothing
it needs is withheld for good is not: locks belong to transactions that can end
(`LockHasAnOwner`, `OpenReversalsUnderLock`), replicas of the anchor worker wait only
forward (`AnchorWaitsGoForward`), requests over plans wait in a circle only within
rejections (`RejectionsAloneDeadlock`; the deadlock detector ends those), and an append
that gives up paid for progress elsewhere (`FailureCostsCommits`).

*Finality.* What later steps may not undo: published anchors, finished outbox rows,
receipts and signatures, releases, answers on a device, its cursor. Two are final only
once nobody who read the row before is still on the way, and the theorems say just
that: `RejectionStands` and `ResolvedStays`. Two are losses: `LostMoneyIsNeverFound` and
`LostIsNeverFound` say that the code has no path that finds what section 5 calls lost.

*Invariants* of what is paid, sent, stored, shown and signed: the others.

**Only model-checked.** Liveness under fairness and anything with `ENABLED` is
outside the prover: `EveryAppendAnswered`, `EveryDayIsAnchored`, `ReturnedIsReversed`,
`ReportIsAnswered`, `CommittedIsPublishedOrStuck`, `HeldIsAcknowledged`,
`EveryRequestEnds`, `EveryDispatchEnds`, `DeviceCatchesUp`. Every safety property
the passing runs check is proved. The proofs also carry properties that no run repeats:
the type invariants; `NoFork`, `AnchorsAreLinked` and `OneLivePayment`, which
`Published`, `AnchorsImplementLog` and `KeepsPromise` contain; `ReleaseIsFinal`,
`StoredOnce`, `EmittedIffCommitted`, `OnlyReturnedIsReversed`, `RecordedIsProved`; and
the properties of the theorems above that name no run in `PROJECT.json`. TLC checked
every one of them on the instance of its module's run before it was proved; to repeat that, add its
name to the run's config.
Induction over data with an operator parameter is outside the prover as well, so
nothing is proved about recursive definitions; the modules have none.

## 5. Where code and documentation disagree

One run ends in a counterexample of a sentence the repository says about itself
(`findings` in `PROJECT.json` quotes it):

- `audit_overtaken`: `/audit/verify` answers "has this record been edited since it was
  written" (`core_api/api/v1/audit.py:121`). An entry that waited for the lock while a
  greater number was committed names that entry as its predecessor, and the check of
  an honest log reports a divergence. The ledger's chain is safe from it, because
  there the trigger refuses what it does not expect (`TailUnmoved` in `LedgerChain`).

Seen while modelling, in the models' behaviours, and without a run of their own
(TLC showed each of the first eight as a counterexample when its module was written):

- A rejected plan cannot be approved (`tests/incident/test_dispatch_gate.py:165`). An
  approval that read the plan before the rejection committed finds `signed_off_by`
  still empty (`RejectedStaysRejected` in `Dispatch`; `RejectionStands` proves that there
  is no other way).
- "A refused release leaves nothing behind" (`disbursement_gate.py:10`). The rail is
  called before the append; a lost race for the live-payment index, a refusing
  trigger, an exhausted chain retry or a crash after it leaves money moved and no
  entry, and the next release sends again.
- "The event is not acknowledged and will be redelivered" (`bus.py:95`). `subscribe`
  reads only `>`, and nothing reads or claims pending entries; the exception also
  ends the subscription, dropping the rest of its batch.
- "Its whole job is to be safe to interrupt" (`engine.ts:5`). Rows left `syncing` by a
  killed run stop `planBatch` for ever; and a report takes a number of the same
  sequence as assessments but goes another way, so the server sees a gap before every
  later assessment. `DeviceCatchesUp` names both as ways to be stuck.
- With an Idempotency-Key "a retry on a failing network cannot become a second
  emergency in the queue" (`incident_svc/api/v1/reports.py:137`). The key is looked up
  nowhere; a retry after the window, or beside the first request, opens a second
  incident.
- The rule for duplicates is "same GN division, same incident type, within 300 metres,
  within 20 minutes" (`incident_svc/domain/dedup.py:3`), but the candidate query returns
  the fifty newest open incidents of a division and type and the distance is measured
  after that (`incident_svc/repo/queries.py:184`): with more open, the matching one may
  be the fifty-first, and a second incident is opened without any race, and without its
  reports being flagged. `SecondHasAReason` names this case.
- A stale client must not reopen a resolved incident (`incidents.py:300`), but the
  UPDATE at `:329` is by id alone: patch, merge, split and reject write over whatever
  the row has become.
- A run stopped because no template fitted "goes back through selection carrying the
  operator's chosen code" (`agents/warning/graph.py:1162`). A second run of a subject
  still has the first one's validation in its checkpoint (`runtime/state.py:154`), so
  the answer goes straight to dispatch (`ValidatedThisRun` in `Warning`).
- "The service anchors the same payloads it publishes. If these ever diverge, an honest
  ledger fails verification" (`tests/ledger/test_public_feed.py:79`). A release decided
  before midnight and committed after its day was anchored is missing from that
  anchor for ever, and the published feed, which counts it on the day it is stamped
  with, disagrees with the anchor (`AnchorCoversItsDay` in `Anchors`).

- (a) A refusal counts as a signature in the status: a DISTRICT refusal and a DS
  approval of a large amount give APPROVED (`entitlements.py:340`), which the gate
  never accepts (`approval.py:97`).
- (b) The release queue ignores REJECTED (`entitlements.py:170`), though "the queue
  and the disbursement gate answer from the same rule" (`:161`).
- (c) "Every event about one citizen's report arrives in order" (`envelope.py:102`),
  but a failed or locked row is overtaken (`publisher.py:86`).
- (d) A crash between a text message and its commit sends it again
  (`payment_notices.py:253`, against `:218`); `SentOncePerFault` counts exactly this.
- (e) "Re-deliver a window of history to one consumer group" (`bus.py:109`), but a
  replay is added to the shared stream and reaches every side-effect-free group
  (`redis_streams.py:250`).
- (f) A crash forgets the marks of a whole batch, acknowledged or not
  (`publisher.py:54`, against `:50`).
- (g) A refusal resumes too: "'No' is a decision and the graph has a path for it"
  (`agents.py:194`). `resume_run` checks only that the thread has somewhere left to go
  (`:212`). Sent to a run that an exception stopped at another node, a refusal is
  dropped, like an approval: the run goes on at that node and may draft and dispatch.
  `AnswersAreKept` counts refusals when they are accepted, and says that this one is
  lost only by a run that has failed, any other only by racing an execution.
- (h) agent-svc says that `approve` "has already run by the time the graph is
  resumed" (`agents/triage/graph.py:119`); the resume comes before the UPDATE.
- (j) Whoever released a payment may afterwards sign the level nobody signed
  (migration `0004:34`), although approval and release are "separate decisions by
  separate people" (`:98`).
- (k) A pass that read its list before a household confirmed overturns the
  confirmation (`settlement.py:101`, against `test_settlement_poller.py:282`).
- (l) The pass asks about the oldest 200 payments, and settled ones never leave that
  list (`queries.py:828`), although it is to "ask the rail about every payment whose
  outcome is still unknown" (`settlement.py:185`). `ReturnedIsReversed` fails as soon
  as `Limit` is smaller than the number of payments in the window.
- (m) A full batch of rows the server holds back is followed by the same batch for
  ever (`engine.ts:377`).
- (n) A refused report becomes a conflict "instead of blocking everything behind it
  forever" (`engine.ts:396`), but `planBatch` stops at any conflict and nothing
  resolves one.
- (o) `db/session.py:21` says SERIALIZABLE; nothing sets it.
- (p) A mesh node's batch says that one bad report does not cost the others
  (`channels.py:191`), but the batch is one transaction, and a report whose type the
  table refuses rolls all of it back; for the same reason "Durable first" in the intake
  holds only if the rest succeeds.
- (q) `dlr.py:3` says that a gateway's report turns SENT into DELIVERED, but receipts are
  append-only in the database (`alerting_svc` migration `0003`), so the UPDATE at
  `repo/queries.py:164` always fails.
- (r) A household nobody can reach is to appear as NO_CHANNEL among the gaps
  (`alerts.py:445`), but no adapter answers NO_CHANNEL, and the push adapter answers SENT
  for everyone. `alert_gaps` groups by a prefix of a hash, not by division.
- (s) Cancelling emits no CAP Cancel, although its docstring says so, and a dispatch that
  read the alert before writes DISPATCHED over CANCELLED (`alerts.py:309`).
- (t) A timeout of ten seconds is told to people as "Nothing was sent"
  (`adapters/warning.py:360`) while alerting-svc goes on sending; the run resumed after it
  drafts another alert. `SecondAlertNeedsAFailure` counts exactly these.
- (u) Someone is asked about a template at most once (`graph.py:1163`), but
  `_after_selection` returns to the question as long as nothing fits.
- (v) Answering a run whose validation found problems skips the dispatch, and the run
  still records "warning.alert.dispatched".
- (w) The agent looks for receipts under its own id of an alert, alerting-svc files them
  under another, so a run finds none.
- (x) A removed day is to be as detectable as an altered row
  (`tools/sarana-verify/README.md:110`, migration `0009`), and the anchors' links would
  show it (`AnchorsImplementLog`), but the verifier reads `prev_anchor_hash`
  (`verify.py:213`) and compares it with nothing.
- (y) "Days with no disbursements happen, and they still get an anchor"
  (`crypto/merkle.py:58`), but the worker never anchors such a day
  (`workers/anchor.py:86`), and the table refuses it.
- (z) "Three attempts ... then the envelope and every failure's traceback go to the
  dead-letter queue" (`events/dlq.py:3`), but no consumer calls `record_failure`.

Observations without a contrary sentence: after a resume whose caller crashed or
timed out the plan stays undecided with a spent thread, every approval is refused,
and only a rejection is left; two merges in opposite directions leave both
incidents DUPLICATE (`incidents.py:333`); nothing inserts plans through
incident-svc and a release moves no incident to DISPATCHED; `record_reversal` never
reads `citizen_confirmed`; a pass keeps the reversal chain's lock while it waits for
the rail; `XADD MAXLEN` trims entries nobody has read (`redis_streams.py:86`); in
the first phase's wiring the ledger's rail invents references that the government
mock does not know; a batch refused with 401, 403 or 422 is sent again at every
trigger; an assessment of an unlisted category sent alone is stuck as a conflict,
inside a batch the cursor passes over it; the first push of a device has no cursor
row to lock; a report with no place stays RECEIVED for ever, and RECEIVED to LINKED
is not among the transitions of reports; a merge never checks the status of its
target, and a patch may write DUPLICATE without a merge; late reports of one event
never match each other; if every channel raises, the stored figures say 0 of 0 where
the dispatcher was told how many have no channel (`FiguresAgree` excepts this case);
an empty list of targets is dispatched; quiet hours and deferred channels of the
agent's plan are not in what it sends to alerting-svc; free text is refused with a
conflict until somebody signs it off there, and each answer in the agent's inbox
until then drafts another alert; a run whose execution raised is neither finished nor
interrupted: starting the subject again only rejoins it, and it is in nobody's inbox;
two starts of one subject that look at the thread together are two runs, each of which
may draft (`SecondAlertNeedsAFailure` bounds the alerts of a run, not of a subject).

## 6. What is not modelled

- **Cryptography, tokens, scopes**: functions over bytes and claims. A digest is
  injective in `LedgerChain`; a missing scope or step-up is a refusal that leaves
  nothing behind (`Abort`, `Refuse`).
- **Amounts, cost schedules, deduplication scores, forecasts, wording of messages**:
  data the properties do not tell apart.
- **Entries of other tables in the chain**: `AidRelease` follows one entitlement; an
  entry of another entitlement appears as a tail that moved.
- **Trimming of the stream, EventBridge, the in-memory bus, the replay tool.**
- **Dead letters**: nothing outside the tests records one, see (z), so their store is
  empty in every state the platform reaches.
- **The object store of the anchors**: nothing configures one.
- **Two sync engines at once on one device**: `OfflineProvider.tsx` keeps one; a
  re-created memo could in principle overlap the old one.
- **The media queue** waits for an upload the platform does not offer yet, and
  `purgeSynced` has no caller; were it called with reports above the cursor it would
  open a hole.
- **Templates, their review, CAP documents, delivery reports of gateways**: the first
  three decide whether an alert exists; the last always fails, see (q).
- **The other agents' graphs, their tools and evaluations**: what they conclude is a
  choice wherever it enters a model.
- **Sessions, codes, lockout**: their correctness is a question of secrets and
  attackers, which these models do not have.
- **Screens, infrastructure, seeds, the government mock's chaos switches.**

## 7. Plan

Done: the money path (`LedgerChain`, `Anchors`, `AidRelease`, `Settlement`), the audit log
(`AuditChain`), the dispatch gate,
intake and queue (`IncidentQueue`), events (`Outbox`, `StreamDelivery`) and device
sync, alerts and the warning agent (`Alerting`, `Warning`), each checked and proved.

Next, in this order:

1. The circuit breaker of the gateway: a probe whose caller goes away.
2. The graphs of the triage, intake and anomaly agents, over the threads of `Warning`.
3. A composition of `Outbox` with `StreamDelivery` (from commit to effect, once), and
   the replay tool.
4. The rest of device sync: the media queue, the import of another device's queue.

Still to be proved: that `Settlement` implements `PaymentPromise` payment by payment,
as `AidRelease` does for one entitlement; an abstract at-least-once delivery that
`Outbox` and `StreamDelivery` implement in turn, so that their theorems compose; and
the bounds the models leave open (how long `ResolvedStays` and `RejectionStands` have
to wait for a request that is on its way).

New checks take the place of violation runs and of the weaker properties, so that
each run keeps asking one question.
