---------------------------- MODULE IncidentQueue ----------------------------
(***************************************************************************)
(* Incidents in incident-svc: how reports open them or join them           *)
(* (service/intake.py, domain/dedup.py, api/v1/reports.py,                 *)
(* api/internal/channels.py) and how people move, merge, split and return  *)
(* them (api/v1/incidents.py, api/v1/dispatch.py).                         *)
(*                                                                         *)
(* Every HTTP request is one transaction, READ COMMITTED: it reads, checks *)
(* what it read, and writes by id, in separate steps; an UPDATE waits for  *)
(* a row another open transaction has updated.  Requests are workers that  *)
(* take one call after the other, so a client may send the same report     *)
(* again as often as it likes.                                             *)
(*                                                                         *)
(* What is only ever inserted (raw reports, their links, scores, events)   *)
(* or copied (the cluster of a merge) and never guards a step is left out. *)
(***************************************************************************)
EXTENDS Integers, Sequences, FiniteSets, IncidentStates

CONSTANTS
    Incidents,    \* ids, bound on how many incidents are opened
    Requests,     \* requests in flight at one time
    Keys,         \* reports as their senders know them, sent as often as they like
    Batches,      \* what one request carries: a report, or a mesh node's buffer
    Areas,        \* a division and a type of incident
    AreaOf,       \* where each report places itself, or Nowhere
    Near,         \* pairs of reports at most PROXIMITY_METRES apart
    Observed,     \* the time a mesh node gives a report; None: that of its arrival
    Unlisted,     \* reports whose type the incident table refuses
    Window,       \* WINDOW_MINUTES
    Limit,        \* LIMIT of _DEDUP_CANDIDATES
    Horizon,      \* bound on the clock
    Handled,      \* bound: the reports whose incidents people work on
    Targets,      \* bound: the statuses operators move incidents to
    Nowhere, Absent, None

ASSUME QueueAssumption ==
    /\ IsFiniteSet(Incidents)
    /\ AreaOf \in [Keys -> Areas \cup {Nowhere}]
    /\ Observed \in [Keys -> Int \cup {None}]
    /\ Unlisted \subseteq Keys
    /\ Batches \subseteq Seq(Keys)
    /\ Targets \subseteq IncidentStatuses
    /\ Absent \notin IncidentStatuses
    /\ Window \in Nat /\ Limit \in Nat /\ Horizon \in Nat

VARIABLES
    now,                \* the time
    status,             \* incident.status; a row is its writer's until it commits
    origin,             \* how an incident was opened
    closed,             \* incidents that have been closed at some time
    op, pc,             \* what each request does, and where its handler stands
    todo, rows,         \* a submission: reports to come, incidents not committed
    locks               \* rows a merge has updated and not yet committed

incidentVars == <<status, origin, closed>>
handlerVars == <<op, pc, todo, rows, locks>>
vars == <<now, incidentVars, handlerVars>>

\* What a transaction can see: what is committed, and its own rows.
Exists(i) == status[i] # Absent /\ \A q \in Requests : i \notin rows[q]
Sees(q, i) == Exists(i) \/ i \in rows[q]

NoOp == [kind |-> "none"]
Ops == {NoOp}
       \cup [kind : {"submit"}, batch : Batches, at : Int]
       \cup [kind : {"change"}, incident : Incidents, to : IncidentStatuses]
       \cup [kind : {"merge"}, incident : Incidents, into : Incidents]

\* The report that opened an incident, first_reported_at, when its handler looked
\* for duplicates, and the incidents it could see then.
Origins == [key : Keys, first : Int, looked : Int, saw : SUBSET Incidents]

Init ==
    /\ now = 0
    /\ status = [i \in Incidents |-> Absent]
    /\ origin = [i \in Incidents |-> None]
    /\ closed = {}
    /\ op = [q \in Requests |-> NoOp]
    /\ pc = [q \in Requests |-> "idle"]
    /\ todo = [q \in Requests |-> <<>>]
    /\ rows = [q \in Requests |-> {}]
    /\ locks = [q \in Requests |-> {}]

\* The transaction is over, and with it its row locks.
End(q) ==
    /\ op' = [op EXCEPT ![q] = NoOp]
    /\ pc' = [pc EXCEPT ![q] = "idle"]
    /\ todo' = [todo EXCEPT ![q] = <<>>]
    /\ rows' = [rows EXCEPT ![q] = {}]
    /\ locks' = [locks EXCEPT ![q] = {}]

\* get_session rolls back: what the transaction inserted was never there.
Rollback(q) ==
    /\ status' = [i \in Incidents |-> IF i \in rows[q] THEN Absent ELSE status[i]]
    /\ origin' = [i \in Incidents |-> IF i \in rows[q] THEN None ELSE origin[i]]
    /\ End(q)
    /\ UNCHANGED <<now, closed>>

Put(i, s) ==
    /\ status' = [status EXCEPT ![i] = s]
    /\ closed' = IF s \in Closed THEN closed \cup {i} ELSE closed
    /\ UNCHANGED <<now, origin>>

Start(q, o, phase) ==
    /\ pc[q] = "idle"
    /\ op' = [op EXCEPT ![q] = o]
    /\ pc' = [pc EXCEPT ![q] = phase]

Tick ==
    /\ now < Horizon
    /\ now' = now + 1
    /\ UNCHANGED <<incidentVars, handlerVars>>

-------------------------------------------------------------------------------
(* Intake.                                                                 *)

Unused == {i \in Incidents : status[i] = Absent}

\* The bound on ids: enough are left for the submissions in flight.
ToCome == UNION {{<<q, n>> : n \in DOMAIN todo[q]} : q \in Requests}

\* submit_report, sms_inbound, lora_batch and the other channels.  A sender may
\* send again; the Idempotency-Key is not looked up.
Submit(q, b) ==
    /\ Cardinality(Unused) >= Len(b) + Cardinality(ToCome)
    /\ Start(q, [kind |-> "submit", batch |-> b, at |-> now], "accept")
    /\ todo' = [todo EXCEPT ![q] = b]
    /\ UNCHANGED <<now, incidentVars, rows, locks>>

\* The next report of the request, received_at, and whether core-api places it.
Next1(q) == Head(todo[q])
ReceivedAt(q) == IF Observed[Next1(q)] = None THEN op[q].at ELSE Observed[Next1(q)]
Placed(q) == todo[q] # <<>> /\ AreaOf[Next1(q)] # Nowhere

\* _DEDUP_CANDIDATES: every status an open incident may have.
Worked == IncidentStatuses \ Closed

\* Its WHERE: open, same division and type, first reported within the window.
Matching(q) ==
    {i \in Incidents :
        /\ Sees(q, i)
        /\ status[i] \in Worked
        /\ AreaOf[origin[i].key] = AreaOf[Next1(q)]
        /\ now - origin[i].first <= Window}

\* A mistake: ORDER BY first_reported_at, the oldest first.
OldestFirst(M) ==
    {R \in SUBSET M :
        \/ R = M /\ Cardinality(R) <= Limit
        \/ /\ Cardinality(R) = Limit
           /\ \A i \in R, j \in M \ R : origin[i].first <= origin[j].first}

\* Its ORDER BY first_reported_at DESC LIMIT; of equals, any.
NewestFirst(M) ==
    {R \in SUBSET M :
        \/ R = M /\ Cardinality(R) <= Limit
        \/ /\ Cardinality(R) = Limit
           /\ \A i \in R, j \in M \ R : origin[i].first >= origin[j].first}

\* is_candidate: reports at most the window apart, either way, and near.
Alike(k, l, s, t) ==
    /\ AreaOf[k] = AreaOf[l]
    /\ <<k, l>> \in Near
    /\ s - t <= Window /\ t - s <= Window

\* find_candidates, among the rows R of the query.
Candidates(q, R) ==
    {i \in R : Alike(origin[i].key, Next1(q), origin[i].first, ReceivedAt(q))}

Take(q) ==
    /\ todo' = [todo EXCEPT ![q] = Tail(@)]
    /\ UNCHANGED <<now, closed, op, pc, locks>>

\* accept(): no place, or no answer from core-api; the report is kept as it is.
KeepUnplaced(q) ==
    /\ todo[q] # <<>>
    /\ Take(q)
    /\ UNCHANGED <<status, origin, rows>>

\* accept(): linked to a candidate, which stays as it is.
LinkToCandidate(q) ==
    /\ Placed(q)
    /\ Next1(q) \notin Unlisted
    /\ \E R \in NewestFirst(Matching(q)) : Candidates(q, R) # {}
    /\ Take(q)
    /\ UNCHANGED <<status, origin, rows>>

\* accept(): no candidate, insert_incident: REPORTED, first_reported_at from the
\* report.
OpenIncident(q) ==
    /\ Placed(q)
    /\ Next1(q) \notin Unlisted
    /\ \E R \in NewestFirst(Matching(q)) : Candidates(q, R) = {}
    /\ \E i \in Unused :
          /\ status' = [status EXCEPT ![i] = "REPORTED"]
          /\ origin' = [origin EXCEPT ![i] =
                 [key |-> Next1(q), first |-> ReceivedAt(q), looked |-> now,
                  saw |-> {j \in Incidents : Sees(q, j)}]]
          /\ rows' = [rows EXCEPT ![q] = @ \cup {i}]
    /\ Take(q)

\* type_known: the incident row is refused, and with it everything the request
\* has inserted so far.
RefuseType(q) ==
    /\ Placed(q)
    /\ Next1(q) \in Unlisted
    /\ Rollback(q)

\* get_session: the rows become visible together.
CommitReports(q) ==
    /\ op[q].kind = "submit"
    /\ todo[q] = <<>>
    /\ End(q)
    /\ UNCHANGED <<now, incidentVars>>

-------------------------------------------------------------------------------
(* People.                                                                 *)

Change(i, s) == [kind |-> "change", incident |-> i, to |-> s]

\* A mistake: what the caller asks for is not held against the table.
AnyNext(s) == IncidentStatuses

\* assert_transition.
Allowed(s) == LegalNext(s)

\* patch_incident: get_incident, assert_transition.
Patch(q, i, s) ==
    /\ Exists(i)
    /\ s \in Allowed(status[i])
    /\ Start(q, Change(i, s), "write")
    /\ UNCHANGED <<now, incidentVars, todo, rows, locks>>

\* split_incident: get_incident, assert_transition.
Split(q, i) ==
    /\ Exists(i)
    /\ "TRIAGED" \in Allowed(status[i])
    /\ Start(q, Change(i, "TRIAGED"), "write")
    /\ UNCHANGED <<now, incidentVars, todo, rows, locks>>

\* reject_plan, of dispatch: an open incident of a rejected plan.
ReturnPlan(q, i) ==
    /\ Exists(i)
    /\ status[i] \notin Closed
    /\ Start(q, Change(i, "TRIAGED"), "write")
    /\ UNCHANGED <<now, incidentVars, todo, rows, locks>>

\* merge_incident: both are read, the target only for its cluster.
Merge(q, i, j) ==
    /\ Exists(i) /\ Exists(j)
    /\ i # j
    /\ "DUPLICATE" \in Allowed(status[i])
    /\ Start(q, [kind |-> "merge", incident |-> i, into |-> j], "write")
    /\ UNCHANGED <<now, incidentVars, todo, rows, locks>>

\* Row locks: an UPDATE waits for the transaction that updated the row.
FreeFor(q, i) == \A p \in Requests \ {q} : i \notin locks[p]

\* set_incident_status, after set_cluster in a split: by id alone.
WriteChange(q) ==
    /\ pc[q] = "write"
    /\ op[q].kind = "change"
    /\ FreeFor(q, op[q].incident)
    /\ Put(op[q].incident, op[q].to)
    /\ End(q)

\* set_cluster on the target, whose row stays locked until the commit.
LockTarget(q) ==
    /\ pc[q] = "write"
    /\ op[q].kind = "merge"
    /\ FreeFor(q, op[q].into)
    /\ locks' = [locks EXCEPT ![q] = {op[q].into}]
    /\ pc' = [pc EXCEPT ![q] = "fold"]
    /\ UNCHANGED <<now, incidentVars, op, todo, rows>>

\* set_cluster and set_incident_status on the incident, and the commit.
Fold(q) ==
    /\ pc[q] = "fold"
    /\ FreeFor(q, op[q].incident)
    /\ Put(op[q].incident, "DUPLICATE")
    /\ End(q)

WaitsFor(p, q) == pc[p] = "fold" /\ p # q /\ op[p].incident \in locks[q]

Deadlocked(q) ==
    \E S \in SUBSET Requests :
        /\ q \in S
        /\ \A p \in S : (\E r \in S : WaitsFor(p, r)) /\ (\E r \in S : WaitsFor(r, p))

\* PostgreSQL aborts one of a circle of waiting transactions.
DeadlockVictim(q) ==
    /\ Deadlocked(q)
    /\ Rollback(q)

\* A timeout, a lost connection, a killed process.
Fail(q) ==
    /\ pc[q] # "idle"
    /\ Rollback(q)

-------------------------------------------------------------------------------
Advance(q) ==
    \/ KeepUnplaced(q) \/ LinkToCandidate(q) \/ OpenIncident(q) \/ RefuseType(q)
    \/ CommitReports(q) \/ WriteChange(q) \/ LockTarget(q) \/ Fold(q)

Ask(q) ==
    \/ \E b \in Batches : Submit(q, b)
    \/ \E i \in Incidents :
          /\ Exists(i) /\ origin[i].key \in Handled
          /\ \/ \E s \in Targets : Patch(q, i, s)
             \/ Split(q, i)
             \/ ReturnPlan(q, i)
             \/ \E j \in Incidents : Merge(q, i, j)

Next ==
    \/ \E q \in Requests :
        Ask(q) \/ Advance(q) \/ DeadlockVictim(q) \/ Fail(q)
    \/ Tick

Spec == Init /\ [][Next]_vars

-------------------------------------------------------------------------------
TypeOK ==
    /\ now \in Nat
    /\ status \in [Incidents -> IncidentStatuses \cup {Absent}]
    /\ origin \in [Incidents -> Origins \cup {None}]
    /\ \A i \in Incidents : status[i] # Absent => origin[i] \in Origins
    /\ closed \in SUBSET Incidents
    /\ op \in [Requests -> Ops]
    /\ pc \in [Requests -> {"idle", "accept", "write", "fold"}]
    /\ todo \in [Requests -> Seq(Keys)]
    /\ rows \in [Requests -> SUBSET Incidents]
    /\ locks \in [Requests -> SUBSET Incidents]

\* What the query of the request that opened j could put before the row of i.
Crowd(i, j) ==
    {m \in origin[j].saw \ {i} :
        /\ AreaOf[origin[m].key] = AreaOf[origin[i].key]
        /\ origin[m].first >= origin[i].first}

(* Two incidents of one event (one division and type, near, reported       *)
(* within the window of each other, the first no older than the window     *)
(* when the second was opened) have one of three reasons: the requests     *)
(* could not see each other, the first has been closed at some time, or    *)
(* as many others of its division and type as the query returns were       *)
(* reported since.  Otherwise accept() adds the report to the first.       *)
SecondHasAReason ==
    \A i, j \in Incidents :
        /\ status[j] # Absent /\ i \in origin[j].saw
        /\ Alike(origin[i].key, origin[j].key, origin[i].first, origin[j].first)
        /\ origin[j].looked - origin[i].first <= Window
        => i \in closed \/ Cardinality(Crowd(i, j)) >= Limit

\* The request is about to give the incident a status.
Writes(q, i) == op[q].kind \in {"change", "merge"} /\ op[q].incident = i
AtRest(i) == \A q \in Requests : ~Writes(q, i)

(* A resolved incident is final once nobody who read it earlier is about   *)
(* to write: only a request that was already past its check reopens it.    *)
ResolvedIsFinal ==
    [][\A i \in Incidents :
        status[i] = "RESOLVED" /\ AtRest(i) => (status[i] = "RESOLVED" /\ AtRest(i))']_vars
===============================================================================
