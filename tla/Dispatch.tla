------------------------------- MODULE Dispatch -------------------------------
(***************************************************************************)
(* The dispatch gate of incident-svc (api/v1/dispatch.py,                  *)
(* domain/dispatch_gate.py, repo/queries.py), with the agent thread it     *)
(* resumes (agent-svc, api/v1/agents.py) and the incidents a rejected plan *)
(* gives back (api/v1/incidents.py).                                       *)
(*                                                                         *)
(* A plan waits for a dispatcher.  An approval or a rejection is one HTTP  *)
(* request and one transaction: it reads the plan, resumes the reasoning   *)
(* thread over HTTP, updates the plan under the plan's row lock, and       *)
(* commits.  A rejection also puts the plan's incidents back in the queue, *)
(* one row at a time.  Meanwhile operators move incidents through their    *)
(* state machine, one transaction each.  Sessions are READ COMMITTED: an   *)
(* UPDATE waits for the row's lock, then sees what the holder committed.   *)
(***************************************************************************)
EXTENDS Naturals, Sequences, IncidentStates

CONSTANTS
    Requests,        \* HTTP requests, each handled once
    Plans,
    Incidents,
    People,          \* dispatchers, past their step-up
    Threaded,        \* plans a paused agent thread proposed
    PlanIncidents,   \* the incident_ids of each plan, in their order
    Targets,         \* bound: the statuses operators move incidents to
    Nobody           \* no sign-off

ASSUME DispatchAssumption ==
    /\ Threaded \subseteq Plans
    /\ PlanIncidents \in [Plans -> Seq(Incidents)]
    /\ Nobody \notin People
    /\ Targets \subseteq {"REPORTED", "VERIFIED", "TRIAGED", "DISPATCHED",
                         "IN_PROGRESS", "RESOLVED", "DUPLICATE", "REJECTED"}
    /\ Plans \cap Incidents = {}

VARIABLES
    status,      \* dispatch_plan.status
    signedBy,    \* dispatch_plan.signed_off_by
    incident,    \* incident.status
    op,          \* what each request asks for
    pc,          \* where its handler stands
    left,        \* the incidents a rejection has still to look at
    holds,       \* rows whose lock its transaction holds
    agent        \* how far agent-svc came with its resume call

vars == <<status, signedBy, incident, op, pc, left, holds, agent>>
rows == <<status, signedBy, incident>>

\* PROPOSED stands for AWAITING_SIGNOFF too, which no guard tells apart from it;
\* nothing in the code writes APPROVED or COMPLETED.
PlanStatuses == {"PROPOSED", "RELEASED", "REJECTED"}

\* A mistake: only a release counts as a decision.
NotReleased(p) == status[p] # "RELEASED"

\* What a plan must still be for either decision on it.
Undecided(p) == status[p] = "PROPOSED"

\* Who rejected is recorded in the event only.
Decisions == [kind : {"approve"}, plan : Plans, by : People]
             \cup [kind : {"reject"}, plan : Plans]
Patches == [kind : {"patch"}, incident : Incidents, to : Targets]
NoOp == [kind |-> "none"]

\* "told" is a request answered with success, "refused" any other answer or none.
Phases == {"idle", "resume", "write", "return", "giveback", "commit", "told", "refused"}
Open(r) == pc[r] \notin {"idle", "told", "refused"}

Approves(r, p) == op[r].kind = "approve" /\ op[r].plan = p
Rejects(r, p) == op[r].kind = "reject" /\ op[r].plan = p
Decides(r, p) == Approves(r, p) \/ Rejects(r, p)

\* Plans wait for their decision; their incidents have been moved on by an
\* operator meanwhile, as no release moves them.
Init ==
    /\ status = [p \in Plans |-> "PROPOSED"]
    /\ signedBy = [p \in Plans |-> Nobody]
    /\ incident = [i \in Incidents |-> "DISPATCHED"]
    /\ op = [r \in Requests |-> NoOp]
    /\ pc = [r \in Requests |-> "idle"]
    /\ left = [r \in Requests |-> <<>>]
    /\ holds = [r \in Requests |-> {}]
    /\ agent = [r \in Requests |-> "none"]

\* Row locks: a row another transaction updated is waited for.
Free(x) == \A s \in Requests : x \notin holds[s]
Take(r, x) == holds' = [holds EXCEPT ![r] = @ \cup {x}]

\* A mistake: the session is left without its rollback.
RefuseWithoutRollback(r) ==
    /\ pc' = [pc EXCEPT ![r] = "refused"]
    /\ left' = [left EXCEPT ![r] = <<>>]
    /\ UNCHANGED <<op, holds>>

\* The transaction ends without a trace; its decision matters to nobody but an
\* agent that has accepted it.
Refuse(r) ==
    /\ pc' = [pc EXCEPT ![r] = "refused"]
    /\ holds' = [holds EXCEPT ![r] = {}]
    /\ left' = [left EXCEPT ![r] = <<>>]
    /\ op' = IF agent[r] = "none" THEN [op EXCEPT ![r] = NoOp] ELSE op

-------------------------------------------------------------------------------
(* A request arrives: the handler reads and decides whether to go on.  A   *)
(* request refused here leaves nothing, so it is not taken.                *)

\* approve_plan and reject_plan: get_plan, assert_undecided, assert_step_up.
Decide(r, d) ==
    /\ pc[r] = "idle"
    /\ Undecided(d.plan)
    /\ op' = [op EXCEPT ![r] = d]
    /\ pc' = [pc EXCEPT ![r] = IF d.plan \in Threaded THEN "resume" ELSE "write"]
    /\ UNCHANGED <<rows, left, holds, agent>>

\* patch_incident: get_incident, assert_transition.
PatchIncident(r, d) ==
    /\ pc[r] = "idle"
    /\ d.to \in LegalNext(incident[d.incident])
    /\ op' = [op EXCEPT ![r] = d]
    /\ pc' = [pc EXCEPT ![r] = "write"]
    /\ UNCHANGED <<rows, left, holds, agent>>

-------------------------------------------------------------------------------
(* The reasoning thread.                                                   *)

\* A thread waits at its interrupt until one resume has run.
Waiting(p) == \A s \in Requests : Decides(s, p) => agent[s] # "ran"

\* resume_run: the thread is waiting, the decision is accepted.
AgentAccepts(r) ==
    /\ pc[r] = "resume"
    /\ agent[r] = "none"
    /\ Waiting(op[r].plan)
    /\ agent' = [agent EXCEPT ![r] = "accepted"]
    /\ UNCHANGED <<rows, op, pc, left, holds>>

\* graph.ainvoke finishes, whether or not its caller still listens.
AgentRuns(r) ==
    /\ agent[r] = "accepted"
    /\ agent' = [agent EXCEPT ![r] = "ran"]
    /\ UNCHANGED <<rows, op, pc, left, holds>>

\* AgentThreadResumer.resume returns.
ResumeAnswered(r) ==
    /\ pc[r] = "resume"
    /\ agent[r] = "ran"
    /\ pc' = [pc EXCEPT ![r] = "write"]
    /\ UNCHANGED <<rows, op, left, holds, agent>>

\* A mistake: the approval swallows a failed resume as the rejection does.
AnythingStandsWithoutThread(r) == op[r].kind \in {"approve", "reject"}

\* It raises: agent-svc refused, was not reached, or did not answer in time.
\* An approval ends there, a rejection stands whatever the graph does.
StandsWithoutThread(r) == op[r].kind = "reject"

ResumeFails(r) ==
    /\ pc[r] = "resume"
    /\ IF StandsWithoutThread(r)
       THEN /\ pc' = [pc EXCEPT ![r] = "write"]
            /\ UNCHANGED <<op, left, holds>>
       ELSE Refuse(r)
    /\ UNCHANGED <<rows, agent>>

-------------------------------------------------------------------------------
(* The writes.                                                             *)

\* A mistake: the UPDATE has no predicate but the id.
MayReleaseAny(p) == p \in Plans

\* _RELEASE_PLAN's predicate.
MayRelease(p) == signedBy[p] = Nobody

\* The trigger's: a sign-off is not reassigned.
SignOffKept(p, who) == signedBy[p] \in {Nobody, who}

ReleasePlan(r) ==
    /\ pc[r] = "write"
    /\ op[r].kind = "approve"
    /\ Free(op[r].plan)
    /\ MayRelease(op[r].plan)
    /\ SignOffKept(op[r].plan, op[r].by)
    /\ Take(r, op[r].plan)
    /\ pc' = [pc EXCEPT ![r] = "commit"]
    /\ UNCHANGED <<rows, op, left, agent>>

\* _REJECT_PLAN's predicate.
MayReject(p) == status[p] \notin {"RELEASED", "REJECTED"}

RejectPlan(r) ==
    /\ pc[r] = "write"
    /\ op[r].kind = "reject"
    /\ Free(op[r].plan)
    /\ MayReject(op[r].plan)
    /\ Take(r, op[r].plan)
    /\ left' = [left EXCEPT ![r] = PlanIncidents[op[r].plan]]
    /\ pc' = [pc EXCEPT ![r] = "return"]
    /\ UNCHANGED <<rows, op, agent>>

\* No row matched, or the trigger raised: 409.
TooLate(r) ==
    /\ pc[r] = "write"
    /\ op[r].kind \in {"approve", "reject"}
    /\ Free(op[r].plan)
    /\ IF op[r].kind = "approve"
       THEN ~ (MayRelease(op[r].plan) /\ SignOffKept(op[r].plan, op[r].by))
       ELSE ~ MayReject(op[r].plan)
    /\ Refuse(r)
    /\ UNCHANGED <<rows, agent>>

\* A mistake: an incident somebody is on the way to is left alone.
StillInTheQueue(s) == s \in {"REPORTED", "VERIFIED", "TRIAGED"}

\* reject_plan's loop: each incident is read, and updated unless it is closed.
StillNeedsSomeone(s) == s \notin {"RESOLVED", "REJECTED", "DUPLICATE"}

LookAt(r) ==
    /\ pc[r] = "return"
    /\ left[r] # <<>>
    /\ IF StillNeedsSomeone(incident[Head(left[r])])
       THEN /\ pc' = [pc EXCEPT ![r] = "giveback"]
            /\ UNCHANGED left
       ELSE /\ left' = [left EXCEPT ![r] = Tail(@)]
            /\ UNCHANGED pc
    /\ UNCHANGED <<rows, op, holds, agent>>

GiveBack(r) ==
    /\ pc[r] = "giveback"
    /\ Free(Head(left[r]))
    /\ Take(r, Head(left[r]))
    /\ left' = [left EXCEPT ![r] = Tail(@)]
    /\ pc' = [pc EXCEPT ![r] = "return"]
    /\ UNCHANGED <<rows, op, agent>>

\* set_incident_status of a patch: the UPDATE has no predicate but the id.
WriteIncident(r) ==
    /\ pc[r] = "write"
    /\ op[r].kind = "patch"
    /\ Free(op[r].incident)
    /\ Take(r, op[r].incident)
    /\ pc' = [pc EXCEPT ![r] = "commit"]
    /\ UNCHANGED <<rows, op, left, agent>>

-------------------------------------------------------------------------------
(* The end of the transaction.                                             *)

\* What the rows its transaction holds become.
NewStatus(r) == IF op[r].kind = "approve" THEN "RELEASED" ELSE "REJECTED"

NewSigner(r, p) == IF op[r].kind = "approve" THEN op[r].by ELSE signedBy[p]
NewIncident(r) == IF op[r].kind = "patch" THEN op[r].to ELSE "TRIAGED"

Ready(r) == pc[r] = "commit" \/ (pc[r] = "return" /\ left[r] = <<>>)

Commit(r) ==
    /\ Ready(r)
    /\ status' = [p \in Plans |-> IF p \in holds[r] THEN NewStatus(r) ELSE status[p]]
    /\ signedBy' = [p \in Plans |-> IF p \in holds[r] THEN NewSigner(r, p) ELSE signedBy[p]]
    /\ incident' = [i \in Incidents |-> IF i \in holds[r] THEN NewIncident(r) ELSE incident[i]]
    /\ pc' = [pc EXCEPT ![r] = "told"]
    /\ holds' = [holds EXCEPT ![r] = {}]
    /\ UNCHANGED <<op, left, agent>>

\* A crash, a dropped connection, a failing statement: rolled back.
Abort(r) ==
    /\ Open(r)
    /\ Refuse(r)
    /\ UNCHANGED <<rows, agent>>

\* PostgreSQL aborts one of a set of transactions that wait for each other.
WaitsFor(r, s) ==
    \/ pc[r] = "giveback" /\ Head(left[r]) \in holds[s]
    \/ pc[r] = "write" /\ op[r].kind = "patch" /\ op[r].incident \in holds[s]
    \/ pc[r] = "write" /\ op[r].kind # "patch" /\ op[r].plan \in holds[s]

Deadlocked(r) ==
    \E D \in SUBSET Requests : r \in D /\ \A s \in D : \E t \in D \ {s} : WaitsFor(s, t)

DeadlockVictim(r) == Deadlocked(r) /\ Abort(r)

\* What the handler does next, left alone.
Handle(r) ==
    \/ ResumeAnswered(r) \/ ResumeFails(r)
    \/ ReleasePlan(r) \/ RejectPlan(r) \/ TooLate(r) \/ WriteIncident(r)
    \/ LookAt(r) \/ GiveBack(r)
    \/ Commit(r)

Next == \E r \in Requests :
    \/ \E d \in Decisions : Decide(r, d)
    \/ \E d \in Patches : PatchIncident(r, d)
    \/ AgentAccepts(r) \/ AgentRuns(r)
    \/ Handle(r)
    \/ Abort(r)

Spec == Init /\ [][Next]_vars

FairSpec ==
    /\ Spec
    /\ \A r \in Requests : WF_vars(Handle(r) \/ DeadlockVictim(r))

-------------------------------------------------------------------------------
(* Properties.                                                             *)

\* Types of every variable.
TypeOK ==
    /\ status \in [Plans -> PlanStatuses]
    /\ signedBy \in [Plans -> People \cup {Nobody}]
    /\ incident \in [Incidents -> IncidentStatuses]
    /\ op \in [Requests -> Decisions \cup Patches \cup {NoOp}]
    /\ pc \in [Requests -> Phases]
    /\ left \in [Requests -> Seq(Incidents)]
    /\ holds \in [Requests -> SUBSET (Plans \cup Incidents)]
    /\ agent \in [Requests -> {"none", "accepted", "ran"}]

\* Two dispatchers, or one who clicks twice, press Approve on one plan: one of
\* the requests at most is told that it released it.
OneApproverIsTold ==
    \A r, s \in Requests :
        pc[r] = "told" /\ pc[s] = "told" /\ op[r].kind = "approve"
            /\ op[s].kind = "approve" /\ op[r].plan = op[s].plan
        => r = s

\* A plan an agent thread proposed is released only after that thread was
\* resumed by the very person whose sign-off it carries.
ReleasedWasReasoned ==
    \A p \in Threaded : status[p] = "RELEASED" =>
        \E r \in Requests : Approves(r, p) /\ op[r].by = signedBy[p] /\ agent[r] = "ran"

\* A released plan stays released, under the same signature, whatever
\* rejections and approvals are still in flight.
ReleaseIsFinal ==
    [][\A p \in Plans : status[p] = "RELEASED" =>
        status'[p] = "RELEASED" /\ signedBy'[p] = signedBy[p]]_vars

\* An incident somebody's patch closed.
WasClosed(i) ==
    \E s \in Requests : pc[s] = "told" /\ op[s].kind = "patch" /\ op[s].incident = i
                        /\ op[s].to \in {"RESOLVED", "REJECTED", "DUPLICATE"}

IncidentsOf(p) == {PlanIncidents[p][n] : n \in 1..Len(PlanIncidents[p])}

\* A rejection puts every incident of its plan back in the queue, in the same
\* step, unless an operator closed the incident first.
RejectionGivesBack ==
    [][\A p \in Plans : status[p] # "REJECTED" /\ status'[p] = "REJECTED" =>
        \A i \in IncidentsOf(p) : incident'[i] = "TRIAGED" \/ WasClosed(i)]_vars

\* An approval that has read the plan and may still release it.
InFlight(p) == \E r \in Requests : Approves(r, p) /\ Open(r)

\* A rejection is final once no approval that read the plan before it is still
\* on its way: that race, and no other, releases a rejected plan.
RejectionIsFinalAtRest ==
    [][\A p \in Plans : status[p] = "REJECTED" /\ ~InFlight(p)
        => (status[p] = "REJECTED" /\ ~InFlight(p))']_vars

\* Only rejections can wait for each other in a circle: whoever is waited for is
\* past its first UPDATE, and an approval or a patch asks for no second row.
OnlyRejectionsDeadlock ==
    \A r, s, t \in Requests : WaitsFor(r, s) /\ WaitsFor(s, t)
        => op[s].kind = "reject" /\ pc[s] = "giveback"

\* Every request is answered or rolled back: no set of transactions waits for
\* ever for rows that others of the set hold, even though two plans may list
\* the same incidents in opposite orders.
EveryRequestEnds ==
    \A r \in Requests : Open(r) ~> ~ Open(r)

\* A rejected plan is never released.  The code does not keep this: an approval
\* that read the plan before the rejection finds signed_off_by still empty.
RejectedStaysRejected ==
    [][\A p \in Plans : status[p] = "REJECTED" => status'[p] = "REJECTED"]_vars
===============================================================================
