---------------------------- MODULE DispatchProofs ----------------------------
(***************************************************************************)
(* Proofs about Dispatch, for any requests, plans, incidents and people.   *)
(*                                                                         *)
(* The argument: a plan's row lock belongs to one transaction, and what    *)
(* its UPDATE found (no sign-off, or no decision) is still true when it    *)
(* commits.  So an approval that commits is the first that is told so, and *)
(* a rejection that commits finds no release under it.  And an approval    *)
(* gets as far as the UPDATE only once agent-svc has run its own resume.   *)
(* A rejection's loop has put back, or seen closed, every incident that is *)
(* not still to come, and only a patch closes an incident.                 *)
(***************************************************************************)
EXTENDS Dispatch, TLAPS

Writing == {"return", "giveback", "commit"}

\* A row is locked by one transaction, which is past its first UPDATE.
LocksAreExclusive == \A r, s \in Requests : r # s => holds[r] \cap holds[s] = {}
LocksOfWriters == \A r \in Requests : holds[r] # {} => pc[r] \in Writing

\* The holder of a plan's lock decides that plan, and its predicate holds.
HolderMayDecide ==
    \A r \in Requests, p \in Plans : p \in holds[r] =>
        \/ Approves(r, p) /\ signedBy[p] = Nobody
        \/ Rejects(r, p) /\ status[p] \notin {"RELEASED", "REJECTED"}

\* A decision that is being written holds its plan's lock.
WriterHolds ==
    \A r \in Requests, p \in Plans : Decides(r, p) /\ pc[r] \in Writing => p \in holds[r]

\* A release leaves its signature, and so does a request told of one.
ReleasedIsSigned == \A p \in Plans : status[p] = "RELEASED" => signedBy[p] # Nobody
ToldIsSigned ==
    \A r \in Requests, p \in Plans : pc[r] = "told" /\ Approves(r, p) => signedBy[p] # Nobody

\* An approval passes the thread only when its resume ran, and a request that
\* has not begun has resumed nothing.
ThreadBeforeWrite ==
    \A r \in Requests, p \in Threaded :
        Approves(r, p) /\ pc[r] \in Writing \cup {"write", "told"} => agent[r] = "ran"
IdleResumedNothing == \A r \in Requests : pc[r] = "idle" => agent[r] = "none"

IInv ==
    /\ TypeOK
    /\ LocksAreExclusive
    /\ LocksOfWriters
    /\ HolderMayDecide
    /\ WriterHolds
    /\ ReleasedIsSigned
    /\ ToldIsSigned
    /\ ThreadBeforeWrite
    /\ IdleResumedNothing
    /\ OneApproverIsTold
    /\ ReleasedWasReasoned

-------------------------------------------------------------------------------
\* What a request that has begun asks for.
LEMMA Kinds ==
    ASSUME TypeOK, NEW r \in Requests
    PROVE  /\ op[r].kind = "approve" =>
                 op[r].plan \in Plans /\ op[r].by \in People
           /\ op[r].kind = "reject" => op[r].plan \in Plans
           /\ op[r].kind = "patch" => op[r].incident \in Incidents /\ op[r].to \in Targets
           /\ op[r].kind \in {"approve", "reject", "patch", "none"}
<1>1. \/ op[r] \in [kind : {"approve"}, plan : Plans, by : People]
      \/ op[r] \in [kind : {"reject"}, plan : Plans]
      \/ op[r] \in Patches
      \/ op[r] = NoOp
  BY DEF TypeOK, Decisions
<1> QED
  BY <1>1 DEF Patches, NoOp

\* The invariant holds to begin with.
LEMMA InitIInv == Init => IInv
<1> SUFFICES ASSUME Init PROVE IInv
  OBVIOUS
<1>1. TypeOK
  BY DEF Init, TypeOK, PlanStatuses, IncidentStatuses, Phases, NoOp
<1>2. /\ LocksAreExclusive /\ LocksOfWriters /\ HolderMayDecide /\ ReleasedIsSigned
      /\ IdleResumedNothing /\ OneApproverIsTold
  BY DEF Init, LocksAreExclusive, LocksOfWriters, HolderMayDecide, ReleasedIsSigned,
         IdleResumedNothing, OneApproverIsTold
<1>3. WriterHolds /\ ToldIsSigned /\ ThreadBeforeWrite
  BY DEF Init, WriterHolds, ToldIsSigned, ThreadBeforeWrite, Writing
<1>4. ReleasedWasReasoned
  BY DispatchAssumption DEF Init, ReleasedWasReasoned
<1> QED
  BY <1>1, <1>2, <1>3, <1>4 DEF IInv

\* A step of one request that commits nothing keeps the invariant if it keeps
\* that request's part of it.
LEMMA OneRequest ==
    ASSUME IInv, TypeOK', NEW r \in Requests,
           UNCHANGED <<status, signedBy>>,
           \A s \in Requests \ {r} :
               op'[s] = op[s] /\ pc'[s] = pc[s] /\ holds'[s] = holds[s] /\ agent'[s] = agent[s],
           \A s \in Requests \ {r} : holds'[r] \cap holds[s] = {},
           holds'[r] # {} => pc'[r] \in Writing,
           \A p \in Plans : p \in holds'[r] =>
               \/ Approves(r, p)' /\ signedBy[p] = Nobody
               \/ Rejects(r, p)' /\ status[p] \notin {"RELEASED", "REJECTED"},
           \A p \in Plans : Decides(r, p)' /\ pc'[r] \in Writing => p \in holds'[r],
           pc'[r] = "told" => pc[r] = "told" /\ op'[r] = op[r],
           \A p \in Threaded :
               Approves(r, p)' /\ pc'[r] \in Writing \cup {"write", "told"} => agent'[r] = "ran",
           pc'[r] = "idle" => agent'[r] = "none",
           agent[r] = "ran" => agent'[r] = "ran" /\ op'[r] = op[r]
    PROVE  IInv'
<1> USE DEF IInv
<1>1. LocksAreExclusive'
  BY DEF LocksAreExclusive
<1>2. LocksOfWriters'
  BY DEF LocksOfWriters
<1>3. HolderMayDecide'
  <2> SUFFICES ASSUME NEW s \in Requests, NEW p \in Plans, p \in holds'[s]
               PROVE  \/ Approves(s, p)' /\ signedBy'[p] = Nobody
                      \/ Rejects(s, p)' /\ status'[p] \notin {"RELEASED", "REJECTED"}
    BY DEF HolderMayDecide
  <2>1. CASE s = r
    BY <2>1
  <2>2. CASE s # r
    BY <2>2 DEF HolderMayDecide, Approves, Rejects
  <2> QED
    BY <2>1, <2>2
<1>4. WriterHolds'
  <2> SUFFICES ASSUME NEW s \in Requests, NEW p \in Plans, Decides(s, p)', pc'[s] \in Writing
               PROVE  p \in holds'[s]
    BY DEF WriterHolds, Writing
  <2>1. CASE s = r
    BY <2>1
  <2>2. CASE s # r
    BY <2>2 DEF WriterHolds, Decides, Approves, Rejects
  <2> QED
    BY <2>1, <2>2
<1>5. ReleasedIsSigned'
  BY DEF ReleasedIsSigned
<1>6. ToldIsSigned'
  BY DEF ToldIsSigned, Approves
<1>7. ThreadBeforeWrite'
  <2> SUFFICES ASSUME NEW s \in Requests, NEW p \in Threaded, Approves(s, p)',
                      pc'[s] \in Writing \cup {"write", "told"}
               PROVE  agent'[s] = "ran"
    BY DEF ThreadBeforeWrite, Writing
  <2>1. CASE s = r
    BY <2>1
  <2>2. CASE s # r
    BY <2>2 DEF ThreadBeforeWrite, Approves
  <2> QED
    BY <2>1, <2>2
<1>8. IdleResumedNothing'
  BY DEF IdleResumedNothing
<1>9. OneApproverIsTold'
  <2> SUFFICES ASSUME NEW s \in Requests, NEW t \in Requests, pc'[s] = "told",
                      pc'[t] = "told", op'[s].kind = "approve", op'[t].kind = "approve",
                      op'[s].plan = op'[t].plan
               PROVE  s = t
    BY DEF OneApproverIsTold
  <2>1. /\ pc[s] = "told" /\ op'[s] = op[s]
        /\ pc[t] = "told" /\ op'[t] = op[t]
    OBVIOUS
  <2> QED
    BY <2>1 DEF OneApproverIsTold
<1>10. ReleasedWasReasoned'
  <2> SUFFICES ASSUME NEW p \in Threaded, status'[p] = "RELEASED"
               PROVE  \E s \in Requests :
                          Approves(s, p)' /\ op'[s].by = signedBy'[p] /\ agent'[s] = "ran"
    BY DEF ReleasedWasReasoned
  <2>1. PICK s \in Requests : Approves(s, p) /\ op[s].by = signedBy[p] /\ agent[s] = "ran"
    BY DEF ReleasedWasReasoned
  <2>2. agent'[s] = "ran" /\ op'[s] = op[s]
    BY <2>1
  <2> QED
    BY <2>1, <2>2 DEF Approves
<1> QED
  BY <1>1, <1>2, <1>3, <1>4, <1>5, <1>6, <1>7, <1>8, <1>9, <1>10

-------------------------------------------------------------------------------
(* One lemma per action.                                                   *)

\* The action Decide preserves the invariant.
LEMMA DecideStep ==
    ASSUME IInv, NEW r \in Requests, NEW d \in Decisions, Decide(r, d)
    PROVE  IInv'
<1> USE DEF IInv
<1>1. /\ pc[r] = "idle" /\ op' = [op EXCEPT ![r] = d]
      /\ pc' = [pc EXCEPT ![r] = IF d.plan \in Threaded THEN "resume" ELSE "write"]
      /\ UNCHANGED <<status, signedBy, incident, left, holds, agent>>
  BY DEF Decide, rows
<1>2. holds[r] = {} /\ agent[r] = "none"
  BY <1>1 DEF LocksOfWriters, IdleResumedNothing, Writing
<1>3. /\ op'[r] = d /\ pc'[r] \in {"resume", "write"}
      /\ d.plan \in Threaded => pc'[r] = "resume"
  BY <1>1 DEF TypeOK
<1>4. TypeOK'
  BY <1>1 DEF TypeOK, Phases
<1>5. \A p \in Threaded :
          Approves(r, p)' /\ pc'[r] \in Writing \cup {"write", "told"} => agent'[r] = "ran"
  BY <1>3 DEF Approves, Writing
<1>6. \A s \in Requests \ {r} :
          op'[s] = op[s] /\ pc'[s] = pc[s] /\ holds'[s] = holds[s] /\ agent'[s] = agent[s]
  BY <1>1 DEF TypeOK
<1>7. holds'[r] = {} /\ agent'[r] = "none" /\ pc'[r] \notin Writing \cup {"told", "idle"}
  BY <1>1, <1>2, <1>3 DEF Writing
<1> QED
  BY <1>1, <1>2, <1>4, <1>5, <1>6, <1>7, OneRequest

\* The action PatchIncident preserves the invariant.
LEMMA PatchIncidentStep ==
    ASSUME IInv, NEW r \in Requests, NEW d \in Patches, PatchIncident(r, d)
    PROVE  IInv'
<1> USE DEF IInv
<1>1. /\ pc[r] = "idle" /\ op' = [op EXCEPT ![r] = d]
      /\ pc' = [pc EXCEPT ![r] = "write"]
      /\ UNCHANGED <<status, signedBy, incident, left, holds, agent>>
  BY DEF PatchIncident, rows
<1>2. holds[r] = {} /\ agent[r] = "none"
  BY <1>1 DEF LocksOfWriters, IdleResumedNothing, Writing
<1>3. op'[r].kind = "patch" /\ pc'[r] = "write"
  BY <1>1 DEF TypeOK, Patches
<1>4. TypeOK'
  BY <1>1 DEF TypeOK, Phases
<1>5. \A s \in Requests \ {r} :
          op'[s] = op[s] /\ pc'[s] = pc[s] /\ holds'[s] = holds[s] /\ agent'[s] = agent[s]
  BY <1>1 DEF TypeOK
<1>6. holds'[r] = {} /\ agent'[r] = "none" /\ pc'[r] \notin Writing \cup {"told", "idle"}
  BY <1>1, <1>2, <1>3 DEF Writing
<1>7. \A p \in Threaded : ~ Approves(r, p)'
  BY <1>3 DEF Approves
<1> QED
  BY <1>1, <1>2, <1>4, <1>5, <1>6, <1>7, OneRequest

\* What agent-svc does on its own preserves the invariant.
LEMMA AgentStep ==
    ASSUME IInv, NEW r \in Requests, AgentAccepts(r) \/ AgentRuns(r)
    PROVE  IInv'
<1> USE DEF IInv
<1>1. /\ pc[r] # "idle" /\ agent[r] # "ran"
      /\ agent' = [agent EXCEPT ![r] = "accepted"] \/ agent' = [agent EXCEPT ![r] = "ran"]
      /\ UNCHANGED <<status, signedBy, incident, op, pc, left, holds>>
  BY DEF AgentAccepts, AgentRuns, rows, IdleResumedNothing
<1>2. TypeOK'
  BY <1>1 DEF TypeOK
<1>3. \A p \in Plans : p \in holds[r] =>
          \/ Approves(r, p)' /\ signedBy[p] = Nobody
          \/ Rejects(r, p)' /\ status[p] \notin {"RELEASED", "REJECTED"}
  BY <1>1 DEF HolderMayDecide, Approves, Rejects
<1>4. \A p \in Plans : Decides(r, p)' /\ pc[r] \in Writing => p \in holds[r]
  BY <1>1 DEF WriterHolds, Decides, Approves, Rejects
<1>5. \A p \in Threaded : ~ (Approves(r, p)' /\ pc[r] \in Writing \cup {"write", "told"})
  BY <1>1 DEF ThreadBeforeWrite, Approves
<1>6. \A s \in Requests \ {r} : holds[r] \cap holds[s] = {}
  BY DEF LocksAreExclusive
<1>7. holds[r] # {} => pc[r] \in Writing
  BY DEF LocksOfWriters
<1> QED
  BY <1>1, <1>2, <1>3, <1>4, <1>5, <1>6, <1>7, OneRequest DEF TypeOK

\* The transaction is rolled back.
LEMMA RefuseStep ==
    ASSUME IInv, NEW r \in Requests, Refuse(r), Open(r),
           UNCHANGED <<status, signedBy, incident, agent>>
    PROVE  IInv'
<1> USE DEF IInv
<1>1. /\ pc[r] # "idle" /\ pc' = [pc EXCEPT ![r] = "refused"]
      /\ holds' = [holds EXCEPT ![r] = {}]
      /\ left' = [left EXCEPT ![r] = <<>>]
      /\ op' = [op EXCEPT ![r] = NoOp] \/ op' = op
      /\ agent[r] # "none" => op' = op
  BY DEF Refuse, Open
<1>2. TypeOK'
  BY <1>1 DEF TypeOK, Phases
<1>3. holds'[r] = {} /\ pc'[r] = "refused"
  BY <1>1 DEF TypeOK
<1> QED
  BY <1>1, <1>2, <1>3, OneRequest DEF TypeOK, Writing

\* The action ResumeAnswered preserves the invariant.
LEMMA ResumeAnsweredStep ==
    ASSUME IInv, NEW r \in Requests, ResumeAnswered(r)
    PROVE  IInv'
<1> USE DEF IInv
<1>1. /\ pc[r] = "resume" /\ agent[r] = "ran" /\ pc' = [pc EXCEPT ![r] = "write"]
      /\ UNCHANGED <<status, signedBy, incident, op, left, holds, agent>>
  BY DEF ResumeAnswered, rows
<1>2. TypeOK'
  BY <1>1 DEF TypeOK, Phases
<1>3. holds[r] = {}
  BY <1>1 DEF LocksOfWriters, Writing
<1>4. pc'[r] = "write" /\ "write" \notin Writing
  BY <1>1 DEF TypeOK, Writing
<1>5. /\ \A s \in Requests \ {r} : pc'[s] = pc[s]
      /\ op' = op /\ holds' = holds /\ agent' = agent /\ agent'[r] = "ran"
      /\ UNCHANGED <<status, signedBy>>
  BY <1>1
<1> HIDE DEF IInv
<1> QED
  BY <1>2, <1>3, <1>4, <1>5, OneRequest

\* The action ResumeFails preserves the invariant.
LEMMA ResumeFailsStep ==
    ASSUME IInv, NEW r \in Requests, ResumeFails(r)
    PROVE  IInv'
<1> USE DEF IInv
<1>1. pc[r] = "resume" /\ UNCHANGED <<status, signedBy, incident, agent>>
  BY DEF ResumeFails, rows
<1>2. CASE op[r].kind = "reject"
  <2>1. pc' = [pc EXCEPT ![r] = "write"] /\ UNCHANGED <<op, left, holds>>
    BY <1>2 DEF ResumeFails, StandsWithoutThread
  <2>2. TypeOK'
    BY <1>1, <2>1 DEF TypeOK, Phases
  <2>3. holds[r] = {}
    BY <1>1 DEF LocksOfWriters, Writing
  <2>4. \A p \in Threaded : ~ Approves(r, p)'
    BY <1>2, <2>1 DEF Approves
  <2> QED
    BY <1>1, <2>1, <2>2, <2>3, <2>4, OneRequest DEF TypeOK, Writing
<1>3. CASE op[r].kind # "reject"
  <2>1. Refuse(r)
    BY <1>3 DEF ResumeFails, StandsWithoutThread
  <2> QED
    BY <1>1, <2>1, RefuseStep DEF Open
<1> QED
  BY <1>2, <1>3

\* An UPDATE takes a row nobody holds.
LEMMA TakeIsExclusive ==
    ASSUME IInv, NEW r \in Requests, NEW x \in Plans \cup Incidents, Free(x), Take(r, x)
    PROVE  /\ holds'[r] = holds[r] \cup {x}
           /\ \A s \in Requests \ {r} : holds'[s] = holds[s] /\ holds'[r] \cap holds[s] = {}
           /\ holds' \in [Requests -> SUBSET (Plans \cup Incidents)]
<1> USE DEF IInv
<1>1. /\ holds'[r] = holds[r] \cup {x}
      /\ \A s \in Requests \ {r} : holds'[s] = holds[s]
      /\ holds' \in [Requests -> SUBSET (Plans \cup Incidents)]
  BY DEF Take, TypeOK
<1>2. \A s \in Requests \ {r} : holds[r] \cap holds[s] = {} /\ x \notin holds[s]
  BY DEF LocksAreExclusive, Free
<1> QED
  BY <1>1, <1>2

\* The action ReleasePlan preserves the invariant.
LEMMA ReleasePlanStep ==
    ASSUME IInv, NEW r \in Requests, ReleasePlan(r)
    PROVE  IInv'
<1> USE DEF IInv
<1> DEFINE p == op[r].plan
<1>1. /\ pc[r] = "write" /\ op[r].kind = "approve" /\ Free(p) /\ signedBy[p] = Nobody
      /\ Take(r, p) /\ pc' = [pc EXCEPT ![r] = "commit"]
      /\ UNCHANGED <<status, signedBy, incident, op, left, agent>>
  BY DEF ReleasePlan, rows, MayRelease
<1>2. p \in Plans
  BY <1>1, Kinds
<1>3. /\ holds'[r] = holds[r] \cup {p}
      /\ \A s \in Requests \ {r} : holds'[s] = holds[s] /\ holds'[r] \cap holds[s] = {}
      /\ holds' \in [Requests -> SUBSET (Plans \cup Incidents)]
  BY <1>1, <1>2, TakeIsExclusive
<1>4. holds[r] = {}
  BY <1>1 DEF LocksOfWriters, Writing
<1>5. TypeOK'
  BY <1>1, <1>3 DEF TypeOK, Phases
<1>6. \A q \in Plans : q \in holds'[r] => Approves(r, q)' /\ signedBy[q] = Nobody
  BY <1>1, <1>3, <1>4 DEF Approves
<1>7. \A q \in Plans : Decides(r, q)' => q \in holds'[r]
  BY <1>1, <1>3 DEF Decides, Approves, Rejects
<1>8. \A q \in Threaded : Approves(r, q)' => agent'[r] = "ran"
  BY <1>1 DEF ThreadBeforeWrite, Approves
<1> QED
  BY <1>1, <1>3, <1>5, <1>6, <1>7, <1>8, OneRequest DEF TypeOK, Writing

\* The action RejectPlan preserves the invariant.
LEMMA RejectPlanStep ==
    ASSUME IInv, NEW r \in Requests, RejectPlan(r)
    PROVE  IInv'
<1> USE DEF IInv
<1> DEFINE p == op[r].plan
<1>1. /\ pc[r] = "write" /\ op[r].kind = "reject" /\ Free(p)
      /\ status[p] \notin {"RELEASED", "REJECTED"}
      /\ Take(r, p) /\ pc' = [pc EXCEPT ![r] = "return"]
      /\ left' = [left EXCEPT ![r] = PlanIncidents[p]]
      /\ UNCHANGED <<status, signedBy, incident, op, agent>>
  BY DEF RejectPlan, rows, MayReject
<1>2. p \in Plans /\ PlanIncidents[p] \in Seq(Incidents)
  BY <1>1, Kinds, DispatchAssumption
<1>3. /\ holds'[r] = holds[r] \cup {p}
      /\ \A s \in Requests \ {r} : holds'[s] = holds[s] /\ holds'[r] \cap holds[s] = {}
      /\ holds' \in [Requests -> SUBSET (Plans \cup Incidents)]
  BY <1>1, <1>2, TakeIsExclusive
<1>4. holds[r] = {}
  BY <1>1 DEF LocksOfWriters, Writing
<1>5. TypeOK'
  BY <1>1, <1>2, <1>3 DEF TypeOK, Phases
<1>6. \A q \in Plans : q \in holds'[r] =>
          Rejects(r, q)' /\ status[q] \notin {"RELEASED", "REJECTED"}
  BY <1>1, <1>3, <1>4 DEF Rejects
<1>7. \A q \in Plans : Decides(r, q)' => q \in holds'[r]
  BY <1>1, <1>3 DEF Decides, Approves, Rejects
<1>8. \A q \in Threaded : ~ Approves(r, q)'
  BY <1>1 DEF Approves
<1> QED
  BY <1>1, <1>3, <1>5, <1>6, <1>7, <1>8, OneRequest DEF TypeOK, Writing

\* The steps of a rejection among its incidents: its plan stays locked.
LEMMA AmongIncidents ==
    ASSUME IInv, TypeOK', NEW r \in Requests,
           pc[r] \in {"return", "giveback"}, pc'[r] \in {"return", "giveback"},
           UNCHANGED <<status, signedBy, op, agent>>,
           \A s \in Requests \ {r} : pc'[s] = pc[s] /\ holds'[s] = holds[s],
           \A s \in Requests \ {r} : holds'[r] \cap holds[s] = {},
           \A p \in Plans : p \in holds'[r] <=> p \in holds[r]
    PROVE  IInv'
<1> USE DEF IInv
<1>1. \A p \in Plans : p \in holds'[r] =>
          \/ Approves(r, p)' /\ signedBy[p] = Nobody
          \/ Rejects(r, p)' /\ status[p] \notin {"RELEASED", "REJECTED"}
  BY DEF HolderMayDecide, Approves, Rejects
<1>2. \A p \in Plans : Decides(r, p)' => p \in holds'[r]
  BY DEF WriterHolds, Writing, Decides, Approves, Rejects
<1>3. \A p \in Threaded : Approves(r, p)' => agent'[r] = "ran"
  BY DEF ThreadBeforeWrite, Writing, Approves
<1> QED
  BY <1>1, <1>2, <1>3, OneRequest DEF Writing

\* The action LookAt preserves the invariant.
LEMMA LookAtStep ==
    ASSUME IInv, NEW r \in Requests, LookAt(r)
    PROVE  IInv'
<1> USE DEF IInv
<1>1. /\ pc[r] = "return" /\ left[r] # <<>>
      /\ \/ pc' = [pc EXCEPT ![r] = "giveback"] /\ left' = left
         \/ pc' = pc /\ left' = [left EXCEPT ![r] = Tail(@)]
      /\ UNCHANGED <<status, signedBy, incident, op, holds, agent>>
  BY DEF LookAt, rows
<1>2. Tail(left[r]) \in Seq(Incidents)
  BY <1>1 DEF TypeOK
<1>3. TypeOK'
  BY <1>1, <1>2 DEF TypeOK, Phases
<1>4. /\ pc'[r] \in {"return", "giveback"}
      /\ \A s \in Requests \ {r} : pc'[s] = pc[s]
  BY <1>1 DEF TypeOK
<1>5. \A s \in Requests \ {r} : holds[r] \cap holds[s] = {}
  BY DEF LocksAreExclusive
<1> QED
  BY <1>1, <1>3, <1>4, <1>5, AmongIncidents

\* The action GiveBack preserves the invariant.
LEMMA GiveBackStep ==
    ASSUME IInv, NEW r \in Requests, GiveBack(r), left[r] # <<>>
    PROVE  IInv'
<1> USE DEF IInv
<1> DEFINE i == Head(left[r])
<1>1. /\ pc[r] = "giveback" /\ Free(i) /\ Take(r, i)
      /\ left' = [left EXCEPT ![r] = Tail(@)]
      /\ pc' = [pc EXCEPT ![r] = "return"]
      /\ UNCHANGED <<status, signedBy, incident, op, agent>>
  BY DEF GiveBack, rows
<1>2. i \in Incidents /\ Tail(left[r]) \in Seq(Incidents)
  BY DEF TypeOK
<1>3. /\ holds'[r] = holds[r] \cup {i}
      /\ \A s \in Requests \ {r} : holds'[s] = holds[s] /\ holds'[r] \cap holds[s] = {}
      /\ holds' \in [Requests -> SUBSET (Plans \cup Incidents)]
  BY <1>1, <1>2, TakeIsExclusive
<1>4. TypeOK'
  BY <1>1, <1>2, <1>3 DEF TypeOK, Phases
<1>5. i \notin Plans
  BY <1>2, DispatchAssumption
<1>6. pc'[r] = "return" /\ \A s \in Requests \ {r} : pc'[s] = pc[s]
  BY <1>1 DEF TypeOK
<1> HIDE DEF i
<1> QED
  BY <1>1, <1>3, <1>4, <1>5, <1>6, AmongIncidents

\* The action WriteIncident preserves the invariant.
LEMMA WriteIncidentStep ==
    ASSUME IInv, NEW r \in Requests, WriteIncident(r)
    PROVE  IInv'
<1> USE DEF IInv
<1> DEFINE i == op[r].incident
<1>1. /\ pc[r] = "write" /\ op[r].kind = "patch" /\ Free(i) /\ Take(r, i)
      /\ pc' = [pc EXCEPT ![r] = "commit"]
      /\ UNCHANGED <<status, signedBy, incident, op, left, agent>>
  BY DEF WriteIncident, rows
<1>2. i \in Incidents /\ i \notin Plans
  BY <1>1, Kinds, DispatchAssumption
<1>3. /\ holds'[r] = holds[r] \cup {i}
      /\ \A s \in Requests \ {r} : holds'[s] = holds[s] /\ holds'[r] \cap holds[s] = {}
      /\ holds' \in [Requests -> SUBSET (Plans \cup Incidents)]
  BY <1>1, <1>2, TakeIsExclusive
<1>4. holds[r] = {}
  BY <1>1 DEF LocksOfWriters, Writing
<1>5. TypeOK'
  BY <1>1, <1>3 DEF TypeOK, Phases
<1>6. \A p \in Plans : p \notin holds'[r]
  BY <1>2, <1>3, <1>4
<1>7. \A p : ~ Decides(r, p)' /\ ~ Approves(r, p)'
  BY <1>1 DEF Decides, Approves, Rejects
<1>8. \A s \in Requests \ {r} : op'[s] = op[s] /\ pc'[s] = pc[s] /\ agent'[s] = agent[s]
  BY <1>1 DEF TypeOK
<1>9. pc'[r] = "commit"
  BY <1>1 DEF TypeOK
<1> HIDE DEF i
<1> QED
  BY <1>1, <1>3, <1>5, <1>6, <1>7, <1>8, <1>9, DispatchAssumption, OneRequest DEF Writing

\* What a commit does to a plan its transaction holds, and to the others.
LEMMA CommittedRows ==
    ASSUME IInv, NEW r \in Requests, Commit(r), NEW p \in Plans
    PROVE  /\ p \in holds[r] /\ Approves(r, p) =>
                 /\ signedBy[p] = Nobody /\ status'[p] = "RELEASED"
                 /\ signedBy'[p] = op[r].by /\ op[r].by \in People
           /\ p \in holds[r] /\ ~ Approves(r, p) =>
                 /\ Rejects(r, p) /\ status[p] \notin {"RELEASED", "REJECTED"}
                 /\ status'[p] = "REJECTED" /\ signedBy'[p] = signedBy[p]
           /\ p \notin holds[r] => status'[p] = status[p] /\ signedBy'[p] = signedBy[p]
<1> USE DEF IInv
<1>1. /\ status'[p] = IF p \in holds[r] THEN NewStatus(r) ELSE status[p]
      /\ signedBy'[p] = IF p \in holds[r] THEN NewSigner(r, p) ELSE signedBy[p]
  BY DEF Commit
<1>2. CASE p \in holds[r] /\ Approves(r, p)
  <2>1. signedBy[p] = Nobody
    BY <1>2 DEF HolderMayDecide, Approves, Rejects
  <2> QED
    BY <1>1, <1>2, <2>1, Kinds DEF Approves, NewStatus, NewSigner
<1>3. CASE p \in holds[r] /\ ~ Approves(r, p)
  <2>1. Rejects(r, p) /\ status[p] \notin {"RELEASED", "REJECTED"}
    BY <1>3 DEF HolderMayDecide
  <2> QED
    BY <1>1, <1>3, <2>1 DEF Rejects, NewStatus, NewSigner
<1>4. CASE p \notin holds[r]
  BY <1>1, <1>4
<1> QED
  BY <1>2, <1>3, <1>4

\* The action Commit preserves the invariant.
LEMMA CommitStep ==
    ASSUME IInv, NEW r \in Requests, Commit(r)
    PROVE  IInv'
<1> USE DEF IInv
<1>1. /\ pc[r] \in Writing /\ pc' = [pc EXCEPT ![r] = "told"]
      /\ holds' = [holds EXCEPT ![r] = {}]
      /\ UNCHANGED <<op, left, agent>>
  BY DEF Commit, Ready, Writing
<1>2. /\ pc'[r] = "told" /\ holds'[r] = {}
      /\ \A s \in Requests \ {r} : pc'[s] = pc[s] /\ holds'[s] = holds[s]
  BY <1>1 DEF TypeOK
<1>3. TypeOK'
  <2>1. /\ status' \in [Plans -> PlanStatuses]
        /\ signedBy' \in [Plans -> People \cup {Nobody}]
        /\ incident' \in [Incidents -> IncidentStatuses]
    <3>1. NewStatus(r) \in PlanStatuses
      BY DEF NewStatus, PlanStatuses
    <3>2. \A p \in Plans : NewSigner(r, p) \in People \cup {Nobody}
      BY Kinds DEF NewSigner, TypeOK
    <3>3. NewIncident(r) \in IncidentStatuses
      BY Kinds, DispatchAssumption DEF NewIncident, IncidentStatuses
    <3> QED
      BY <3>1, <3>2, <3>3 DEF Commit, TypeOK
  <2> QED
    BY <1>1, <2>1 DEF TypeOK, Phases
<1>4. LocksAreExclusive' /\ LocksOfWriters'
  BY <1>2 DEF LocksAreExclusive, LocksOfWriters
<1>5. HolderMayDecide'
  <2> SUFFICES ASSUME NEW s \in Requests, NEW p \in Plans, p \in holds'[s]
               PROVE  \/ Approves(s, p)' /\ signedBy'[p] = Nobody
                      \/ Rejects(s, p)' /\ status'[p] \notin {"RELEASED", "REJECTED"}
    BY DEF HolderMayDecide
  <2>1. s # r /\ p \in holds[s] /\ p \notin holds[r]
    BY <1>2 DEF LocksAreExclusive
  <2> QED
    BY <1>1, <2>1, CommittedRows DEF HolderMayDecide, Approves, Rejects
<1>6. WriterHolds'
  BY <1>1, <1>2 DEF WriterHolds, Writing, Decides, Approves, Rejects
<1>7. ReleasedIsSigned'
  <2> SUFFICES ASSUME NEW p \in Plans, status'[p] = "RELEASED" PROVE signedBy'[p] # Nobody
    BY DEF ReleasedIsSigned
  <2> QED
    BY CommittedRows, DispatchAssumption DEF ReleasedIsSigned
<1>8. ToldIsSigned'
  <2> SUFFICES ASSUME NEW s \in Requests, NEW p \in Plans, pc'[s] = "told", Approves(s, p)'
               PROVE  signedBy'[p] # Nobody
    BY DEF ToldIsSigned
  <2>1. Approves(s, p)
    BY <1>1 DEF Approves
  <2>2. CASE s = r
    <3>1. p \in holds[r]
      BY <1>1, <2>1, <2>2 DEF WriterHolds, Decides
    <3> QED
      BY <2>1, <2>2, <3>1, CommittedRows, DispatchAssumption
  <2>3. CASE s # r
    <3>1. signedBy[p] # Nobody
      BY <1>2, <2>1, <2>3 DEF ToldIsSigned
    <3> QED
      BY <3>1, CommittedRows
  <2> QED
    BY <2>2, <2>3
<1>9. ThreadBeforeWrite'
  BY <1>1, <1>2 DEF ThreadBeforeWrite, Approves, Writing
<1>10. IdleResumedNothing'
  BY <1>1, <1>2 DEF IdleResumedNothing
<1>11. OneApproverIsTold'
  <2>1. \A t \in Requests \ {r} :
            ~ (pc[t] = "told" /\ op[t].kind = "approve" /\ op[r].kind = "approve"
               /\ op[t].plan = op[r].plan)
    <3> SUFFICES ASSUME NEW t \in Requests \ {r}, pc[t] = "told", op[t].kind = "approve",
                        op[r].kind = "approve", op[t].plan = op[r].plan
                 PROVE  FALSE
      OBVIOUS
    <3>1. /\ op[r].plan \in Plans /\ Approves(r, op[r].plan) /\ Approves(t, op[r].plan)
      BY Kinds DEF Approves
    <3>2. op[r].plan \in holds[r]
      BY <1>1, <3>1 DEF WriterHolds, Decides
    <3>3. signedBy[op[r].plan] = Nobody
      BY <3>1, <3>2, CommittedRows
    <3> QED
      BY <3>1, <3>3 DEF ToldIsSigned
  <2> QED
    BY <1>1, <1>2, <2>1 DEF OneApproverIsTold
<1>12. ReleasedWasReasoned'
  <2> SUFFICES ASSUME NEW p \in Threaded, status'[p] = "RELEASED"
               PROVE  \E s \in Requests :
                          Approves(s, p)' /\ op'[s].by = signedBy'[p] /\ agent'[s] = "ran"
    BY DEF ReleasedWasReasoned
  <2>1. p \in Plans
    BY DispatchAssumption
  <2>2. CASE p \in holds[r]
    <3>1. Approves(r, p) /\ signedBy'[p] = op[r].by
      BY <2>1, <2>2, CommittedRows
    <3>2. agent[r] = "ran"
      BY <1>1, <3>1 DEF ThreadBeforeWrite
    <3> QED
      BY <1>1, <3>1, <3>2 DEF Approves
  <2>3. CASE p \notin holds[r]
    <3>1. status[p] = "RELEASED" /\ signedBy'[p] = signedBy[p]
      BY <2>1, <2>3, CommittedRows
    <3> QED
      BY <1>1, <3>1 DEF ReleasedWasReasoned, Approves
  <2> QED
    BY <2>2, <2>3
<1> QED
  BY <1>3, <1>4, <1>5, <1>6, <1>7, <1>8, <1>9, <1>10, <1>11, <1>12

-------------------------------------------------------------------------------
\* A rejection about to give an incident back has one to give back.
HeadIsThere == \A r \in Requests : pc[r] = "giveback" => left[r] # <<>>

\* Every step keeps that a rejection giving back has an incident in hand.
LEMMA HeadStep ==
    ASSUME TypeOK, HeadIsThere, Next
    PROVE  HeadIsThere'
<1> SUFFICES ASSUME NEW s \in Requests, pc'[s] = "giveback" PROVE left'[s] # <<>>
  BY DEF HeadIsThere
<1> PICK r \in Requests :
      \/ \E d \in Decisions : Decide(r, d)
      \/ \E d \in Patches : PatchIncident(r, d)
      \/ AgentAccepts(r) \/ AgentRuns(r)
      \/ Handle(r)
      \/ Abort(r)
  BY DEF Next
<1>1. CASE UNCHANGED <<pc, left>>
  BY <1>1 DEF HeadIsThere
<1>2. CASE LookAt(r)
  BY <1>2 DEF LookAt, HeadIsThere, TypeOK
<1>3. CASE \E x \in Phases \ {"giveback"} :
              /\ pc' = [pc EXCEPT ![r] = x]
              /\ \A t \in Requests \ {r} : left'[t] = left[t]
  BY <1>3 DEF HeadIsThere, TypeOK
<1>4. AgentAccepts(r) \/ AgentRuns(r) => UNCHANGED <<pc, left>>
  BY DEF AgentAccepts, AgentRuns
<1>5. (\E d \in Decisions : Decide(r, d)) \/ (\E d \in Patches : PatchIncident(r, d))
      => UNCHANGED left /\ \E x \in {"resume", "write"} : pc' = [pc EXCEPT ![r] = x]
  BY DEF Decide, PatchIncident
<1>6. Abort(r) \/ TooLate(r)
      => pc' = [pc EXCEPT ![r] = "refused"] /\ left' = [left EXCEPT ![r] = <<>>]
  BY DEF Abort, TooLate, Refuse
<1>7. ResumeFails(r)
      => \/ pc' = [pc EXCEPT ![r] = "refused"] /\ left' = [left EXCEPT ![r] = <<>>]
         \/ pc' = [pc EXCEPT ![r] = "write"] /\ UNCHANGED left
  BY DEF ResumeFails, Refuse
<1>8. ResumeAnswered(r) \/ ReleasePlan(r) \/ WriteIncident(r) \/ Commit(r)
      => UNCHANGED left /\ \E x \in {"write", "commit", "told"} : pc' = [pc EXCEPT ![r] = x]
  BY DEF ResumeAnswered, ReleasePlan, WriteIncident, Commit
<1>9. RejectPlan(r) \/ GiveBack(r)
      => /\ pc' = [pc EXCEPT ![r] = "return"]
         /\ \E q : left' = [left EXCEPT ![r] = q]
  BY DEF RejectPlan, GiveBack
<1> QED
  BY <1>1, <1>2, <1>3, <1>4, <1>5, <1>6, <1>7, <1>8, <1>9 DEF Handle, Phases, TypeOK

\* The inductive step of the whole invariant.
LEMMA NextStep ==
    ASSUME IInv, HeadIsThere, [Next]_vars
    PROVE  IInv' /\ HeadIsThere'
<1>1. CASE UNCHANGED vars
  <2>1. UNCHANGED <<status, signedBy, incident, op, pc, left, holds, agent>>
    BY <1>1 DEF vars
  <2>2. TypeOK'
    BY <2>1 DEF IInv, TypeOK
  <2>3. /\ LocksAreExclusive' /\ LocksOfWriters' /\ HolderMayDecide' /\ WriterHolds'
        /\ ReleasedIsSigned' /\ ToldIsSigned' /\ ThreadBeforeWrite' /\ IdleResumedNothing'
    BY <2>1 DEF IInv, LocksAreExclusive, LocksOfWriters, HolderMayDecide, WriterHolds,
                ReleasedIsSigned, ToldIsSigned, ThreadBeforeWrite, IdleResumedNothing,
                Decides, Approves, Rejects
  <2>4. OneApproverIsTold' /\ ReleasedWasReasoned' /\ HeadIsThere'
    BY <2>1 DEF IInv, OneApproverIsTold, ReleasedWasReasoned, HeadIsThere, Approves
  <2> QED
    BY <2>2, <2>3, <2>4 DEF IInv
<1>2. CASE Next
  <2>1. HeadIsThere'
    BY <1>2, HeadStep DEF IInv
  <2>2. PICK r \in Requests :
            \/ \E d \in Decisions : Decide(r, d)
            \/ \E d \in Patches : PatchIncident(r, d)
            \/ AgentAccepts(r) \/ AgentRuns(r)
            \/ Handle(r)
            \/ Abort(r)
    BY <1>2 DEF Next
  <2>3. TooLate(r) \/ Abort(r) =>
            Refuse(r) /\ Open(r) /\ UNCHANGED <<status, signedBy, incident, agent>>
    BY DEF TooLate, Abort, Open, rows
  <2>4. GiveBack(r) => left[r] # <<>>
    BY DEF GiveBack, HeadIsThere
  <2> QED
    BY <2>1, <2>2, <2>3, <2>4, DecideStep, PatchIncidentStep, AgentStep, RefuseStep,
       ResumeAnsweredStep, ResumeFailsStep, ReleasePlanStep, RejectPlanStep, LookAtStep,
       GiveBackStep, WriteIncidentStep, CommitStep DEF Handle
<1> QED
  BY <1>1, <1>2

-------------------------------------------------------------------------------
\* The whole invariant holds in every reachable state.
THEOREM Invariance == Spec => [](IInv /\ HeadIsThere)
<1>1. Init => IInv /\ HeadIsThere
  BY InitIInv DEF Init, HeadIsThere
<1>2. (IInv /\ HeadIsThere) /\ [Next]_vars => (IInv /\ HeadIsThere)'
  BY NextStep
<1> QED
  BY <1>1, <1>2, PTL DEF Spec

\* Every variable keeps its type.
THEOREM TypeCorrect == Spec => []TypeOK
<1>1. IInv /\ HeadIsThere => TypeOK
  BY DEF IInv
<1> QED
  BY <1>1, Invariance, PTL

\* However many dispatchers approve one plan, and however often, one request at
\* most is told that it released it.
THEOREM OneRelease == Spec => []OneApproverIsTold
<1>1. IInv /\ HeadIsThere => OneApproverIsTold
  BY DEF IInv
<1> QED
  BY <1>1, Invariance, PTL

\* No plan of an agent is released before its thread was resumed by the person
\* who signs it.
THEOREM ReasonedRelease == Spec => []ReleasedWasReasoned
<1>1. IInv /\ HeadIsThere => ReleasedWasReasoned
  BY DEF IInv
<1> QED
  BY <1>1, Invariance, PTL

\* Nothing in flight changes a released plan or its signature.
THEOREM FinalRelease == Spec => ReleaseIsFinal
<1> DEFINE Kept == \A p \in Plans : status[p] = "RELEASED" =>
                       status'[p] = "RELEASED" /\ signedBy'[p] = signedBy[p]
<1>1. IInv /\ HeadIsThere /\ [Next]_vars => [Kept]_vars
  <2> SUFFICES ASSUME IInv, Next PROVE Kept
    OBVIOUS
  <2>1. (\E r \in Requests : Commit(r)) \/ UNCHANGED <<status, signedBy>>
    BY DEF Next, Handle, rows, Decide, PatchIncident, AgentAccepts, AgentRuns,
           ResumeAnswered, ResumeFails, ReleasePlan, RejectPlan, TooLate, WriteIncident,
           LookAt, GiveBack, Abort
  <2>2. CASE UNCHANGED <<status, signedBy>>
    BY <2>2
  <2>3. ASSUME NEW r \in Requests, Commit(r)
        PROVE  Kept
    BY <2>3, CommittedRows DEF IInv, ReleasedIsSigned
  <2> QED
    BY <2>1, <2>2, <2>3
<1> QED
  BY <1>1, Invariance, PTL DEF Spec, ReleaseIsFinal

-------------------------------------------------------------------------------
(* What a rejection does to its incidents.  The loop has put back, or seen *)
(* closed, every incident of the plan that is not still to come; and       *)
(* nothing but a patch closes an incident.                                 *)
Ended == {"RESOLVED", "REJECTED", "DUPLICATE"}
StillToCome(r, i) == \E n \in 1..Len(left[r]) : left[r][n] = i

ClosedIsPatched == \A i \in Incidents : incident[i] \in Ended => WasClosed(i)
LoopCovers ==
    \A r \in Requests, p \in Plans : Rejects(r, p) /\ pc[r] \in {"return", "giveback"} =>
        \A i \in IncidentsOf(p) : StillToCome(r, i) \/ i \in holds[r] \/ WasClosed(i)
PatchHoldsIts ==
    \A r \in Requests : op[r].kind = "patch" => holds[r] \subseteq {op[r].incident}
RejectsByLoop ==
    \A r \in Requests :
        /\ pc[r] = "commit" => op[r].kind # "reject"
        /\ pc[r] \in {"return", "giveback"} => op[r].kind = "reject"

LoopInv == ClosedIsPatched /\ LoopCovers /\ PatchHoldsIts /\ RejectsByLoop

\* The initial incidents are open, and no loop has begun.
LEMMA InitLoopInv == Init => LoopInv
BY DEF Init, LoopInv, ClosedIsPatched, LoopCovers, PatchHoldsIts, RejectsByLoop, Ended, NoOp

\* Requests other than the one that takes a step stand still.
Acts(r) ==
    \/ \E d \in Decisions : Decide(r, d)
    \/ \E d \in Patches : PatchIncident(r, d)
    \/ AgentAccepts(r) \/ AgentRuns(r)
    \/ Handle(r)
    \/ Abort(r)

Stands(s) == op'[s] = op[s] /\ pc'[s] = pc[s] /\ left'[s] = left[s] /\ holds'[s] = holds[s]

\* A step is one request's.
LEMMA OthersStand ==
    ASSUME TypeOK, NEW r \in Requests, Acts(r), NEW s \in Requests \ {r}
    PROVE  Stands(s)
<1> USE DEF TypeOK, Stands
<1>1. Refuse(r) => Stands(s)
  BY DEF Refuse
<1>2. Abort(r) \/ TooLate(r) => Refuse(r)
  BY DEF Abort, TooLate
<1>3. (\E d \in Decisions : Decide(r, d)) \/ (\E d \in Patches : PatchIncident(r, d)) => Stands(s)
  BY DEF Decide, PatchIncident
<1>4. AgentAccepts(r) \/ AgentRuns(r) \/ ResumeAnswered(r) => Stands(s)
  BY DEF AgentAccepts, AgentRuns, ResumeAnswered
<1>5. ResumeFails(r) => Stands(s)
  BY <1>1 DEF ResumeFails
<1>6. ReleasePlan(r) \/ RejectPlan(r) \/ GiveBack(r) \/ WriteIncident(r) => Stands(s)
  BY DEF ReleasePlan, RejectPlan, GiveBack, WriteIncident, Take
<1>7. LookAt(r) \/ Commit(r) => Stands(s)
  BY DEF LookAt, Commit
<1> QED
  BY <1>1, <1>2, <1>3, <1>4, <1>5, <1>6, <1>7 DEF Acts, Handle

\* What a request that has been told asked for is never forgotten, so a closed
\* incident stays accounted for.
LEMMA ToldStays ==
    ASSUME TypeOK, NEW r \in Requests, Acts(r), NEW i, WasClosed(i)
    PROVE  WasClosed(i)'
<1>1. PICK s \in Requests :
        /\ pc[s] = "told" /\ op[s].kind = "patch" /\ op[s].incident = i
        /\ op[s].to \in Ended
  BY DEF WasClosed, Ended
<1>2. pc'[s] = "told" /\ op'[s] = op[s]
  <2>1. CASE s # r
    BY <1>1, <2>1, OthersStand DEF Stands
  <2>2. CASE s = r
    <3>1. pc[r] = "told" /\ ~ Open(r) /\ ~ Ready(r)
      BY <1>1, <2>2 DEF Open, Ready
    <3>2. AgentRuns(r)
      BY <3>1 DEF Acts, Handle, Decide, PatchIncident, AgentAccepts, ResumeAnswered,
                  ResumeFails, ReleasePlan, RejectPlan, TooLate, LookAt, GiveBack,
                  WriteIncident, Commit, Abort
    <3> QED
      BY <1>1, <2>2, <3>2 DEF AgentRuns
  <2> QED
    BY <2>1, <2>2
<1> QED
  BY <1>1, <1>2 DEF WasClosed, Ended

\* Each action keeps the loop's part of what its own request must, by what it
\* leaves of op, pc, left and holds.
LEMMA OneLoop ==
    ASSUME TypeOK, LoopInv, NEW r \in Requests, Acts(r), UNCHANGED incident,
           \A p \in Plans : Rejects(r, p)' /\ pc'[r] \in {"return", "giveback"} =>
               \A i \in IncidentsOf(p) :
                   StillToCome(r, i)' \/ i \in holds'[r] \/ WasClosed(i),
           op'[r].kind = "patch" => holds'[r] \subseteq {op'[r].incident},
           pc'[r] = "commit" => op'[r].kind # "reject",
           pc'[r] \in {"return", "giveback"} => op'[r].kind = "reject"
    PROVE  LoopInv'
<1> USE DEF LoopInv
<1>1. ClosedIsPatched'
  BY ToldStays DEF ClosedIsPatched
<1>2. LoopCovers'
  <2> SUFFICES ASSUME NEW s \in Requests, NEW p \in Plans, Rejects(s, p)',
                      pc'[s] \in {"return", "giveback"}, NEW i \in IncidentsOf(p)
               PROVE  StillToCome(s, i)' \/ i \in holds'[s] \/ WasClosed(i)'
    BY DEF LoopCovers, IncidentsOf
  <2>1. CASE s = r
    BY <2>1, ToldStays
  <2>2. CASE s # r
    <3>1. Stands(s)
      BY <2>2, OthersStand
    <3>2. Rejects(s, p) /\ pc[s] \in {"return", "giveback"}
      BY <3>1 DEF Stands, Rejects
    <3>3. StillToCome(s, i) \/ i \in holds[s] \/ WasClosed(i)
      BY <3>2 DEF LoopCovers
    <3> QED
      BY <3>1, <3>3, ToldStays DEF Stands, StillToCome
  <2> QED
    BY <2>1, <2>2
<1>3. PatchHoldsIts' /\ RejectsByLoop'
  BY OthersStand DEF PatchHoldsIts, RejectsByLoop, Stands
<1> QED
  BY <1>1, <1>2, <1>3

\* What is not the first of a sequence is in its tail.
LEMMA TailKeeps ==
    ASSUME NEW q \in Seq(Incidents), q # <<>>, NEW n \in 1..Len(q), n # 1
    PROVE  \E m \in 1..Len(Tail(q)) : Tail(q)[m] = q[n]
<1>1. n - 1 \in 1..Len(Tail(q)) /\ Tail(q)[n - 1] = q[n]
  OBVIOUS
<1> QED
  BY <1>1

\* Reading an incident: it is still to come, or closed.
LEMMA LookAtLoop ==
    ASSUME IInv, LoopInv, NEW r \in Requests, LookAt(r)
    PROVE  LoopInv'
<1> USE DEF IInv, LoopInv
<1>1. /\ UNCHANGED <<incident, op, holds>>
      /\ left[r] \in Seq(Incidents) /\ left[r] # <<>>
      /\ pc[r] = "return" /\ pc'[r] \in {"return", "giveback"}
      /\ Head(left[r]) \in Incidents
  BY DEF LookAt, TypeOK, rows
<1>2. left'[r] = left[r] \/ (left'[r] = Tail(left[r]) /\ incident[Head(left[r])] \in Ended)
  BY DEF LookAt, TypeOK, StillNeedsSomeone, Ended
<1>3. ASSUME NEW i, StillToCome(r, i) PROVE StillToCome(r, i)' \/ WasClosed(i)
  <2>1. PICK n \in 1..Len(left[r]) : left[r][n] = i
    BY <1>3 DEF StillToCome
  <2>2. CASE left'[r] = left[r]
    BY <1>3, <2>2 DEF StillToCome
  <2>3. CASE left'[r] = Tail(left[r]) /\ incident[Head(left[r])] \in Ended /\ n = 1
    BY <1>1, <2>1, <2>3 DEF ClosedIsPatched
  <2>4. CASE left'[r] = Tail(left[r]) /\ n # 1
    BY <1>1, <2>1, <2>4, TailKeeps DEF StillToCome
  <2> QED
    BY <1>2, <2>2, <2>3, <2>4
<1>4. \A p \in Plans : Rejects(r, p)' /\ pc'[r] \in {"return", "giveback"} =>
          \A i \in IncidentsOf(p) :
              StillToCome(r, i)' \/ i \in holds'[r] \/ WasClosed(i)
  BY <1>1, <1>3 DEF LoopCovers, Rejects
<1>5. Acts(r)
  BY DEF Acts, Handle
<1> QED
  BY <1>1, <1>4, <1>5, OneLoop DEF PatchHoldsIts, RejectsByLoop

\* Updating an incident: its row is held.
LEMMA GiveBackLoop ==
    ASSUME IInv, HeadIsThere, LoopInv, NEW r \in Requests, GiveBack(r)
    PROVE  LoopInv'
<1> USE DEF IInv, LoopInv
<1>1. /\ UNCHANGED <<incident, op>>
      /\ left[r] \in Seq(Incidents) /\ left[r] # <<>>
      /\ left'[r] = Tail(left[r])
      /\ holds'[r] = holds[r] \cup {Head(left[r])}
      /\ pc[r] = "giveback" /\ pc'[r] = "return"
  BY DEF GiveBack, Take, HeadIsThere, TypeOK, rows
<1>2. ASSUME NEW i, StillToCome(r, i) PROVE StillToCome(r, i)' \/ i \in holds'[r]
  <2>1. PICK n \in 1..Len(left[r]) : left[r][n] = i
    BY <1>2 DEF StillToCome
  <2>2. CASE n = 1
    BY <1>1, <2>1, <2>2
  <2>3. CASE n # 1
    <3>1. \E m \in 1..Len(Tail(left[r])) : Tail(left[r])[m] = i
      BY <1>1, <2>1, <2>3, TailKeeps
    <3> QED
      BY <1>1, <3>1 DEF StillToCome
  <2> QED
    BY <2>2, <2>3
<1>3. \A p \in Plans : Rejects(r, p)' =>
          \A i \in IncidentsOf(p) :
              StillToCome(r, i)' \/ i \in holds'[r] \/ WasClosed(i)
  BY <1>1, <1>2 DEF LoopCovers, Rejects
<1>4. op[r].kind = "reject"
  BY <1>1 DEF RejectsByLoop
<1>5. Acts(r)
  BY DEF Acts, Handle
<1> QED
  BY <1>1, <1>3, <1>4, <1>5, OneLoop

\* Committing: what a rejection holds is put back, and only a patch closes.
LEMMA CommitLoop ==
    ASSUME IInv, LoopInv, NEW r \in Requests, Commit(r)
    PROVE  LoopInv'
<1> USE DEF IInv, LoopInv
<1>1. /\ pc' = [pc EXCEPT ![r] = "told"]
      /\ holds' = [holds EXCEPT ![r] = {}]
      /\ UNCHANGED <<op, left>>
      /\ pc'[r] = "told" /\ holds'[r] = {}
  BY DEF Commit, TypeOK
<1>2. Acts(r)
  BY DEF Acts, Handle
<1>3. ClosedIsPatched'
  <2> SUFFICES ASSUME NEW i \in Incidents, incident'[i] \in Ended PROVE WasClosed(i)'
    BY DEF ClosedIsPatched
  <2>1. CASE i \in holds[r]
    <3>1. incident'[i] = NewIncident(r)
      BY <2>1 DEF Commit
    <3>2. op[r].kind = "patch" /\ op[r].to \in Ended
      BY <3>1 DEF NewIncident, Ended
    <3>3. op[r].incident = i
      BY <2>1, <3>2 DEF PatchHoldsIts
    <3> QED
      BY <1>1, <3>2, <3>3 DEF WasClosed, Ended
  <2>2. CASE i \notin holds[r]
    <3>1. incident[i] \in Ended
      BY <2>2 DEF Commit
    <3> QED
      BY <1>2, <3>1, ToldStays DEF ClosedIsPatched
  <2> QED
    BY <2>1, <2>2
<1>4. LoopCovers'
  <2> SUFFICES ASSUME NEW s \in Requests, NEW p \in Plans, Rejects(s, p)',
                      pc'[s] \in {"return", "giveback"}, NEW i \in IncidentsOf(p)
               PROVE  StillToCome(s, i)' \/ i \in holds'[s] \/ WasClosed(i)'
    BY DEF LoopCovers, IncidentsOf
  <2>1. s # r
    BY <1>1
  <2>2. pc[s] = pc'[s] /\ holds'[s] = holds[s] /\ left'[s] = left[s] /\ Rejects(s, p)
    BY <1>1, <2>1 DEF TypeOK, Rejects
  <2>3. StillToCome(s, i) \/ i \in holds[s] \/ WasClosed(i)
    BY <2>2 DEF LoopCovers
  <2> QED
    BY <1>2, <2>2, <2>3, ToldStays DEF StillToCome
<1>5. PatchHoldsIts' /\ RejectsByLoop'
  BY <1>1 DEF PatchHoldsIts, RejectsByLoop, TypeOK
<1> QED
  BY <1>3, <1>4, <1>5

\* Every step keeps the loop's invariant.
LEMMA LoopStep ==
    ASSUME IInv, HeadIsThere, LoopInv, Next
    PROVE  LoopInv'
<1> PICK r \in Requests : Acts(r)
  BY DEF Next, Acts
<1> USE DEF IInv, LoopInv
<1>1. CASE \E d \in Decisions : Decide(r, d)
  <2>1. PICK d \in Decisions : Decide(r, d)
    BY <1>1
  <2>2. /\ op'[r] = d /\ pc'[r] \in {"resume", "write"} /\ d.kind # "patch"
        /\ UNCHANGED incident
    BY <2>1 DEF Decide, Decisions, TypeOK, rows
  <2> QED
    BY <2>2, OneLoop
<1>2. CASE \E d \in Patches : PatchIncident(r, d)
  <2>1. PICK d \in Patches : PatchIncident(r, d)
    BY <1>2
  <2>2. pc'[r] = "write" /\ holds'[r] = holds[r] /\ pc[r] = "idle" /\ UNCHANGED incident
    BY <2>1 DEF PatchIncident, TypeOK, rows
  <2>3. holds[r] = {}
    BY <2>2 DEF LocksOfWriters, Writing
  <2> QED
    BY <2>2, <2>3, OneLoop
<1>3. CASE AgentAccepts(r) \/ AgentRuns(r)
  <2>1. UNCHANGED <<incident, op, pc, left, holds>>
    BY <1>3 DEF AgentAccepts, AgentRuns, rows
  <2> QED
    BY <2>1, OneLoop DEF LoopCovers, PatchHoldsIts, RejectsByLoop, Rejects, StillToCome
<1>4. CASE Refuse(r) /\ UNCHANGED incident
  <2>1. pc'[r] = "refused" /\ holds'[r] = {}
    BY <1>4 DEF Refuse, TypeOK
  <2> QED
    BY <1>4, <2>1, OneLoop
<1>5. CASE ResumeAnswered(r)
  <2>1. /\ pc'[r] = "write" /\ UNCHANGED <<incident, op, holds>>
    BY <1>5 DEF ResumeAnswered, TypeOK, rows
  <2> QED
    BY <2>1, OneLoop DEF PatchHoldsIts
<1>6. CASE ResumeFails(r)
  <2>1. CASE Refuse(r)
    BY <1>4, <1>6, <2>1 DEF ResumeFails, rows
  <2>2. CASE ~ Refuse(r)
    <3>1. pc'[r] = "write" /\ UNCHANGED <<incident, op, holds>>
      BY <1>6, <2>2 DEF ResumeFails, TypeOK, rows
    <3> QED
      BY <3>1, OneLoop DEF PatchHoldsIts
  <2> QED
    BY <2>1, <2>2
<1>7. CASE ReleasePlan(r)
  <2>1. pc'[r] = "commit" /\ op[r].kind = "approve" /\ UNCHANGED <<incident, op>>
    BY <1>7 DEF ReleasePlan, TypeOK, rows
  <2> QED
    BY <2>1, OneLoop
<1>8. CASE RejectPlan(r)
  <2>1. /\ pc'[r] = "return" /\ op[r].kind = "reject" /\ UNCHANGED <<incident, op>>
        /\ left'[r] = PlanIncidents[op[r].plan]
    BY <1>8 DEF RejectPlan, TypeOK, rows
  <2>2. \A p \in Plans : Rejects(r, p)' => \A i \in IncidentsOf(p) : StillToCome(r, i)'
    BY <2>1 DEF Rejects, IncidentsOf, StillToCome
  <2> QED
    BY <2>1, <2>2, OneLoop
<1>9. CASE WriteIncident(r)
  <2>1. /\ pc'[r] = "commit" /\ op[r].kind = "patch" /\ UNCHANGED <<incident, op>>
        /\ holds'[r] = holds[r] \cup {op[r].incident}
    BY <1>9 DEF WriteIncident, Take, TypeOK, rows
  <2> QED
    BY <2>1, OneLoop DEF PatchHoldsIts
<1>10. CASE LookAt(r)
  BY <1>10, LookAtLoop
<1>11. CASE GiveBack(r)
  BY <1>11, GiveBackLoop
<1>12. CASE Commit(r)
  BY <1>12, CommitLoop
<1>13. Abort(r) \/ TooLate(r) => Refuse(r) /\ UNCHANGED incident
  BY DEF Abort, TooLate, rows
<1> QED
  BY <1>1, <1>2, <1>3, <1>4, <1>5, <1>6, <1>7, <1>8, <1>9, <1>10, <1>11, <1>12, <1>13
     DEF Acts, Handle

\* The invariant of the rejections' loop, in every behaviour.
LEMMA LoopInvariance == Spec => [](IInv /\ HeadIsThere /\ LoopInv)
<1>1. Init => IInv /\ HeadIsThere /\ LoopInv
  BY InitIInv, InitLoopInv DEF Init, HeadIsThere
<1>2. IInv /\ HeadIsThere /\ LoopInv /\ [Next]_vars => (IInv /\ HeadIsThere /\ LoopInv)'
  <2>1. ASSUME LoopInv, UNCHANGED vars PROVE LoopInv'
    BY <2>1 DEF vars, LoopInv, ClosedIsPatched, LoopCovers, PatchHoldsIts, RejectsByLoop,
                WasClosed, Rejects, StillToCome
  <2> QED
    BY <2>1, NextStep, LoopStep
<1> QED
  BY <1>1, <1>2, PTL DEF Spec

\* A rejection puts every incident of its plan back in the queue, unless an
\* operator closed it.
THEOREM RejectionReturnsIncidents == Spec => RejectionGivesBack
<1> DEFINE Returned == \A p \in Plans : status[p] # "REJECTED" /\ status'[p] = "REJECTED" =>
                           \A i \in IncidentsOf(p) : incident'[i] = "TRIAGED" \/ WasClosed(i)
<1>1. IInv /\ HeadIsThere /\ LoopInv /\ [Next]_vars => [Returned]_vars
  <2> SUFFICES ASSUME IInv, LoopInv, Next, NEW p \in Plans, status[p] # "REJECTED",
                      status'[p] = "REJECTED", NEW i \in IncidentsOf(p)
               PROVE  incident'[i] = "TRIAGED" \/ WasClosed(i)
    OBVIOUS
  <2> USE DEF IInv, LoopInv
  <2>1. PICK r \in Requests : Commit(r)
    BY DEF Next, Handle, rows, Decide, PatchIncident, AgentAccepts, AgentRuns,
           ResumeAnswered, ResumeFails, ReleasePlan, RejectPlan, TooLate, WriteIncident,
           LookAt, GiveBack, Abort
  <2>2. p \in holds[r] /\ NewStatus(r) = "REJECTED"
    BY <2>1 DEF Commit, TypeOK
  <2>3. Rejects(r, p)
    BY <2>2 DEF HolderMayDecide, NewStatus, Approves
  <2>4. pc[r] = "return" /\ left[r] = <<>>
    BY <2>1, <2>3 DEF Commit, Ready, RejectsByLoop, Rejects
  <2>5. i \in holds[r] \/ WasClosed(i)
    BY <2>3, <2>4 DEF LoopCovers, StillToCome
  <2>6. i \in Incidents
    BY DispatchAssumption DEF IncidentsOf
  <2>7. NewIncident(r) = "TRIAGED"
    BY <2>3 DEF NewIncident, Rejects
  <2> QED
    BY <2>1, <2>5, <2>6, <2>7 DEF Commit
<1> QED
  BY <1>1, LoopInvariance, PTL DEF Spec, RejectionGivesBack

\* A rejected plan with no approval in flight is never released.
THEOREM RejectionStands == Spec => RejectionIsFinalAtRest
<1> DEFINE Stays == \A p \in Plans : status[p] = "REJECTED" /\ ~InFlight(p)
                        => (status[p] = "REJECTED" /\ ~InFlight(p))'
<1>1. ASSUME IInv, Next PROVE Stays
  <2> USE DEF IInv
  <2> SUFFICES ASSUME NEW p \in Plans, status[p] = "REJECTED", ~InFlight(p)
               PROVE  status'[p] = "REJECTED" /\ ~InFlight(p)'
    OBVIOUS
  <2> DEFINE Quiet == \A r \in Requests : Approves(r, p)' /\ Open(r)' => Approves(r, p) /\ Open(r)
  <2>0. Quiet => ~InFlight(p)'
    BY DEF InFlight
  <2>1. ASSUME NEW r \in Requests, NEW d \in Decisions, Decide(r, d) PROVE Quiet
    <3>1. d.plan # p \/ d.kind # "approve"
      BY <2>1 DEF Decide, Undecided
    <3> QED
      BY <1>1, <2>1, <3>1 DEF Decide, Approves, Open, TypeOK
  <2>2. ASSUME NEW r \in Requests, NEW d \in Patches, PatchIncident(r, d) PROVE Quiet
    BY <1>1, <2>2 DEF PatchIncident, Approves, Open, TypeOK, Patches
  <2>3. ASSUME NEW r \in Requests, Refuse(r) PROVE Quiet
    <3>1. ~Open(r)'
      BY <1>1, <2>3 DEF Refuse, Open, TypeOK
    <3>2. \A s \in Requests \ {r} : op'[s] = op[s] /\ pc'[s] = pc[s]
      BY <1>1, <2>3 DEF Refuse, TypeOK
    <3> QED
      BY <3>1, <3>2 DEF Approves, Open
  <2>4. ASSUME NEW r \in Requests, Open(r), op' = op, \E x : pc' = [pc EXCEPT ![r] = x] PROVE Quiet
    BY <1>1, <2>4 DEF Approves, Open, TypeOK
  <2>5. ASSUME NEW r \in Requests, Handle(r) PROVE Quiet
    <3>1. op' = op => (\E x : pc' = [pc EXCEPT ![r] = x]) \/ pc' = pc
      BY <2>5 DEF Handle, ResumeAnswered, ResumeFails, ReleasePlan, RejectPlan, TooLate, WriteIncident,
                  LookAt, GiveBack, Commit, Refuse
    <3>2. op' # op => Refuse(r)
      BY <2>5 DEF Handle, ResumeAnswered, ResumeFails, ReleasePlan, RejectPlan, TooLate, WriteIncident,
                  LookAt, GiveBack, Commit
    <3>3. Open(r)
      BY <2>5 DEF Handle, ResumeAnswered, ResumeFails, ReleasePlan, RejectPlan, TooLate, WriteIncident,
                  LookAt, GiveBack, Commit, Ready, Open
    <3>4. CASE pc' = pc /\ op' = op
      BY <3>4 DEF Approves, Open
    <3> QED
      BY <2>3, <2>4, <3>1, <3>2, <3>3, <3>4
  <2>6. ASSUME NEW r \in Requests, AgentAccepts(r) \/ AgentRuns(r) PROVE Quiet
    BY <2>6 DEF AgentAccepts, AgentRuns, Approves, Open
  <2>7. Quiet
    BY <1>1, <2>1, <2>2, <2>3, <2>5, <2>6 DEF Next, Abort
  <2>8. status'[p] = "REJECTED"
    <3>1. CASE status' = status
      BY <3>1
    <3>2. ASSUME NEW r \in Requests, Commit(r) PROVE status'[p] = "REJECTED"
      <4>1. p \notin holds[r]
        BY <1>1, <3>2 DEF HolderMayDecide, InFlight, Commit, Ready, Open
      <4> QED
        BY <3>2, <4>1 DEF Commit
    <3> QED
      BY <1>1, <3>1, <3>2
         DEF Next, Decide, PatchIncident, AgentAccepts, AgentRuns, Abort, Handle, ResumeAnswered,
             ResumeFails, ReleasePlan, RejectPlan, TooLate, WriteIncident, LookAt, GiveBack, rows
  <2> QED
    BY <2>0, <2>7, <2>8
<1>2. IInv /\ HeadIsThere /\ [Next]_vars => [Stays]_vars
  BY <1>1
<1> QED
  BY <1>2, Invariance, PTL DEF Spec, RejectionIsFinalAtRest

\* No approval and no patch is ever part of a circle of waiting transactions.
THEOREM RejectionsAloneDeadlock == Spec => []OnlyRejectionsDeadlock
<1>1. IInv /\ LoopInv => OnlyRejectionsDeadlock
  BY DEF IInv, LoopInv, LocksOfWriters, RejectsByLoop, WaitsFor, Writing, OnlyRejectionsDeadlock
<1> QED
  BY <1>1, LoopInvariance, PTL
===============================================================================
