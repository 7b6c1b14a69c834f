--------------------------- MODULE AidReleaseProofs ---------------------------
(***************************************************************************)
(* Proofs about AidRelease, for any officers, any number of concurrent     *)
(* requests and any bounds.                                                *)
(*                                                                         *)
(* Approvals only accumulate, one per level, so what a request read of     *)
(* them stays true; an unmoved tail means that nothing was added since it  *)
(* was read; and the reference a release carries is its own until it is    *)
(* recorded.                                                               *)
(***************************************************************************)
EXTENDS AidRelease, TLAPS

PastGate == {"rail", "tail", "trigger", "write"}
Appending == {"tail", "trigger", "write"}

(* One approval per level, none by the assessor.                           *)
OnePerLevel == \A a, b \in approvals : a.level = b.level => a = b
AssessorNeverSigns == \A a \in approvals : a.by # Assessor

(* What a request read of the approvals is still there.                    *)
ReadsStand ==
    \A r \in Requests :
        /\ view[r] \subseteq approvals
        /\ job[r] = "approve" /\ pc[r] \in {"trigger", "write"} => tail[r] \subseteq approvals

(* An approval about to be written is by an independent officer, unless    *)
(* the chain has moved on.                                                 *)
WriteIsIndependent ==
    \A r \in Requests :
        job[r] = "approve" /\ pc[r] = "write" /\ tail[r] = approvals
            => /\ by[r] # Assessor
               /\ by[r] \notin SignersAt(ValidOf(approvals), OtherLevel(want[r].level))

(* The people behind a payment by o.                                       *)
Independent(o) ==
    /\ o # Assessor
    /\ \E ds \in ValidOf(approvals) :
        /\ ds.level = "DS" /\ ds.by \notin {Assessor, o}
        /\ large => \E di \in ValidOf(approvals) :
            /\ di.level = "DISTRICT" /\ di.by \notin {Assessor, o, ds.by}

(* A release past the gate has them.                                       *)
GatePassed ==
    \A r \in Requests :
        job[r] = "release" /\ pc[r] \in PastGate => Independent(by[r])

(* Each job goes through its own phases.                                   *)
PhaseOfJob ==
    \A r \in Requests :
        /\ pc[r] \in {"row", "approvals", "grievances", "rail"} => job[r] = "release"
        /\ job[r] = "none" <=> pc[r] = "idle"

(* Only officers approve and release.                                      *)
WriterIsOfficer ==
    \A r \in Requests : job[r] \in {"approve", "release"} => by[r] \in Officers

(* A transfer belongs to one release until it is recorded, and a reversal  *)
(* names a recorded payment.                                               *)
RefsOwned ==
    /\ \A p \in payments : p.ref \in 1..sent
    /\ \A p, q \in payments : p.ref = q.ref => p = q
    /\ \A r \in Requests :
        /\ job[r] = "release" /\ pc[r] \in Appending =>
            /\ ref[r] \in 1..sent
            /\ \A p \in payments : p.ref # ref[r]
            /\ \A q \in Requests :
                 q # r /\ job[q] = "release" /\ pc[q] \in Appending => ref[q] # ref[r]
        /\ job[r] = "reverse" => \E p \in payments : p.ref = ref[r]

(* A case a release found standing still is.                               *)
StandingStands ==
    \A r \in Requests : \A g \in standing[r] :
        g \in open /\ \E h \in grievances : h.id = g /\ HoldsUp(h)

(* The platform opens cases for recorded returns only.                     *)
CasesOfReturns ==
    \A g \in grievances : g.bounced => g.about \in reversed

IInv ==
    /\ TypeOK
    /\ OnePerLevel /\ AssessorNeverSigns
    /\ ReadsStand /\ WriteIsIndependent /\ NoOneApprovesTwice
    /\ PhaseOfJob /\ WriterIsOfficer /\ GatePassed /\ IndependentJudgements
    /\ RefsOwned /\ OneLivePayment
    /\ StandingStands /\ DisputeHoldsMoney
    /\ CasesOfReturns /\ ReturnHasOneCase

-----------------------------------------------------------------------------
\* Everything holds before the first approval.
LEMMA InitIInv == Init => IInv
<1> SUFFICES ASSUME Init PROVE IInv
  OBVIOUS
<1> USE AidAssumption DEF Init
<1>1. TypeOK
  BY DEF TypeOK, Statuses, Jobs, Phases, NoApproval, Levels, Decisions
<1>2. OnePerLevel /\ AssessorNeverSigns /\ ReadsStand /\ NoOneApprovesTwice
  BY DEF OnePerLevel, AssessorNeverSigns, ReadsStand, NoOneApprovesTwice, ValidOf
<1>3. WriteIsIndependent /\ PhaseOfJob /\ WriterIsOfficer /\ GatePassed /\ IndependentJudgements
  BY DEF WriteIsIndependent, PhaseOfJob, WriterIsOfficer, GatePassed, IndependentJudgements, PastGate
<1>4. RefsOwned /\ OneLivePayment
  BY DEF RefsOwned, OneLivePayment, Live
<1>5. StandingStands /\ DisputeHoldsMoney /\ CasesOfReturns /\ ReturnHasOneCase
  BY DEF StandingStands, DisputeHoldsMoney, CasesOfReturns, ReturnHasOneCase
<1> QED
  BY <1>1, <1>2, <1>3, <1>4, <1>5 DEF IInv

(* A request that ends leaves well-typed locals behind, and nobody else's  *)
(* change.                                                                 *)
LocalTypes ==
    /\ job \in [Requests -> Jobs]
    /\ pc \in [Requests -> Phases]
    /\ by \in [Requests -> Officers \union {Assessor}]
    /\ want \in [Requests -> [level : Levels, decision : Decisions]]
    /\ view \in [Requests -> SUBSET Approval]
    /\ tail \in [Requests -> SUBSET (Approval \union Payment \union [ref : Nat])]
    /\ ref \in [Requests -> Nat]

\* A request that ends leaves the others as they are.
LEMMA FinishFrame ==
    ASSUME TypeOK, NEW r \in Requests, Finish(r)
    PROVE  /\ LocalTypes'
           /\ job'[r] = "none" /\ pc'[r] = "idle" /\ view'[r] = {}
           /\ \A q \in Requests : q # r =>
                /\ job'[q] = job[q] /\ pc'[q] = pc[q] /\ by'[q] = by[q]
                /\ want'[q] = want[q] /\ view'[q] = view[q]
                /\ tail'[q] = tail[q] /\ ref'[q] = ref[q]
<1> USE DEF TypeOK, Finish
<1>1. NoApproval \in [level : Levels, decision : Decisions]
  BY DEF NoApproval, Levels, Decisions
<1>2. LocalTypes'
  BY <1>1 DEF LocalTypes, Jobs, Phases
<1> QED
  BY <1>2

\* Opening a case closes none and gives it a number of its own.
LEMMA NewCaseFrame ==
    ASSUME TypeOK, NEW about \in Nat, NEW bounced \in BOOLEAN, NewCase(about, bounced)
    PROVE  /\ grievances' \subseteq Grievance
           /\ raised' \in Nat
           /\ open' \subseteq 1..raised'
           /\ open \subseteq open'
<1> DEFINE new == [id |-> raised + 1, about |-> about, bounced |-> bounced]
<1>1. /\ raised' = raised + 1 /\ raised \in Nat
      /\ grievances' = grievances \union {new}
      /\ open' = open \union {raised + 1}
  BY DEF NewCase, TypeOK
<1>2. new \in Grievance
  BY <1>1 DEF Grievance
<1>3. 1..raised \subseteq 1..raised' /\ raised + 1 \in 1..raised'
  BY <1>1
<1> QED
  BY <1>1, <1>2, <1>3 DEF TypeOK

(* Types.                                                                  *)
LEMMA TypeStep == IInv /\ [Next]_vars => TypeOK'
<1> SUFFICES ASSUME IInv, [Next]_vars PROVE TypeOK'
  OBVIOUS
<1>0. TypeOK
  BY DEF IInv
<1> USE <1>0, AidAssumption DEF TypeOK, committed, money, cases, Jobs, Phases,
        Levels, Decisions, Statuses
<1>1. ASSUME NEW r \in Requests, NEW o \in Officers, NEW level \in Levels,
             NEW decision \in Decisions, BeginApprove(r, o, level, decision)
      PROVE TypeOK'
  BY <1>1 DEF BeginApprove
<1>2. ASSUME NEW r \in Requests, NEW o \in Officers, BeginRelease(r, o)
      PROVE TypeOK'
  <2> DEFINE st == {g.id : g \in {h \in grievances : h.about \in About}} \intersect open
  <2>0. st \subseteq open /\ open \in SUBSET Nat
    OBVIOUS
  <2>1. standing' = [standing EXCEPT ![r] = st]
    BY <1>2 DEF BeginRelease
  <2> HIDE DEF st
  <2>2. standing' \in [Requests -> SUBSET Nat]
    BY <2>0, <2>1
  <2> QED
    BY <1>2, <2>2 DEF BeginRelease
<1>3. ASSUME NEW r \in Requests, NEW p \in payments, BeginReversal(r, p)
      PROVE TypeOK'
  <2>1. p.ref \in Nat
    BY DEF Payment
  <2> QED
    BY <1>3, <2>1 DEF BeginReversal
<1>4. ASSUME NEW r \in Requests, Gate(r)
      PROVE TypeOK'
  <2>1. CASE ReadRow(r)
    BY <2>1 DEF ReadRow
  <2>2. CASE ReadApprovals(r)
    BY <2>2 DEF ReadApprovals
  <2>3. CASE ReadGrievances(r)
    BY <2>3 DEF ReadGrievances
  <2>4. CASE Send(r)
    BY <2>4 DEF Send
  <2> QED
    BY <1>4, <2>1, <2>2, <2>3, <2>4 DEF Gate
<1>5. ASSUME NEW r \in Requests, Append(r)
      PROVE TypeOK'
  <2>1. Chain(r) \in SUBSET (Approval \union Payment \union [ref : Nat])
    BY DEF Chain, Payment
  <2>2. CASE ReadTail(r)
    BY <2>1, <2>2 DEF ReadTail
  <2>3. CASE Segregation(r)
    BY <2>3 DEF Segregation
  <2>4. CASE ChainBreak(r)
    BY <2>4 DEF ChainBreak
  <2> QED
    BY <1>5, <2>2, <2>3, <2>4 DEF Append
<1>6. ASSUME NEW r \in Requests, WriteApproval(r)
      PROVE TypeOK'
  <2> DEFINE a == [level |-> want[r].level, by |-> by[r], decision |-> want[r].decision]
  <2>1. LocalTypes'
    BY <1>6, FinishFrame DEF WriteApproval
  <2>2. a \in Approval
    BY <1>6 DEF WriteApproval, Approval, IInv, WriterIsOfficer
  <2>3. status' \in Statuses
    BY <1>6 DEF WriteApproval, NextStatus
  <2> QED
    BY <1>6, <2>1, <2>2, <2>3 DEF WriteApproval, LocalTypes
<1>7. ASSUME NEW r \in Requests, WritePayment(r)
      PROVE TypeOK'
  <2> DEFINE new == [ref |-> ref[r], by |-> by[r]]
  <2>1. LocalTypes'
    BY <1>7, FinishFrame DEF WritePayment
  <2>2. new \in Payment
    BY <1>7 DEF WritePayment, Payment, IInv, WriterIsOfficer, RefsOwned, Appending
  <2>3. payments' = payments \union {new} /\ reversed \subseteq {p.ref : p \in payments'}
    BY <1>7 DEF WritePayment
  <2> QED
    BY <1>7, <2>1, <2>2, <2>3 DEF WritePayment, LocalTypes
<1>8. ASSUME NEW r \in Requests, WriteReversal(r)
      PROVE TypeOK'
  <2>1. ref[r] \in {p.ref : p \in payments} /\ ref[r] \in Nat
    BY <1>8 DEF WriteReversal, IInv, RefsOwned
  <2>2. LocalTypes'
    BY <1>8, FinishFrame DEF WriteReversal
  <2>3. grievances' \subseteq Grievance /\ raised' \in Nat /\ open' \subseteq 1..raised'
    BY <1>8, <2>1, NewCaseFrame DEF WriteReversal
  <2> QED
    BY <1>8, <2>1, <2>2, <2>3 DEF WriteReversal, LocalTypes
<1>9. ASSUME NEW r \in Requests, Abort(r)
      PROVE TypeOK'
  BY <1>9 DEF Abort, Finish, NoApproval
<1>10. ASSUME RaiseGrievance PROVE TypeOK'
  <2> PICK about \in About : NewCase(about, FALSE)
    BY <1>10 DEF RaiseGrievance
  <2>1. about \in Nat
    BY DEF About, Payment
  <2>2. grievances' \subseteq Grievance /\ raised' \in Nat /\ open' \subseteq 1..raised'
    BY <2>1, NewCaseFrame
  <2> QED
    BY <1>10, <2>2 DEF RaiseGrievance, locals
<1>11. ASSUME ResolveGrievance PROVE TypeOK'
  BY <1>11 DEF ResolveGrievance, locals
<1>12. ASSUME AssignOverResolution PROVE TypeOK'
  BY <1>12 DEF AssignOverResolution, locals
<1>13. CASE UNCHANGED vars
  BY <1>13 DEF vars, locals
<1> QED
  BY <1>1, <1>2, <1>3, <1>4, <1>5, <1>6, <1>7, <1>8, <1>9, <1>10, <1>11, <1>12, <1>13
  DEF Next, Begin, Write

-----------------------------------------------------------------------------
(* The actions, one by one.                                                *)
LEMMA StepCases ==
    ASSUME [Next]_vars
    PROVE  \/ \E r \in Requests :
                \/ \E o \in Officers, level \in Levels, decision \in Decisions :
                        BeginApprove(r, o, level, decision)
                \/ \E o \in Officers : BeginRelease(r, o)
                \/ \E p \in payments : BeginReversal(r, p)
                \/ ReadRow(r) \/ ReadApprovals(r) \/ ReadGrievances(r) \/ Send(r)
                \/ ReadTail(r) \/ Segregation(r) \/ ChainBreak(r)
                \/ WriteApproval(r) \/ WritePayment(r) \/ WriteReversal(r) \/ Abort(r)
           \/ RaiseGrievance \/ ResolveGrievance \/ AssignOverResolution
           \/ UNCHANGED vars
BY DEF Next, Begin, Gate, Append, Write

(* Requests keep to their phases, and are made by officers.                *)
LEMMA LocalStep == IInv /\ [Next]_vars => PhaseOfJob' /\ WriterIsOfficer'
<1> SUFFICES ASSUME IInv, [Next]_vars PROVE PhaseOfJob' /\ WriterIsOfficer'
  OBVIOUS
<1>0. TypeOK /\ PhaseOfJob /\ WriterIsOfficer /\ DistrictOfficers \subseteq Officers
  BY AidAssumption DEF IInv
<1> USE <1>0 DEF PhaseOfJob, WriterIsOfficer
<1>1. ASSUME NEW r \in Requests, NEW o \in Officers, NEW level \in Levels,
             NEW decision \in Decisions, BeginApprove(r, o, level, decision)
      PROVE PhaseOfJob' /\ WriterIsOfficer'
  BY <1>1 DEF BeginApprove, TypeOK
<1>2. ASSUME NEW r \in Requests, NEW o \in Officers, BeginRelease(r, o)
      PROVE PhaseOfJob' /\ WriterIsOfficer'
  BY <1>2 DEF BeginRelease, TypeOK
<1>3. ASSUME NEW r \in Requests, NEW p \in payments, BeginReversal(r, p)
      PROVE PhaseOfJob' /\ WriterIsOfficer'
  BY <1>3 DEF BeginReversal, TypeOK
<1>4. ASSUME NEW r \in Requests,
             ReadRow(r) \/ ReadApprovals(r) \/ ReadGrievances(r) \/ Send(r)
      PROVE PhaseOfJob' /\ WriterIsOfficer'
  BY <1>4 DEF ReadRow, ReadApprovals, ReadGrievances, Send, TypeOK
<1>5. ASSUME NEW r \in Requests, ReadTail(r) \/ Segregation(r) \/ ChainBreak(r)
      PROVE PhaseOfJob' /\ WriterIsOfficer'
  BY <1>5 DEF ReadTail, Segregation, ChainBreak, TypeOK
<1>6. ASSUME NEW r \in Requests,
             WriteApproval(r) \/ WritePayment(r) \/ WriteReversal(r) \/ Abort(r)
      PROVE PhaseOfJob' /\ WriterIsOfficer'
  <2>1. Finish(r)
    BY <1>6 DEF WriteApproval, WritePayment, WriteReversal, Abort
  <2> QED
    BY <2>1, FinishFrame
<1>7. CASE RaiseGrievance \/ ResolveGrievance \/ AssignOverResolution \/ UNCHANGED vars
  BY <1>7 DEF RaiseGrievance, ResolveGrievance, AssignOverResolution, vars, locals
<1> QED
  BY <1>1, <1>2, <1>3, <1>4, <1>5, <1>6, <1>7, StepCases

ApprovalInv ==
    /\ OnePerLevel /\ AssessorNeverSigns
    /\ ReadsStand /\ WriteIsIndependent /\ NoOneApprovesTwice

(* Approvals: only WriteApproval adds one, at a level nobody signed, by    *)
(* somebody the segregation trigger let through on this very chain.        *)
LEMMA ApprovalStep == IInv /\ [Next]_vars => ApprovalInv'
<1> SUFFICES ASSUME IInv, [Next]_vars PROVE ApprovalInv'
  OBVIOUS
<1>0. TypeOK /\ ApprovalInv
  BY DEF IInv, ApprovalInv
<1> USE <1>0 DEF ApprovalInv, OnePerLevel, AssessorNeverSigns, ReadsStand,
        WriteIsIndependent, NoOneApprovesTwice
<1>1. ASSUME NEW r \in Requests, NEW o \in Officers, NEW level \in Levels,
             NEW decision \in Decisions, BeginApprove(r, o, level, decision)
      PROVE ApprovalInv'
  BY <1>1 DEF BeginApprove, TypeOK, committed
<1>2. ASSUME NEW r \in Requests, NEW o \in Officers, BeginRelease(r, o)
      PROVE ApprovalInv'
  BY <1>2 DEF BeginRelease, TypeOK, committed
<1>3. ASSUME NEW r \in Requests, NEW p \in payments, BeginReversal(r, p)
      PROVE ApprovalInv'
  BY <1>3 DEF BeginReversal, TypeOK, committed
<1>4. ASSUME NEW r \in Requests,
             ReadRow(r) \/ ReadApprovals(r) \/ ReadGrievances(r) \/ Send(r)
      PROVE ApprovalInv'
  <2>1. approvals' = approvals /\ job' = job /\ by' = by /\ want' = want /\ tail' = tail
    BY <1>4 DEF ReadRow, ReadApprovals, ReadGrievances, Send, committed
  <2>2. \A q \in Requests : view'[q] \in {view[q], approvals, {}}
    BY <1>4 DEF ReadRow, ReadApprovals, ReadGrievances, Send, TypeOK
  <2>3. \A q \in Requests : pc'[q] \in {"trigger", "write"} => pc'[q] = pc[q]
    BY <1>4 DEF ReadRow, ReadApprovals, ReadGrievances, Send, TypeOK
  <2> QED
    BY <2>1, <2>2, <2>3 DEF TypeOK
<1>5. ASSUME NEW r \in Requests, ReadTail(r) PROVE ApprovalInv'
  BY <1>5 DEF ReadTail, Chain, TypeOK, committed
<1>6. ASSUME NEW r \in Requests, Segregation(r) PROVE ApprovalInv'
  BY <1>6 DEF Segregation, SegregationHolds, TypeOK, committed
<1>7. ASSUME NEW r \in Requests, ChainBreak(r) PROVE ApprovalInv'
  BY <1>7 DEF ChainBreak, TypeOK, committed
<1>8. ASSUME NEW r \in Requests, WriteApproval(r) PROVE ApprovalInv'
  <2> DEFINE a == [level |-> want[r].level, by |-> by[r], decision |-> want[r].decision]
  <2>1. /\ approvals' = approvals \union {a}
        /\ tail[r] = approvals /\ job[r] = "approve" /\ pc[r] = "write"
        /\ \A b \in approvals : b.level # a.level
        /\ Finish(r)
    BY <1>8 DEF WriteApproval, TailUnmoved, Chain, SignersAt
  <2>2. a \notin approvals /\ a.by # Assessor
    BY <2>1
  <2>3. \A b \in ValidOf(approvals) : b.by # a.by
    <3> SUFFICES ASSUME NEW b \in ValidOf(approvals), b.by = by[r] PROVE FALSE
      OBVIOUS
    <3>1. b \in approvals /\ b.level \in Levels /\ want[r].level \in Levels
      BY DEF ValidOf, TypeOK, Approval
    <3>2. b.level = OtherLevel(want[r].level)
      BY <2>1, <3>1 DEF OtherLevel, Levels
    <3> QED
      BY <2>1, <3>2 DEF SignersAt
  <2>4. NoOneApprovesTwice'
    BY <2>1, <2>3 DEF ValidOf
  <2>5. \A q \in Requests : job[q] = "approve" /\ pc[q] \in {"trigger", "write"}
            => tail[q] # approvals'
    BY <2>1, <2>2
  <2>6. ReadsStand' /\ WriteIsIndependent'
    BY <2>1, <2>5, FinishFrame
  <2>7. OnePerLevel' /\ AssessorNeverSigns'
    BY <2>1, <2>2
  <2> QED
    BY <2>4, <2>6, <2>7
<1>9. ASSUME NEW r \in Requests, WritePayment(r) \/ WriteReversal(r) \/ Abort(r)
      PROVE ApprovalInv'
  <2>1. Finish(r) /\ approvals' = approvals
    BY <1>9 DEF WritePayment, WriteReversal, Abort, committed
  <2> QED
    BY <2>1, FinishFrame
<1>10. CASE RaiseGrievance \/ ResolveGrievance \/ AssignOverResolution \/ UNCHANGED vars
  BY <1>10 DEF RaiseGrievance, ResolveGrievance, AssignOverResolution, vars, locals, committed
<1> QED
  BY <1>1, <1>2, <1>3, <1>4, <1>5, <1>6, <1>7, <1>8, <1>9, <1>10, StepCases

-----------------------------------------------------------------------------
(* What the gate established stays true: no signature is ever withdrawn.   *)
LEMMA IndependentStands ==
    ASSUME NEW o, Independent(o), approvals \subseteq approvals', large' = large
    PROVE  Independent(o)'
BY DEF Independent, ValidOf

(* Approvals only accumulate, and the amount does not change.              *)
LEMMA ApprovalsGrow == [Next]_vars => approvals \subseteq approvals' /\ large' = large
<1> SUFFICES ASSUME [Next]_vars PROVE approvals \subseteq approvals' /\ large' = large
  OBVIOUS
<1>1. ASSUME NEW r \in Requests, NEW o \in Officers, NEW level \in Levels,
             NEW decision \in Decisions, BeginApprove(r, o, level, decision)
      PROVE approvals' = approvals /\ large' = large
  BY <1>1 DEF BeginApprove, committed
<1>2. ASSUME NEW r \in Requests, NEW o \in Officers, BeginRelease(r, o)
      PROVE approvals' = approvals /\ large' = large
  BY <1>2 DEF BeginRelease, committed
<1>3. ASSUME NEW r \in Requests, NEW p \in payments, BeginReversal(r, p)
      PROVE approvals' = approvals /\ large' = large
  BY <1>3 DEF BeginReversal, committed
<1>4. ASSUME NEW r \in Requests,
             \/ ReadRow(r) \/ ReadApprovals(r) \/ ReadGrievances(r) \/ Send(r)
             \/ ReadTail(r) \/ Segregation(r) \/ ChainBreak(r)
             \/ WritePayment(r) \/ WriteReversal(r) \/ Abort(r)
      PROVE approvals' = approvals /\ large' = large
  BY <1>4 DEF ReadRow, ReadApprovals, ReadGrievances, Send, ReadTail, Segregation,
     ChainBreak, WritePayment, WriteReversal, Abort, committed
<1>5. ASSUME NEW r \in Requests, WriteApproval(r)
      PROVE approvals \subseteq approvals' /\ large' = large
  BY <1>5 DEF WriteApproval
<1>6. CASE RaiseGrievance \/ ResolveGrievance \/ AssignOverResolution \/ UNCHANGED vars
  BY <1>6 DEF RaiseGrievance, ResolveGrievance, AssignOverResolution, vars, committed
<1> QED
  BY <1>1, <1>2, <1>3, <1>4, <1>5, <1>6, StepCases

(* What the gate checks on the approvals it read holds of those on record. *)
LEMMA GateChecks ==
    ASSUME TypeOK, OnePerLevel, AssessorNeverSigns, NoOneApprovesTwice,
           NEW S \in SUBSET approvals, NEW o,
           GateSegregation(o, S), ApprovalsComplete(S)
    PROVE  Independent(o)
<1>1. \A a \in ValidOf(S) : a \in ValidOf(approvals) /\ a.by # Assessor /\ a.by # o
  BY DEF ValidOf, AssessorNeverSigns, GateSegregation
<1>2. PICK ds \in ValidOf(S) : ds.level = "DS"
  BY DEF ApprovalsComplete, RequiredLevels
<1>3. ASSUME large PROVE \E di \in ValidOf(S) : di.level = "DISTRICT"
  BY <1>3 DEF ApprovalsComplete, RequiredLevels
<1>4. \A di \in ValidOf(S) : di.level = "DISTRICT" => di.by # ds.by
  BY <1>1, <1>2 DEF NoOneApprovesTwice
<1> QED
  BY <1>1, <1>2, <1>3, <1>4 DEF Independent, GateSegregation

GateInv == GatePassed /\ IndependentJudgements

\* A release still has its signatures behind it, and so has every payment.
LEMMA GateStep == IInv /\ [Next]_vars => GateInv'
<1> SUFFICES ASSUME IInv, [Next]_vars PROVE GateInv'
  OBVIOUS
<1>0. /\ TypeOK /\ OnePerLevel /\ AssessorNeverSigns /\ NoOneApprovesTwice
      /\ ReadsStand /\ PhaseOfJob /\ GatePassed
      /\ \A p \in payments : Independent(p.by)
  BY DEF IInv, IndependentJudgements, Independent
<1>1. \A o : Independent(o) => Independent(o)'
  BY IndependentStands, ApprovalsGrow
<1>2. ASSUME \A r \in Requests :
               job'[r] = "release" /\ pc'[r] \in PastGate
                 => job[r] = "release" /\ by'[r] = by[r]
                    /\ (pc[r] \in PastGate \/ Independent(by[r])),
             \A p \in payments' : p \in payments \/ Independent(p.by)
      PROVE GateInv'
  <2>1. GatePassed'
    BY <1>0, <1>1, <1>2 DEF GatePassed
  <2>2. \A p \in payments' : Independent(p.by)'
    BY <1>0, <1>1, <1>2
  <2> QED
    BY <2>1, <2>2 DEF GateInv, IndependentJudgements, Independent
<1>3. ASSUME NEW r \in Requests, ReadGrievances(r) PROVE GateInv'
  <2>1. Independent(by[r])
    BY <1>0, <1>3, GateChecks DEF ReadGrievances, ReadsStand
  <2> QED
    BY <1>0, <1>2, <1>3, <2>1 DEF ReadGrievances, committed, money, TypeOK
<1>4. ASSUME NEW r \in Requests, WritePayment(r) PROVE GateInv'
  <2>1. Finish(r) /\ payments' = payments \union {[ref |-> ref[r], by |-> by[r]]}
    BY <1>4 DEF WritePayment
  <2>2. Independent(by[r])
    BY <1>0, <1>4 DEF WritePayment, GatePassed, PastGate
  <2> QED
    BY <1>0, <1>2, <2>1, <2>2, FinishFrame
<1>5. ASSUME NEW r \in Requests, WriteApproval(r) \/ WriteReversal(r) \/ Abort(r)
      PROVE GateInv'
  <2>1. Finish(r) /\ payments' = payments
    BY <1>5 DEF WriteApproval, WriteReversal, Abort, committed, money
  <2> QED
    BY <1>0, <1>2, <2>1, FinishFrame
<1>6. ASSUME NEW r \in Requests,
             \/ ReadRow(r) \/ ReadApprovals(r) \/ Send(r)
             \/ ReadTail(r) \/ Segregation(r) \/ ChainBreak(r)
      PROVE GateInv'
  <2>1. payments' = payments /\ job' = job /\ by' = by
    BY <1>6 DEF ReadRow, ReadApprovals, Send, ReadTail, Segregation, ChainBreak,
       committed, money
  <2>2. \A q \in Requests : pc'[q] \in PastGate => pc[q] \in PastGate
    BY <1>0, <1>6 DEF ReadRow, ReadApprovals, Send, ReadTail, Segregation,
       ChainBreak, PastGate, TypeOK
  <2> QED
    BY <1>2, <2>1, <2>2
<1>7. ASSUME NEW r \in Requests, NEW o \in Officers, NEW level \in Levels,
             NEW decision \in Decisions, BeginApprove(r, o, level, decision)
      PROVE GateInv'
  BY <1>0, <1>2, <1>7 DEF BeginApprove, committed, money, TypeOK
<1>8. ASSUME NEW r \in Requests, NEW o \in Officers, BeginRelease(r, o)
      PROVE GateInv'
  BY <1>0, <1>2, <1>8 DEF BeginRelease, committed, money, PastGate, TypeOK
<1>9. ASSUME NEW r \in Requests, NEW p \in payments, BeginReversal(r, p)
      PROVE GateInv'
  BY <1>0, <1>2, <1>9 DEF BeginReversal, committed, money, TypeOK
<1>10. CASE RaiseGrievance \/ ResolveGrievance \/ AssignOverResolution \/ UNCHANGED vars
  BY <1>2, <1>10 DEF RaiseGrievance, ResolveGrievance, AssignOverResolution, vars,
     locals, committed, money
<1> QED
  BY <1>3, <1>4, <1>5, <1>6, <1>7, <1>8, <1>9, <1>10, StepCases

-----------------------------------------------------------------------------
MoneyInv == RefsOwned /\ OneLivePayment

(* A step that moves no money and makes no request's reference its own.    *)
LEMMA MoneyFrame ==
    ASSUME MoneyInv, TypeOK, UNCHANGED <<payments, reversed>>, sent \in Nat, sent' \in Nat,
           sent <= sent',
           \A r \in Requests :
             \/ job'[r] = job[r] /\ ref'[r] = ref[r]
                /\ (pc'[r] \in Appending => pc[r] \in Appending \/ job[r] # "release")
             \/ job'[r] \in {"none", "approve"}
             \/ job'[r] = "release" /\ pc'[r] \notin Appending
             \/ job'[r] = "reverse" /\ \E p \in payments : p.ref = ref'[r]
    PROVE  MoneyInv'
<1> USE DEF MoneyInv
<1>1. OneLivePayment'
  BY DEF OneLivePayment, Live
<1>2. \A r \in Requests : job'[r] = "release" /\ pc'[r] \in Appending =>
          job[r] = "release" /\ pc[r] \in Appending /\ ref'[r] = ref[r]
  OBVIOUS
<1>3. \A r \in Requests : job'[r] = "reverse" => \E p \in payments' : p.ref = ref'[r]
  BY DEF RefsOwned
<1>4. \A n \in 1..sent : n \in 1..sent'
  OBVIOUS
<1>5. RefsOwned'
  BY <1>2, <1>3, <1>4 DEF RefsOwned
<1> QED
  BY <1>1, <1>5

\* References stay with their release and one payment stays live at most.
LEMMA MoneyStep == IInv /\ [Next]_vars => MoneyInv'
<1> SUFFICES ASSUME IInv, [Next]_vars PROVE MoneyInv'
  OBVIOUS
<1>0. TypeOK /\ MoneyInv /\ PhaseOfJob /\ sent \in Nat
  BY DEF IInv, MoneyInv, TypeOK
<1>1. ASSUME NEW r \in Requests, NEW o \in Officers, NEW level \in Levels,
             NEW decision \in Decisions, BeginApprove(r, o, level, decision)
      PROVE MoneyInv'
  BY <1>0, <1>1, MoneyFrame DEF BeginApprove, committed, money, TypeOK
<1>2. ASSUME NEW r \in Requests, NEW o \in Officers, BeginRelease(r, o)
      PROVE MoneyInv'
  BY <1>0, <1>2, MoneyFrame DEF BeginRelease, committed, money, Appending, TypeOK
<1>3. ASSUME NEW r \in Requests, NEW p \in payments, BeginReversal(r, p)
      PROVE MoneyInv'
  BY <1>0, <1>3, MoneyFrame DEF BeginReversal, committed, money, TypeOK
<1>4. ASSUME NEW r \in Requests,
             \/ ReadRow(r) \/ ReadApprovals(r) \/ ReadGrievances(r)
             \/ ReadTail(r) \/ Segregation(r) \/ ChainBreak(r)
      PROVE MoneyInv'
  <2>1. UNCHANGED <<payments, reversed, sent, job, ref>>
    BY <1>4 DEF ReadRow, ReadApprovals, ReadGrievances, ReadTail, Segregation,
       ChainBreak, committed, money
  <2>2. \A q \in Requests : pc'[q] \in Appending => pc[q] \in Appending
    BY <1>0, <1>4 DEF ReadRow, ReadApprovals, ReadGrievances, ReadTail, Segregation,
       ChainBreak, Appending, TypeOK
  <2> QED
    BY <1>0, <2>1, <2>2, MoneyFrame
<1>5. ASSUME NEW r \in Requests, Send(r) PROVE MoneyInv'
  <2>1. /\ sent' = sent + 1 /\ UNCHANGED <<payments, reversed, job>>
        /\ ref' = [ref EXCEPT ![r] = sent + 1]
        /\ pc' = [pc EXCEPT ![r] = "tail"]
        /\ job[r] = "release"
    BY <1>0, <1>5 DEF Send, PhaseOfJob
  <2>2. \A n \in 1..sent : n \in 1..sent' /\ n # sent + 1
    BY <1>0, <2>1
  <2>3. sent + 1 \in 1..sent'
    BY <1>0, <2>1
  <2>4. OneLivePayment'
    BY <1>0, <2>1 DEF MoneyInv, OneLivePayment, Live
  <2>5. \A q \in Requests : q # r => pc'[q] = pc[q] /\ ref'[q] = ref[q]
    BY <1>0, <2>1 DEF TypeOK
  <2>6. ref'[r] = sent + 1
    BY <1>0, <2>1 DEF TypeOK
  <2>7. RefsOwned'
    BY <1>0, <2>1, <2>2, <2>3, <2>5, <2>6 DEF MoneyInv, RefsOwned
  <2> QED
    BY <2>4, <2>7 DEF MoneyInv
<1>6. ASSUME NEW r \in Requests, WritePayment(r) PROVE MoneyInv'
  <2> DEFINE new == [ref |-> ref[r], by |-> by[r]]
  <2>1. /\ payments' = payments \union {new}
        /\ UNCHANGED <<reversed, sent>>
        /\ Finish(r) /\ Live = {}
        /\ job[r] = "release" /\ pc[r] \in Appending
    BY <1>6 DEF WritePayment, NoLivePayment, Appending
  <2>2. Live' \subseteq {new}
    BY <2>1 DEF Live
  <2>3. OneLivePayment'
    BY <2>2 DEF OneLivePayment
  <2>4. RefsOwned'
    BY <1>0, <2>1, FinishFrame DEF MoneyInv, RefsOwned
  <2> QED
    BY <2>3, <2>4 DEF MoneyInv
<1>7. ASSUME NEW r \in Requests, WriteReversal(r) PROVE MoneyInv'
  <2>1. /\ reversed' = reversed \union {ref[r]}
        /\ UNCHANGED <<payments, sent>>
        /\ Finish(r)
    BY <1>7 DEF WriteReversal
  <2>2. Live' \subseteq Live
    BY <2>1 DEF Live
  <2>3. OneLivePayment'
    BY <1>0, <2>2 DEF MoneyInv, OneLivePayment
  <2>4. RefsOwned'
    BY <1>0, <2>1, FinishFrame DEF MoneyInv, RefsOwned
  <2> QED
    BY <2>3, <2>4 DEF MoneyInv
<1>8. ASSUME NEW r \in Requests, WriteApproval(r) \/ Abort(r) PROVE MoneyInv'
  <2>1. Finish(r) /\ UNCHANGED <<payments, reversed, sent>>
    BY <1>8 DEF WriteApproval, Abort, committed, money
  <2> QED
    BY <1>0, <2>1, FinishFrame, MoneyFrame
<1>9. CASE RaiseGrievance \/ ResolveGrievance \/ AssignOverResolution \/ UNCHANGED vars
  <2>1. UNCHANGED <<payments, reversed, sent, job, pc, ref>>
    BY <1>9 DEF RaiseGrievance, ResolveGrievance, AssignOverResolution, vars,
       locals, committed, money
  <2> QED
    BY <1>0, <2>1, MoneyFrame
<1> QED
  BY <1>1, <1>2, <1>3, <1>4, <1>5, <1>6, <1>7, <1>8, <1>9, StepCases

-----------------------------------------------------------------------------
CaseInv ==
    /\ StandingStands /\ DisputeHoldsMoney
    /\ CasesOfReturns /\ ReturnHasOneCase

(* A step that opens no case and records no return.                        *)
LEMMA CaseFrame ==
    ASSUME CaseInv, TypeOK, UNCHANGED <<grievances, reversed>>,
           {p.ref : p \in payments} \subseteq {p.ref : p \in payments'},
           \A t \in {p.ref : p \in payments'} :
                t \notin {p.ref : p \in payments} => t \notin reversed,
           \A r \in Requests : \A g \in standing'[r] :
                /\ g \in open'
                /\ g \in standing[r] \/ \E h \in grievances : h.id = g /\ HoldsUp(h)',
           \A r \in Requests : job'[r] = "release" /\ pc'[r] \in PastGate =>
                \/ standing'[r] = {}
                \/ job[r] = "release" /\ pc[r] \in PastGate /\ standing'[r] \subseteq standing[r]
    PROVE  CaseInv'
<1> USE DEF CaseInv
<1>1. \A h : HoldsUp(h) => HoldsUp(h)'
  BY DEF HoldsUp, About
<1>2. StandingStands'
  BY <1>1 DEF StandingStands
<1>3. DisputeHoldsMoney'
  BY DEF DisputeHoldsMoney, PastGate
<1>4. CasesOfReturns'
  BY DEF CasesOfReturns
<1>5. ReturnHasOneCase'
  <2> SUFFICES ASSUME NEW t \in {p.ref : p \in payments'}
               PROVE  LET own == {g \in grievances : g.bounced /\ g.about = t}
                      IN  /\ t \in reversed <=> own # {}
                          /\ \A g, h \in own : g = h
    BY DEF ReturnHasOneCase
  <2>1. CASE t \in {p.ref : p \in payments}
    BY <2>1 DEF ReturnHasOneCase
  <2>2. CASE t \notin {p.ref : p \in payments}
    BY <2>2 DEF CasesOfReturns
  <2> QED
    BY <2>1, <2>2
<1> QED
  BY <1>2, <1>3, <1>4, <1>5

\* Cases that stood when a release began stand, and a return has one case.
LEMMA CaseStep == IInv /\ [Next]_vars => CaseInv'
<1> SUFFICES ASSUME IInv, [Next]_vars PROVE CaseInv'
  OBVIOUS
<1>0. TypeOK /\ CaseInv /\ PhaseOfJob
  BY DEF IInv, CaseInv
<1> USE <1>0
<1>1. ASSUME NEW r \in Requests, NEW o \in Officers, NEW level \in Levels,
             NEW decision \in Decisions, BeginApprove(r, o, level, decision)
      PROVE CaseInv'
  BY <1>1, CaseFrame DEF BeginApprove, committed, money, cases, TypeOK, CaseInv, StandingStands
<1>2. ASSUME NEW r \in Requests, NEW o \in Officers, BeginRelease(r, o)
      PROVE CaseInv'
  <2> DEFINE st == {g.id : g \in {h \in grievances : h.about \in About}} \intersect open
  <2>1. /\ standing' = [standing EXCEPT ![r] = st]
        /\ job' = [job EXCEPT ![r] = "release"]
        /\ pc' = [pc EXCEPT ![r] = "row"]
        /\ UNCHANGED <<grievances, reversed, payments, open>>
    BY <1>2 DEF BeginRelease, committed, money, cases
  <2>2. \A g \in st : g \in open /\ \E h \in grievances : h.id = g /\ HoldsUp(h)'
    BY <2>1 DEF HoldsUp, About
  <2>3. \A q \in Requests : standing'[q] = IF q = r THEN st ELSE standing[q]
    BY <2>1 DEF TypeOK
  <2> HIDE DEF st
  <2>4. \A q \in Requests : \A g \in standing'[q] :
            /\ g \in open'
            /\ g \in standing[q] \/ \E h \in grievances : h.id = g /\ HoldsUp(h)'
    BY <2>1, <2>2, <2>3 DEF CaseInv, StandingStands
  <2>5. \A q \in Requests : job'[q] = "release" /\ pc'[q] \in PastGate =>
            job[q] = "release" /\ pc[q] \in PastGate /\ standing'[q] \subseteq standing[q]
    BY <2>1, <2>3 DEF TypeOK, PastGate
  <2> QED
    BY <2>1, <2>4, <2>5, CaseFrame
<1>3. ASSUME NEW r \in Requests, NEW p \in payments, BeginReversal(r, p)
      PROVE CaseInv'
  BY <1>3, CaseFrame DEF BeginReversal, committed, money, cases, TypeOK, CaseInv, StandingStands
<1>4. ASSUME NEW r \in Requests, ReadGrievances(r) PROVE CaseInv'
  <2>1. /\ UNCHANGED <<grievances, reversed, payments, open, standing, job>>
        /\ pc' = [pc EXCEPT ![r] = "rail"]
        /\ ~ \E g \in grievances : g.id \in open /\ HoldsUp(g)
    BY <1>4 DEF ReadGrievances, committed, money, cases
  <2>2. standing[r] = {}
    BY <2>1 DEF CaseInv, StandingStands
  <2> QED
    BY <2>1, <2>2, CaseFrame DEF TypeOK, CaseInv, StandingStands
<1>5. ASSUME NEW r \in Requests,
             \/ ReadRow(r) \/ ReadApprovals(r) \/ Send(r)
             \/ ReadTail(r) \/ Segregation(r) \/ ChainBreak(r)
      PROVE CaseInv'
  <2>1. UNCHANGED <<grievances, reversed, payments, open, standing, job>>
    BY <1>5 DEF ReadRow, ReadApprovals, Send, ReadTail, Segregation, ChainBreak,
       committed, money, cases
  <2>2. \A q \in Requests : pc'[q] \in PastGate => pc[q] \in PastGate
    BY <1>5 DEF ReadRow, ReadApprovals, Send, ReadTail, Segregation, ChainBreak,
       PastGate, TypeOK
  <2> QED
    BY <2>1, <2>2, CaseFrame DEF CaseInv, StandingStands
<1>6. ASSUME NEW r \in Requests, WriteApproval(r) PROVE CaseInv'
  <2>1. Finish(r) /\ UNCHANGED <<grievances, reversed, payments, open, standing>>
    BY <1>6 DEF WriteApproval, money, cases
  <2> QED
    BY <2>1, FinishFrame, CaseFrame DEF CaseInv, StandingStands
<1>7. ASSUME NEW r \in Requests, WritePayment(r) PROVE CaseInv'
  <2>1. /\ Finish(r) /\ UNCHANGED <<grievances, reversed, open>>
        /\ payments' = payments \union {[ref |-> ref[r], by |-> by[r]]}
        /\ standing' = [standing EXCEPT ![r] = {}]
        /\ ref[r] \notin {p.ref : p \in payments}
    BY <1>7 DEF WritePayment, cases, IInv, RefsOwned, Appending
  <2>2. ref[r] \notin reversed
    BY <2>1 DEF TypeOK
  <2>3. \A q \in Requests : standing'[q] \subseteq standing[q]
    BY <2>1 DEF TypeOK
  <2> QED
    BY <2>1, <2>2, <2>3, FinishFrame, CaseFrame DEF CaseInv, StandingStands
<1>8. ASSUME NEW r \in Requests, WriteReversal(r) PROVE CaseInv'
  <2> DEFINE new == [id |-> raised + 1, about |-> ref[r], bounced |-> TRUE]
  <2>1. /\ Finish(r) /\ UNCHANGED <<payments, standing>>
        /\ grievances' = grievances \union {new}
        /\ reversed' = reversed \union {ref[r]}
        /\ ref[r] \notin reversed
        /\ open \subseteq open'
    BY <1>8 DEF WriteReversal, NewCase, FirstReversal
  <2>2. StandingStands'
    BY <2>1 DEF CaseInv, StandingStands, HoldsUp, About
  <2>3. DisputeHoldsMoney'
    BY <2>1, FinishFrame DEF CaseInv, DisputeHoldsMoney
  <2>4. CasesOfReturns'
    BY <2>1 DEF CaseInv, CasesOfReturns
  <2>5. \A g \in grievances : g.bounced => g.about # ref[r]
    BY <2>1 DEF CaseInv, CasesOfReturns
  <2>6. ReturnHasOneCase'
    <3> SUFFICES ASSUME NEW t \in {p.ref : p \in payments}
                 PROVE  LET own == {g \in grievances' : g.bounced /\ g.about = t}
                        IN  /\ t \in reversed' <=> own # {}
                            /\ \A g, h \in own : g = h
      BY <2>1 DEF ReturnHasOneCase
    <3> DEFINE before == {g \in grievances : g.bounced /\ g.about = t}
               own == {g \in grievances' : g.bounced /\ g.about = t}
    <3>1. CASE t = ref[r]
      <4>1. own = {new}
        BY <2>1, <2>5, <3>1
      <4> QED
        BY <2>1, <3>1, <4>1
    <3>2. CASE t # ref[r]
      <4>1. own = before
        BY <2>1, <3>2
      <4>2. t \in reversed' <=> t \in reversed
        BY <2>1, <3>2
      <4> QED
        BY <4>1, <4>2 DEF CaseInv, ReturnHasOneCase
    <3> QED
      BY <3>1, <3>2
  <2> QED
    BY <2>2, <2>3, <2>4, <2>6 DEF CaseInv
<1>9. ASSUME NEW r \in Requests, Abort(r) PROVE CaseInv'
  <2>1. /\ Finish(r) /\ UNCHANGED <<grievances, reversed, payments, open>>
        /\ standing' = [standing EXCEPT ![r] = {}]
    BY <1>9 DEF Abort, committed, money, cases
  <2>2. \A q \in Requests : standing'[q] \subseteq standing[q]
    BY <2>1 DEF TypeOK
  <2> QED
    BY <2>1, <2>2, FinishFrame, CaseFrame DEF CaseInv, StandingStands
<1>10. ASSUME RaiseGrievance PROVE CaseInv'
  <2> PICK about \in About : NewCase(about, FALSE)
    BY <1>10 DEF RaiseGrievance
  <2>1. /\ grievances' = grievances \union {[id |-> raised + 1, about |-> about, bounced |-> FALSE]}
        /\ open \subseteq open'
        /\ UNCHANGED <<payments, reversed, standing, job, pc>>
    BY <1>10 DEF RaiseGrievance, NewCase, money, locals
  <2>2. StandingStands' /\ DisputeHoldsMoney'
    BY <2>1 DEF CaseInv, StandingStands, DisputeHoldsMoney, HoldsUp, About
  <2>3. {g \in grievances' : g.bounced} = {g \in grievances : g.bounced}
    BY <2>1
  <2>4. CasesOfReturns' /\ ReturnHasOneCase'
    BY <2>1, <2>3 DEF CaseInv, CasesOfReturns, ReturnHasOneCase
  <2> QED
    BY <2>2, <2>4 DEF CaseInv
<1>11. ASSUME ResolveGrievance PROVE CaseInv'
  <2> PICK g \in open :
        /\ open' = open \ {g}
        /\ standing' = [r \in Requests |-> standing[r] \ {g}]
    BY <1>11 DEF ResolveGrievance
  <2>1. UNCHANGED <<payments, reversed, grievances, job, pc>>
    BY <1>11 DEF ResolveGrievance, money, locals
  <2> QED
    BY <2>1, CaseFrame DEF CaseInv, StandingStands
<1>12. ASSUME AssignOverResolution PROVE CaseInv'
  <2>1. UNCHANGED <<payments, reversed, grievances, job, pc, standing>> /\ open \subseteq open'
    BY <1>12 DEF AssignOverResolution, money, locals
  <2> QED
    BY <2>1, CaseFrame DEF CaseInv, StandingStands
<1>13. CASE UNCHANGED vars
  <2>1. UNCHANGED <<payments, reversed, grievances, job, pc, standing, open>>
    BY <1>13 DEF vars, committed, money, cases, locals
  <2> QED
    BY <2>1, CaseFrame DEF CaseInv, StandingStands
<1> QED
  BY <1>1, <1>2, <1>3, <1>4, <1>5, <1>6, <1>7, <1>8, <1>9, <1>10, <1>11, <1>12, <1>13,
     StepCases

-----------------------------------------------------------------------------
\* The inductive invariant holds in every state.
THEOREM Invariance == Spec => []IInv
<1>1. Init => IInv
  BY InitIInv
<1>2. IInv /\ [Next]_vars => IInv'
  BY TypeStep, LocalStep, ApprovalStep, GateStep, MoneyStep, CaseStep
  DEF IInv, ApprovalInv, GateInv, MoneyInv, CaseInv
<1> QED
  BY <1>1, <1>2, PTL DEF Spec

\* Type correctness of the entitlement, its requests and its money.
THEOREM TypeCorrect == Spec => []TypeOK
<1>1. IInv => TypeOK
  BY DEF IInv
<1> QED
  BY <1>1, Invariance, PTL

(* For any number of requests, releases and returns, one payment stands at *)
(* a time: the partial unique index closes what the gate's read leaves     *)
(* open.                                                                   *)
THEOREM NeverPaidTwice == Spec => []OneLivePayment
<1>1. IInv => OneLivePayment
  BY DEF IInv
<1> QED
  BY <1>1, Invariance, PTL

(* Whatever approvals and releases race, every payment has its independent *)
(* signers behind it for ever.                                             *)
THEOREM JudgementsStayIndependent == Spec => []IndependentJudgements
<1>1. IInv => IndependentJudgements
  BY DEF IInv
<1> QED
  BY <1>1, Invariance, PTL

(* The chain's retry makes a segregation trigger that reads without a lock *)
(* sufficient.                                                             *)
THEOREM ApprovalsBySeparatePeople == Spec => []NoOneApprovesTwice
<1>1. IInv => NoOneApprovesTwice
  BY DEF IInv
<1> QED
  BY <1>1, Invariance, PTL

(* No release that starts while a dispute is on record moves money before  *)
(* that dispute is answered.                                               *)
THEOREM DisputesHoldMoney == Spec => []DisputeHoldsMoney
<1>1. IInv => DisputeHoldsMoney
  BY DEF IInv
<1> QED
  BY <1>1, Invariance, PTL

(* A return reported any number of times opens exactly one case.           *)
THEOREM ReturnsHaveOneCase == Spec => []ReturnHasOneCase
<1>1. IInv => ReturnHasOneCase
  BY DEF IInv
<1> QED
  BY <1>1, Invariance, PTL

-----------------------------------------------------------------------------
(* The entitlement's payments implement PaymentPromise: recording one is   *)
(* Pay, recording its return is Return, everything else leaves them alone. *)
LiveRefs == {p.ref : p \in Live}

\* Every step of the code is a Pay, a Return or nothing.
LEMMA StepKeepsPromise ==
    IInv /\ [Next]_vars => [Promise!Pay \/ Promise!Return]_<<LiveRefs, reversed>>
<1> SUFFICES ASSUME IInv, [Next]_vars
             PROVE  [Promise!Pay \/ Promise!Return]_<<LiveRefs, reversed>>
  OBVIOUS
<1>0. TypeOK /\ RefsOwned /\ OneLivePayment /\ PhaseOfJob
  BY DEF IInv
<1>1. ASSUME UNCHANGED <<payments, reversed>> PROVE UNCHANGED <<LiveRefs, reversed>>
  BY <1>1 DEF LiveRefs, Live
<1>2. ASSUME NEW r \in Requests, WritePayment(r) PROVE Promise!Pay
  <2> DEFINE new == [ref |-> ref[r], by |-> by[r]]
  <2>1. /\ payments' = payments \union {new} /\ reversed' = reversed
        /\ Live = {}
        /\ ref[r] \in 1..sent /\ ref[r] \notin {p.ref : p \in payments}
    BY <1>0, <1>2 DEF WritePayment, NoLivePayment, RefsOwned, Appending
  <2>2. ref[r] \notin reversed /\ ref[r] \in Refs
    BY <1>0, <2>1, AidAssumption DEF TypeOK, Refs
  <2>3. Live' = {new}
    BY <2>1, <2>2 DEF Live
  <2>4. LiveRefs = {} /\ LiveRefs' = {ref[r]}
    BY <2>1, <2>3 DEF LiveRefs
  <2> QED
    BY <2>1, <2>2, <2>4 DEF Promise!Pay, LiveRefs
<1>3. ASSUME NEW r \in Requests, WriteReversal(r) PROVE Promise!Return
  <2>1. /\ payments' = payments /\ reversed' = reversed \union {ref[r]}
        /\ ref[r] \notin reversed
        /\ job[r] = "reverse"
    BY <1>3 DEF WriteReversal, FirstReversal
  <2>2. PICK p \in payments : p.ref = ref[r]
    BY <1>0, <2>1 DEF RefsOwned
  <2>3. Live = {p}
    BY <1>0, <2>1, <2>2 DEF Live, OneLivePayment
  <2>4. Live' = {}
    BY <2>1, <2>2, <2>3 DEF Live
  <2>5. LiveRefs = {ref[r]} /\ LiveRefs' = {}
    BY <2>2, <2>3, <2>4 DEF LiveRefs
  <2> QED
    BY <2>1, <2>5 DEF Promise!Return, LiveRefs
<1>4. ASSUME NEW r \in Requests,
             \/ ReadRow(r) \/ ReadApprovals(r) \/ ReadGrievances(r) \/ Send(r)
             \/ ReadTail(r) \/ Segregation(r) \/ ChainBreak(r)
             \/ WriteApproval(r) \/ Abort(r)
      PROVE UNCHANGED <<LiveRefs, reversed>>
  BY <1>1, <1>4 DEF ReadRow, ReadApprovals, ReadGrievances, Send, ReadTail, Segregation,
     ChainBreak, WriteApproval, Abort, committed, money
<1>5. ASSUME NEW r \in Requests, NEW o \in Officers, NEW level \in Levels,
             NEW decision \in Decisions, BeginApprove(r, o, level, decision)
      PROVE UNCHANGED <<LiveRefs, reversed>>
  BY <1>1, <1>5 DEF BeginApprove, committed, money
<1>6. ASSUME NEW r \in Requests, NEW o \in Officers, BeginRelease(r, o)
      PROVE UNCHANGED <<LiveRefs, reversed>>
  BY <1>1, <1>6 DEF BeginRelease, committed, money
<1>7. ASSUME NEW r \in Requests, NEW p \in payments, BeginReversal(r, p)
      PROVE UNCHANGED <<LiveRefs, reversed>>
  BY <1>1, <1>7 DEF BeginReversal, committed, money
<1>8. CASE RaiseGrievance \/ ResolveGrievance \/ AssignOverResolution \/ UNCHANGED vars
  BY <1>1, <1>8 DEF RaiseGrievance, ResolveGrievance, AssignOverResolution, vars,
     committed, money
<1> QED
  BY <1>2, <1>3, <1>4, <1>5, <1>6, <1>7, <1>8, StepCases

\* Paying and reversing one entitlement implement PaymentPromise: a payment
\* stands alone, and only its return makes room for another.
THEOREM PaymentsKeepPromise == Spec => KeepsPromise
<1>1. Init => Promise!PromiseInit
  BY DEF Init, Promise!PromiseInit, Live
<1>2. IInv /\ [Next]_vars => [Promise!Pay \/ Promise!Return]_<<LiveRefs, reversed>>
  BY StepKeepsPromise
<1> QED
  BY <1>1, <1>2, Invariance, PTL DEF Spec, KeepsPromise, Promise!PromiseSpec, LiveRefs

-----------------------------------------------------------------------------
(* A reference comes into a release's hands from the rail, new, and from   *)
(* nowhere else.                                                           *)
LEMMA ReferencesAreNew ==
    ASSUME IInv, [Next]_vars, NEW q \in Requests,
           job'[q] = "release", pc'[q] \in Appending
    PROVE  \/ job[q] = "release" /\ pc[q] \in Appending /\ ref'[q] = ref[q]
           \/ ref'[q] = sent + 1
<1> DEFINE Kept == job[q] = "release" /\ pc[q] \in Appending /\ ref'[q] = ref[q]
<1>0. TypeOK /\ PhaseOfJob
  BY DEF IInv
<1> USE <1>0 DEF Appending, TypeOK
<1>1. ASSUME NEW r \in Requests, NEW o \in Officers, NEW level \in Levels,
             NEW decision \in Decisions, BeginApprove(r, o, level, decision)
      PROVE  Kept
  BY <1>1 DEF BeginApprove
<1>2. ASSUME NEW r \in Requests, NEW o \in Officers, BeginRelease(r, o) PROVE Kept
  BY <1>2 DEF BeginRelease
<1>3. ASSUME NEW r \in Requests, NEW p \in payments, BeginReversal(r, p) PROVE Kept
  BY <1>3 DEF BeginReversal
<1>4. ASSUME NEW r \in Requests, ReadRow(r) \/ ReadApprovals(r) \/ ReadGrievances(r)
      PROVE  Kept
  BY <1>4 DEF ReadRow, ReadApprovals, ReadGrievances
<1>5. ASSUME NEW r \in Requests, Send(r) PROVE Kept \/ ref'[q] = sent + 1
  BY <1>5 DEF Send
<1>6. ASSUME NEW r \in Requests, ReadTail(r) \/ Segregation(r) \/ ChainBreak(r) PROVE Kept
  BY <1>6 DEF ReadTail, Segregation, ChainBreak
<1>7. ASSUME NEW r \in Requests,
             WriteApproval(r) \/ WritePayment(r) \/ WriteReversal(r) \/ Abort(r)
      PROVE  Kept
  <2>1. Finish(r)
    BY <1>7 DEF WriteApproval, WritePayment, WriteReversal, Abort
  <2> QED BY <2>1, FinishFrame
<1>8. ASSUME RaiseGrievance \/ ResolveGrievance \/ AssignOverResolution \/ UNCHANGED vars
      PROVE  Kept
  BY <1>8 DEF RaiseGrievance, ResolveGrievance, AssignOverResolution, vars, locals
<1> HIDE DEF Kept, TypeOK, Appending
<1>9. Kept \/ ref'[q] = sent + 1
  BY <1>1, <1>2, <1>3, <1>4, <1>5, <1>6, <1>7, <1>8, StepCases
<1> QED BY <1>9 DEF Kept

\* A payment is recorded by the release that has its reference in hand.
LEMMA RecordedFromHand ==
    ASSUME IInv, [Next]_vars, NEW t, OnRecord(t)'
    PROVE  OnRecord(t) \/ InHand(t)
<1>1. ASSUME NEW r \in Requests, WritePayment(r)
      PROVE  OnRecord(t) \/ InHand(t)
  <2>1. payments' = payments \union {[ref |-> ref[r], by |-> by[r]]}
    BY <1>1 DEF WritePayment
  <2>2. job[r] = "release" /\ pc[r] = "write"
    BY <1>1 DEF WritePayment
  <2> QED BY <2>1, <2>2 DEF OnRecord, InHand
<1>2. payments' = payments => OnRecord(t)
  BY DEF OnRecord
<1>3. payments' = payments \/ \E r \in Requests : WritePayment(r)
  BY StepCases DEF BeginApprove, BeginRelease, BeginReversal, ReadRow, ReadApprovals,
     ReadGrievances, Send, ReadTail, Segregation, ChainBreak, WriteApproval, WriteReversal,
     Abort, RaiseGrievance, ResolveGrievance, AssignOverResolution, vars, committed, money
<1> QED BY <1>1, <1>2, <1>3

(* Money that no request can record any more is never recorded: a release  *)
(* that fails after the rail has paid leaves a payment for people to find. *)
THEOREM LostMoneyIsNeverFound == Spec => LostMoneyStaysLost
<1>1. IInv /\ [Next]_vars => [\A t \in 1..sent : Unrecorded(t) => Unrecorded(t)']_vars
  <2> SUFFICES ASSUME IInv, [Next]_vars, NEW t \in 1..sent, Unrecorded(t)
               PROVE  Unrecorded(t)'
    OBVIOUS
  <2>1. sent \in Nat /\ t \in Nat /\ t <= sent
    BY AidAssumption DEF IInv, TypeOK
  <2>2. sent' = sent \/ sent' = sent + 1
    BY StepCases DEF BeginApprove, BeginRelease, BeginReversal, ReadRow, ReadApprovals,
       ReadGrievances, Send, ReadTail, Segregation, ChainBreak, WriteApproval, WritePayment,
       WriteReversal, Abort, RaiseGrievance, ResolveGrievance, AssignOverResolution, vars,
       committed, money
  <2>3. t \in 1..sent'
    BY <2>1, <2>2
  <2>4. ~OnRecord(t)'
    BY RecordedFromHand DEF Unrecorded
  <2>5. ASSUME NEW q \in Requests, job'[q] = "release", pc'[q] \in Appending, ref'[q] = t
        PROVE  FALSE
    <3>1. t # sent + 1
      BY <2>1
    <3>2. job[q] = "release" /\ pc[q] \in Appending /\ ref[q] = t
      BY <2>5, <3>1, ReferencesAreNew
    <3> QED BY <3>2 DEF Unrecorded, InHand, Appending
  <2>6. ~InHand(t)'
    BY <2>5 DEF InHand, Appending
  <2> QED BY <2>3, <2>4, <2>6 DEF Unrecorded
<1> QED BY <1>1, Invariance, PTL DEF Spec, LostMoneyStaysLost
==============================================================================
