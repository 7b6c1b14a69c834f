------------------------------ MODULE AidRelease ------------------------------
(***************************************************************************)
(* One entitlement from calculation to payment in ledger-svc: approvals,   *)
(* the disbursement gate, the payment rail, reversals of returned          *)
(* payments, and the grievances that hold a release up.                    *)
(*                                                                         *)
(* Each request is one READ COMMITTED transaction.  The reads it decides   *)
(* on are separate statements, and other requests commit between them.     *)
(* Its INSERT runs the segregation trigger before the hash-chain trigger   *)
(* takes the table's advisory lock; from the lock to the commit nobody     *)
(* else inserts into that table, so insert, status update and commit are   *)
(* one step here.  A lost chain race starts the append over, from the tail *)
(* read, running the segregation trigger again (LedgerChain models that    *)
(* loop; here an entry of another entitlement may break the chain too).    *)
(***************************************************************************)
EXTENDS Naturals, FiniteSets

CONSTANTS
    Officers,           \* people holding an approving role in the area
    DistrictOfficers,   \* those of them with the DISTRICT_APPROVER role
    Assessor,           \* whoever assessed the damage
    Requests,           \* concurrent requests
    MaxTransfers,       \* bound: transfers the rail makes, by size of the amount
    MaxGrievances       \* bound: complaints of the household, by size of the amount

ASSUME AidAssumption ==
    /\ DistrictOfficers \subseteq Officers
    /\ MaxTransfers \in [BOOLEAN -> Nat]
    /\ MaxGrievances \in [BOOLEAN -> Nat]

Levels == {"DS", "DISTRICT"}
(* REJECTED stands for RETURNED as well: the code treats them alike.       *)
Decisions == {"APPROVED", "REJECTED"}
Statuses == {"CALCULATED", "AWAITING_DS", "AWAITING_DISTRICT", "APPROVED",
             "REJECTED", "DISBURSED"}

Approval == [level : Levels, by : Officers, decision : Decisions]
Payment == [ref : Nat \ {0}, by : Officers]
(* about 0 is the entitlement or its assessment, else a payment; bounced   *)
(* tells the case the platform opens itself from a household's complaint.  *)
Grievance == [id : Nat \ {0}, about : Nat, bounced : BOOLEAN]

VARIABLES
    large,          \* the amount is above the district threshold
    status,         \* aid.entitlement.status
    approvals,      \* aid.approval, for this entitlement
    payments,       \* aid.disbursement, for this entitlement
    reversed,       \* refs of the payments with a reversal entry
    sent,           \* transfers the rail has made; a ref is their number
    grievances,     \* aid.grievance touching this entitlement
    open,           \* the ids of those in an open status
    raised,         \* grievances raised so far; an id is their number
    job, pc,        \* what each request does and where it stands
    by,             \* the officer making it
    want,           \* the approval it wants to record
    view,           \* the approvals it read
    tail,           \* the chain tail it read: the entries up to it
    ref,            \* the payment it sends, or reports returned
    standing        \* history: cases open ever since it began

money == <<payments, reversed, sent>>
cases == <<grievances, open, raised>>
committed == <<large, status, approvals, money, cases>>
locals == <<job, pc, by, want, view, tail, ref>>
vars == <<committed, locals, standing>>

Jobs == {"none", "approve", "release", "reverse"}
Phases == {"idle", "row", "approvals", "grievances", "rail", "tail", "trigger", "write"}
NoApproval == [level |-> "DS", decision |-> "APPROVED"]

-----------------------------------------------------------------------------
Live == {p \in payments : p.ref \notin reversed}
About == {0} \union {p.ref : p \in payments}

(* domain/approval.py                                                      *)
RequiredLevels == IF large THEN {"DS", "DISTRICT"} ELSE {"DS"}
SignersAt(S, level) == {a.by : a \in {b \in S : b.level = level}}
OtherLevel(level) == IF level = "DS" THEN "DISTRICT" ELSE "DS"
ValidOf(S) == {a \in S : a.decision = "APPROVED"}

(* assert_may_approve: other-level approvers count whatever they decided.  *)
MayApprove(o, level, S) ==
    /\ o # Assessor
    /\ o \notin SignersAt(S, OtherLevel(level))

(* The status approve_entitlement computes from what it read before the    *)
(* append.  A level counts as signed whatever was decided there.           *)
NextStatus(a, S) ==
    LET signed == {b.level : b \in S} \union {a.level}
    IN  IF a.decision # "APPROVED" THEN "REJECTED"
        ELSE IF RequiredLevels \subseteq signed THEN "APPROVED"
        ELSE IF large THEN "AWAITING_DISTRICT" ELSE "AWAITING_DS"

(* Mutated form: the gate asks for the DS level only.                      *)
CompleteAtDS(S) == "DS" \in {a.level : a \in ValidOf(S)}

(* disbursement_gate.py: assert_approvals_complete and assert_segregation. *)
ApprovalsComplete(S) == RequiredLevels \subseteq {a.level : a \in ValidOf(S)}
GateSegregation(o, S) == o # Assessor /\ o \notin {a.by : a \in ValidOf(S)}

(* Mutated form: a grievance about a payment holds nothing up.             *)
HoldsUpOwn(g) == g.about = 0

(* open_grievances_for: about the entitlement, its assessment or a payment *)
(* made on it.                                                             *)
HoldsUp(g) == g.about \in About

-----------------------------------------------------------------------------
Init ==
    /\ large \in BOOLEAN
    /\ status = "CALCULATED"
    /\ approvals = {} /\ payments = {} /\ reversed = {} /\ sent = 0
    /\ grievances = {} /\ open = {} /\ raised = 0
    /\ job = [r \in Requests |-> "none"]
    /\ pc = [r \in Requests |-> "idle"]
    /\ by = [r \in Requests |-> Assessor]
    /\ want = [r \in Requests |-> NoApproval]
    /\ view = [r \in Requests |-> {}]
    /\ tail = [r \in Requests |-> {}]
    /\ ref = [r \in Requests |-> 0]
    /\ standing = [r \in Requests |-> {}]

(* A request ends, committed or rolled back, and its locals go with it.    *)
Finish(r) ==
    /\ job' = [job EXCEPT ![r] = "none"]
    /\ pc' = [pc EXCEPT ![r] = "idle"]
    /\ by' = [by EXCEPT ![r] = Assessor]
    /\ want' = [want EXCEPT ![r] = NoApproval]
    /\ view' = [view EXCEPT ![r] = {}]
    /\ tail' = [tail EXCEPT ![r] = {}]
    /\ ref' = [ref EXCEPT ![r] = 0]

(* A refused check, a refused constraint, a rail that refuses, a crash: the *)
(* transaction is undone.  Money already moved is not.                     *)
Abort(r) ==
    /\ pc[r] # "idle"
    /\ Finish(r)
    /\ standing' = [standing EXCEPT ![r] = {}]
    /\ UNCHANGED committed

-----------------------------------------------------------------------------
(* approve_entitlement: reads the approvals and checks the officer.        *)
BeginApprove(r, o, level, decision) ==
    /\ pc[r] = "idle"
    /\ level = "DISTRICT" => o \in DistrictOfficers
    /\ MayApprove(o, level, approvals)
    /\ job' = [job EXCEPT ![r] = "approve"]
    /\ pc' = [pc EXCEPT ![r] = "tail"]
    /\ by' = [by EXCEPT ![r] = o]
    /\ want' = [want EXCEPT ![r] = [level |-> level, decision |-> decision]]
    /\ view' = [view EXCEPT ![r] = approvals]
    /\ UNCHANGED <<committed, tail, ref, standing>>

(* release_disbursement: the scope is checked, the reads come one by one.  *)
BeginRelease(r, o) ==
    /\ pc[r] = "idle"
    /\ o \in DistrictOfficers
    /\ job' = [job EXCEPT ![r] = "release"]
    /\ pc' = [pc EXCEPT ![r] = "row"]
    /\ by' = [by EXCEPT ![r] = o]
    /\ standing' = [standing EXCEPT ![r] =
                        {g.id : g \in {h \in grievances : h.about \in About}} \intersect open]
    /\ UNCHANGED <<committed, want, view, tail, ref>>

(* release_context_row: a live payment refuses, and REJECTED makes every   *)
(* approval superseded.                                                    *)
ReadRow(r) ==
    /\ pc[r] = "row"
    /\ Live = {}
    /\ status # "REJECTED"
    /\ pc' = [pc EXCEPT ![r] = "approvals"]
    /\ UNCHANGED <<committed, job, by, want, view, tail, ref, standing>>

ReadApprovals(r) ==
    /\ pc[r] = "approvals"
    /\ view' = [view EXCEPT ![r] = approvals]
    /\ pc' = [pc EXCEPT ![r] = "grievances"]
    /\ UNCHANGED <<committed, job, by, want, tail, ref, standing>>

(* open_grievances_for is the last read; the gate then decides without     *)
(* going back to the database.                                             *)
ReadGrievances(r) ==
    /\ pc[r] = "grievances"
    /\ GateSegregation(by[r], view[r])
    /\ ApprovalsComplete(view[r])
    /\ ~ \E g \in grievances : g.id \in open /\ HoldsUp(g)
    /\ pc' = [pc EXCEPT ![r] = "rail"]
    /\ view' = [view EXCEPT ![r] = {}]
    /\ UNCHANGED <<committed, job, by, want, tail, ref, standing>>

(* rail.send: the money moves before anything is written.                  *)
Send(r) ==
    /\ pc[r] = "rail"
    /\ sent < MaxTransfers[large]
    /\ sent' = sent + 1
    /\ ref' = [ref EXCEPT ![r] = sent + 1]
    /\ pc' = [pc EXCEPT ![r] = "tail"]
    /\ UNCHANGED <<large, status, approvals, payments, reversed, cases,
                   job, by, want, view, tail, standing>>

(* record_reversal: a payment not yet marked reversed, reported returned   *)
(* by the rail or found returned by the settlement worker.                 *)
BeginReversal(r, p) ==
    /\ pc[r] = "idle"
    /\ p \in Live
    /\ job' = [job EXCEPT ![r] = "reverse"]
    /\ pc' = [pc EXCEPT ![r] = "tail"]
    /\ ref' = [ref EXCEPT ![r] = p.ref]
    /\ UNCHANGED <<committed, by, want, view, tail, standing>>

(* The chain this request appends to.                                      *)
Chain(r) ==
    IF job[r] = "approve" THEN approvals
    ELSE IF job[r] = "release" THEN payments
    ELSE {[ref |-> t] : t \in reversed}

(* chain_writer.current_tail.                                              *)
ReadTail(r) ==
    /\ pc[r] = "tail"
    /\ tail' = [tail EXCEPT ![r] = Chain(r)]
    /\ pc' = [pc EXCEPT ![r] = "trigger"]
    /\ UNCHANGED <<committed, job, by, want, view, ref, standing>>

(* The segregation triggers; aid.disbursement_reversal has none.           *)
SegregationHolds(r) ==
    /\ job[r] = "approve" =>
            /\ by[r] # Assessor
            /\ by[r] \notin SignersAt(ValidOf(approvals), OtherLevel(want[r].level))
    /\ job[r] = "release" => by[r] \notin {a.by : a \in ValidOf(approvals)}

Segregation(r) ==
    /\ pc[r] = "trigger"
    /\ SegregationHolds(r)
    /\ pc' = [pc EXCEPT ![r] = "write"]
    /\ UNCHANGED <<committed, job, by, want, view, tail, ref, standing>>

(* Mutated form: the chain is not checked against the tail that was read.  *)
TailTrusted(r) == TRUE

(* The hash-chain trigger's comparison, under the advisory lock.           *)
TailUnmoved(r) == tail[r] = Chain(r)

(* "hash chain break": an entry, of this entitlement or of another, came   *)
(* first.                                                                  *)
ChainBreak(r) ==
    /\ pc[r] = "write"
    /\ pc' = [pc EXCEPT ![r] = "tail"]
    /\ tail' = [tail EXCEPT ![r] = {}]
    /\ UNCHANGED <<committed, job, by, want, view, ref, standing>>

-----------------------------------------------------------------------------
(* uq_approval_entitlement_level, then the status and the commit.          *)
WriteApproval(r) ==
    LET a == [level |-> want[r].level, by |-> by[r], decision |-> want[r].decision]
    IN  /\ pc[r] = "write" /\ job[r] = "approve"
        /\ TailUnmoved(r)
        /\ SignersAt(approvals, a.level) = {}
        /\ approvals' = approvals \union {a}
        /\ status' = NextStatus(a, view[r])
        /\ Finish(r)
        /\ UNCHANGED <<large, money, cases, standing>>

(* Mutated form: the unique index on live payments is missing.             *)
IndexDropped == TRUE

(* uq_disbursement_entitlement_live.                                       *)
NoLivePayment == Live = {}

WritePayment(r) ==
    /\ pc[r] = "write" /\ job[r] = "release"
    /\ TailUnmoved(r)
    /\ NoLivePayment
    /\ payments' = payments \union {[ref |-> ref[r], by |-> by[r]]}
    /\ status' = "DISBURSED"
    /\ standing' = [standing EXCEPT ![r] = {}]
    /\ Finish(r)
    /\ UNCHANGED <<large, approvals, reversed, sent, cases>>

(* A case, the household's or the platform's own.                          *)
NewCase(about, bounced) ==
    /\ raised' = raised + 1
    /\ grievances' = grievances \union
            {[id |-> raised + 1, about |-> about, bounced |-> bounced]}
    /\ open' = open \union {raised + 1}

(* Mutated form: uq_reversal_disbursement is missing.                      *)
AnyReversal(r) == TRUE

(* uq_reversal_disbursement.                                               *)
FirstReversal(r) == ref[r] \notin reversed

(* The household's case, the reversal, the stamp on the payment and the    *)
(* status, all or none.                                                    *)
WriteReversal(r) ==
    /\ pc[r] = "write" /\ job[r] = "reverse"
    /\ TailUnmoved(r)
    /\ FirstReversal(r)
    /\ NewCase(ref[r], TRUE)
    /\ reversed' = reversed \union {ref[r]}
    /\ status' = "APPROVED"
    /\ Finish(r)
    /\ UNCHANGED <<large, approvals, payments, sent, standing>>

-----------------------------------------------------------------------------
(* A household disputes its entitlement, its assessment or a payment, in   *)
(* the app or by answering NO to the confirmation message.                 *)
RaiseGrievance ==
    /\ Cardinality({g \in grievances : ~g.bounced}) < MaxGrievances[large]
    /\ \E about \in About : NewCase(about, FALSE)
    /\ UNCHANGED <<large, status, approvals, money, locals, standing>>

(* resolve_grievance: its UPDATE takes open cases only.                    *)
ResolveGrievance ==
    \E g \in open :
        /\ open' = open \ {g}
        /\ standing' = [r \in Requests |-> standing[r] \ {g}]
        /\ UNCHANGED <<large, status, approvals, money, grievances, raised, locals>>

(* assign_grievance checks the status it reads and then updates the row,   *)
(* whatever its status has become: one that read the case open may land    *)
(* after its resolution.                                                   *)
AssignOverResolution ==
    \E g \in (1..raised) \ open :
        /\ open' = open \union {g}
        /\ UNCHANGED <<large, status, approvals, money, grievances, raised,
                       locals, standing>>

-----------------------------------------------------------------------------
Begin(r) ==
    \/ \E o \in Officers, level \in Levels, decision \in Decisions :
            BeginApprove(r, o, level, decision)
    \/ \E o \in Officers : BeginRelease(r, o)
    \/ \E p \in payments : BeginReversal(r, p)

Gate(r) == ReadRow(r) \/ ReadApprovals(r) \/ ReadGrievances(r) \/ Send(r)
Append(r) == ReadTail(r) \/ Segregation(r) \/ ChainBreak(r)
Write(r) == WriteApproval(r) \/ WritePayment(r) \/ WriteReversal(r)

Next ==
    \/ \E r \in Requests : Begin(r) \/ Gate(r) \/ Append(r) \/ Write(r) \/ Abort(r)
    \/ RaiseGrievance
    \/ ResolveGrievance
    \/ AssignOverResolution

Spec == Init /\ [][Next]_vars

-----------------------------------------------------------------------------
TypeOK ==
    /\ large \in BOOLEAN
    /\ status \in Statuses
    /\ approvals \subseteq Approval
    /\ payments \subseteq Payment
    /\ reversed \subseteq {p.ref : p \in payments}
    /\ sent \in 0..MaxTransfers[large]
    /\ grievances \subseteq Grievance
    /\ raised \in Nat
    /\ open \subseteq 1..raised
    /\ job \in [Requests -> Jobs]
    /\ pc \in [Requests -> Phases]
    /\ by \in [Requests -> Officers \union {Assessor}]
    /\ want \in [Requests -> [level : Levels, decision : Decisions]]
    /\ view \in [Requests -> SUBSET Approval]
    /\ tail \in [Requests -> SUBSET (Approval \union Payment \union [ref : Nat])]
    /\ ref \in [Requests -> Nat]
    /\ standing \in [Requests -> SUBSET Nat]

(* No household is paid twice for one entitlement: whatever releases,      *)
(* returns and retries race, one payment stands at a time                  *)
(* (0010: "One *live* payment per entitlement").                           *)
OneLivePayment == \A p, q \in Live : p = q

(* Nobody supplies two of the independent judgements behind a payment:     *)
(* whoever released it neither assessed the damage nor is one of the valid *)
(* signers it needs, and above the threshold four different people stand   *)
(* behind it.                                                              *)
IndependentJudgements ==
    \A p \in payments :
        /\ p.by # Assessor
        /\ \E ds \in ValidOf(approvals) :
            /\ ds.level = "DS" /\ ds.by \notin {Assessor, p.by}
            /\ large => \E di \in ValidOf(approvals) :
                /\ di.level = "DISTRICT" /\ di.by \notin {Assessor, p.by, ds.by}

(* No one approves at both levels, although the trigger that forbids it    *)
(* reads before it holds any lock: the chain makes the later one look      *)
(* again (0004: "The second level of approval exists to be a second pair   *)
(* of eyes").                                                              *)
NoOneApprovesTwice ==
    \A a, b \in ValidOf(approvals) : a.by = b.by => a.level = b.level

(* A dispute on record when a release begins, about this entitlement or a  *)
(* payment made on it, is answered before any money moves for it.          *)
DisputeHoldsMoney ==
    \A r \in Requests :
        job[r] = "release" /\ pc[r] \in {"rail", "tail", "trigger", "write"}
            => standing[r] = {}

(* Every returned payment has its household told once: one case opened by  *)
(* the platform, however often and by whoever the return was reported.     *)
ReturnHasOneCase ==
    \A t \in {p.ref : p \in payments} :
        LET own == {g \in grievances : g.bounced /\ g.about = t}
        IN  /\ t \in reversed <=> own # {}
            /\ \A g, h \in own : g = h

(* Where a transfer the rail has made may be found: on record, or in the   *)
(* hands of a release that has still to write it down.                     *)
OnRecord(t) == \E p \in payments : p.ref = t
InHand(t) ==
    \E r \in Requests :
        job[r] = "release" /\ pc[r] \in {"tail", "trigger", "write"} /\ ref[r] = t
Unrecorded(t) == t \in 1..sent /\ ~OnRecord(t) /\ ~InHand(t)

(* A transfer whose release was undone stays out of the ledger for good:   *)
(* no retry, no reversal and no later release ever finds it, because the   *)
(* only trace of its reference was that request's memory.                  *)
LostMoneyStaysLost == [][\A t \in 1..sent : Unrecorded(t) => Unrecorded(t)']_vars

(* The references the rail may give.                                       *)
Refs == UNION {1..MaxTransfers[above] : above \in BOOLEAN}
Promise == INSTANCE PaymentPromise
              WITH Transfer <- Refs, live <- {p.ref : p \in Live}, returned <- reversed

(* The payments of the entitlement keep the ledger's promise.              *)
KeepsPromise == Promise!PromiseSpec

==============================================================================
