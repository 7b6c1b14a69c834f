--------------------------- MODULE DeviceSyncProofs ---------------------------
(***************************************************************************)
(* Proofs about DeviceSync, for any number of operations of any kinds, any *)
(* batch size, pushes in flight, failures and kills.                       *)
(*                                                                         *)
(* The argument has two halves.  On the server (ServerInv) everything at   *)
(* or below the cursor, and below any stored assessment, is settled: on    *)
(* record, or refused for its category.  A cursor read earlier by a        *)
(* transaction is still covered when it commits, because what is settled   *)
(* stays settled.  An operation the plan lets through has no gap below it  *)
(* in its batch; were a smaller one unsettled, the least member of the     *)
(* batch above it would be such a gap.                                     *)
(*                                                                         *)
(* On the device (DeviceInv) a row that may be sent, or that is claimed    *)
(* and not being submitted, has been submitted only as often as an answer  *)
(* was lost; and whatever an answer calls stored is stored.                *)
(*                                                                         *)
(* Between the two stands the cursor the server answers and the device     *)
(* keeps (CursorInv): the rows it moves over are answered along with it.   *)
(* The device's cursor follows it (BeliefInv), and inserts come after all  *)
(* of it, so that the record is an append-only log.                        *)
(***************************************************************************)
EXTENDS DeviceSync, FiniteSetTheorems, TLAPS

Written(s) == kind[s] # "none"
Pushable(s) == kind[s] \notin {"none", "report"}
Settled(s) == stored[s] > 0 \/ kind[s] = "unlisted"

\* The device's half.
RowsHaveKinds == \A s \in Ops : kind[s] = "none" <=> status[s] = "absent"
BatchIsWritten == \A s \in batch : Written(s)
OneSubmission ==
    /\ phase = "answer" <=> single # 0
    /\ single # 0 => /\ single \in batch
                     /\ kind[single] = "report"
                     /\ status[single] = "syncing"
                     /\ reports[single] > 0
OnlyReports == \A s \in Ops : kind[s] # "report" => reports[s] = 0
SendableUnsent ==
    \A s \in Ops :
        (status[s] = "pending" \/ (status[s] = "syncing" /\ s \in batch /\ s # single))
            => reports[s] <= lost[s]

DeviceInv ==
    /\ RowsHaveKinds
    /\ BatchIsWritten
    /\ OneSubmission
    /\ OnlyReports
    /\ SendableUnsent
    /\ RepeatedOnlyAfterLoss
    /\ SyncedIsStored

\* The server's half.
InFlight ==
    \A r \in Requests :
        /\ \A s \in request[r].ops : Pushable(s)
        /\ \A s \in request[r].seen : stored[s] > 0
        /\ \A t \in 1..request[r].from : Settled(t)
Covered == \A t \in 1..lastApplied : Settled(t)
AnswerIsTrue ==
    reply # None => /\ \A s \in reply.ok \cup reply.refused : Pushable(s)
                    /\ \A s \in reply.ok : stored[s] > 0

ServerInv ==
    /\ InFlight
    /\ Covered
    /\ AnswerIsTrue
    /\ StoredOnce
    /\ AppliedWithoutGaps

IInv == TypeOK /\ DeviceInv /\ ServerInv

-------------------------------------------------------------------------------
(* The least-number principle, from the library's theorems on finite sets: *)
(* the intervals 0..t are well-founded under strict inclusion.             *)

\* Every non-empty set of numbers has a least member.
LEMMA LeastOf ==
    ASSUME NEW T, T \subseteq Nat, T # {}
    PROVE  \E x \in T : \A y \in T : x <= y
<1> DEFINE R == StrictSubsetOrdering(Nat)
           S == FiniteSubsetsOf(Nat)
           D == {0..t : t \in T}
<1>1. IsWellFoundedOn(R, S)
  BY FS_StrictSubsetOrderingWellFounded
<1>2. D \subseteq S
  <2> SUFFICES ASSUME NEW d \in D PROVE d \in S
    OBVIOUS
  <2>1. PICK t \in T : d = 0..t
    OBVIOUS
  <2>2. 0 \in Int /\ t \in Int /\ 0..t \subseteq Nat
    OBVIOUS
  <2>3. IsFiniteSet(0..t)
    BY <2>2, FS_Interval
  <2> QED
    BY <2>1, <2>2, <2>3 DEF FiniteSubsetsOf
<1>3. D # {}
  OBVIOUS
<1>4. PICK d \in D : \A e \in D : ~(<<e, d>> \in R)
  <2> HIDE DEF R, S, D
  <2> QED
    BY <1>1, <1>2, <1>3, WFMin
<1>5. PICK x \in T : d = 0..x
  OBVIOUS
<1>6. ASSUME NEW y \in T PROVE x <= y
  <2>1. x \in Nat /\ y \in Nat
    OBVIOUS
  <2>2. SUFFICES ASSUME y < x PROVE FALSE
    BY <2>1
  <2>3. 0..y \subseteq 0..x /\ x \in 0..x /\ x \notin 0..y
    BY <2>1, <2>2
  <2>4. 0..y # 0..x
    BY <2>3
  <2>5. 0..y \subseteq Nat /\ 0..x \subseteq Nat
    BY <2>1
  <2>6. <<0..y, 0..x>> \in R
    BY <2>3, <2>4, <2>5 DEF StrictSubsetOrdering
  <2>7. 0..y \in D
    OBVIOUS
  <2> QED
    BY <2>6, <2>7, <1>4, <1>5
<1> QED
  BY <1>6

\* A bounded set of numbers has a greatest member.
LEMMA GreatestOf ==
    ASSUME NEW n \in Nat, NEW T, T \subseteq 0..n, T # {}
    PROVE  \E x \in T : \A y \in T : y <= x
<1> DEFINE D == {n - t : t \in T}
<1>1. D \subseteq Nat /\ D # {}
  OBVIOUS
<1>2. PICK d \in D : \A e \in D : d <= e
  <2> HIDE DEF D
  <2> QED
    BY <1>1, LeastOf
<1>3. PICK x \in T : d = n - x
  OBVIOUS
<1>4. ASSUME NEW y \in T PROVE y <= x
  <2>1. n - y \in D
    OBVIOUS
  <2>2. n - x <= n - y
    BY <2>1, <1>2, <1>3
  <2>3. x \in Int /\ y \in Int
    OBVIOUS
  <2> QED
    BY <2>2, <2>3
<1> QED
  BY <1>4

-------------------------------------------------------------------------------
\* Where the operations of the log are numbered.
LEMMA OpsAreNumbers ==
    Ops \subseteq Nat /\ Ops \subseteq 0..MaxOp /\ MaxOp \in Nat /\ 0 \notin Ops
BY DeviceSyncAssumption DEF Ops

\* The invariant holds to begin with.
LEMMA InitIInv == Init => IInv
<1> SUFFICES ASSUME Init PROVE IInv
  OBVIOUS
<1>1. TypeOK
  <2>1. 0 \in 0..MaxOp /\ 0 \in 0..MaxFaults /\ 0 \in 0..MaxKills
    BY DeviceSyncAssumption
  <2>2. Free \in Pushes
    BY <2>1 DEF Free, PushOf, Pushes
  <2>3. request \in [Requests -> Pushes]
    BY <2>2 DEF Init
  <2>4. "absent" \in Statuses /\ "idle" \in Phases
    BY DEF Statuses, Phases
  <2> QED
    BY <2>1, <2>3, <2>4 DEF Init, TypeOK
<1>2. DeviceInv
  BY DEF Init, DeviceInv, RowsHaveKinds, BatchIsWritten, OneSubmission, OnlyReports,
         SendableUnsent, RepeatedOnlyAfterLoss, SyncedIsStored, Written
<1>3. ServerInv
  BY DEF Init, ServerInv, InFlight, Covered, AnswerIsTrue, StoredOnce, AppliedWithoutGaps,
         Free, PushOf
<1> QED
  BY <1>1, <1>2, <1>3 DEF IInv

\* What the device does leaves the server's half alone, as long as the rows
\* written keep their kinds and the requests in flight go on or vanish.
LEMMA ServerFrame ==
    ASSUME IInv, UNCHANGED <<lastApplied, stored>>,
           \A s \in Ops : Written(s) => kind'[s] = kind[s],
           request' \in [Requests -> Pushes],
           \A r \in Requests : request'[r] \in {request[r], Free},
           reply' \in {reply, None}
    PROVE  ServerInv'
<1> USE DEF IInv, ServerInv
<1>1. \A s \in Ops : Pushable(s) => Pushable(s)'
  BY DEF Pushable, Written
<1>2. \A s \in Ops : Settled(s) => Settled(s)'
  BY DEF Settled, Written, TypeOK
<1>3. InFlight'
  <2> SUFFICES ASSUME NEW r \in Requests
               PROVE  /\ \A s \in request'[r].ops : Pushable(s)'
                      /\ \A s \in request'[r].seen : stored'[s] > 0
                      /\ \A t \in 1..request'[r].from : Settled(t)'
    BY DEF InFlight
  <2>1. CASE request'[r] = Free
    BY <2>1 DEF Free, PushOf
  <2>2. CASE request'[r] = request[r]
    <3>1. request[r].ops \subseteq Ops /\ request[r].from \in 0..MaxOp
      BY DEF TypeOK, Pushes
    <3>2. 1..request[r].from \subseteq Ops
      BY <3>1, OpsAreNumbers DEF Ops
    <3> QED
      BY <1>1, <1>2, <2>2, <3>1, <3>2 DEF InFlight
  <2> QED
    BY <2>1, <2>2
<1>4. Covered'
  <2>1. 1..lastApplied \subseteq Ops
    BY OpsAreNumbers DEF TypeOK, Ops
  <2> QED
    BY <1>2, <2>1 DEF Covered
<1>5. AnswerIsTrue'
  <2>1. reply # None => reply.ok \cup reply.refused \subseteq Ops
    BY DEF TypeOK, Replies
  <2> QED
    BY <1>1, <2>1 DEF AnswerIsTrue
<1>6. StoredOnce'
  BY DEF StoredOnce
<1>7. AppliedWithoutGaps'
  <2>1. \A s \in Ops : 1..(s - 1) \subseteq Ops
    BY OpsAreNumbers DEF Ops
  <2>2. \A t \in Ops : (stored[t] > 0 \/ kind[t] = "unlisted")
                           => (stored'[t] > 0 \/ kind'[t] = "unlisted")
    BY <1>2 DEF Settled
  <2> QED
    BY <2>1, <2>2 DEF AppliedWithoutGaps
<1> QED
  BY <1>3, <1>4, <1>5, <1>6, <1>7

\* What the server does leaves the device's half alone.
LEMMA DeviceFrame ==
    ASSUME IInv, UNCHANGED <<log, run, reports, bounds>>,
           \A s \in Ops : stored[s] > 0 => stored'[s] > 0
    PROVE  DeviceInv'
<1> USE DEF IInv, DeviceInv, log, run, bounds
<1>1. RowsHaveKinds' /\ BatchIsWritten' /\ OneSubmission' /\ OnlyReports'
  BY DEF RowsHaveKinds, BatchIsWritten, OneSubmission, OnlyReports, Written
<1>2. SendableUnsent' /\ RepeatedOnlyAfterLoss'
  BY DEF SendableUnsent, RepeatedOnlyAfterLoss
<1>3. SyncedIsStored'
  BY DEF SyncedIsStored
<1> QED
  BY <1>1, <1>2, <1>3

-------------------------------------------------------------------------------
(* The device's steps.                                                     *)

\* The action Append preserves the invariant.
LEMMA AppendStep ==
    ASSUME IInv, NEW s \in Ops, NEW k \in Kinds, Append(s, k)
    PROVE  IInv'
<1> USE DEF IInv, DeviceInv, log, run, server, bounds
<1>1. k # "none" /\ kind[s] = "none"
  BY DeviceSyncAssumption DEF Append, RowsHaveKinds
<1>2. /\ kind' = [kind EXCEPT ![s] = k]
      /\ status' = [status EXCEPT ![s] = "pending"]
      /\ UNCHANGED <<cursor, run, request, reply, server, bounds>>
  BY DEF Append
<1>3. TypeOK'
  BY <1>2 DEF TypeOK, Statuses
<1>4. s \notin batch /\ s # single
  BY <1>1, OpsAreNumbers DEF BatchIsWritten, OneSubmission, Written
<1>5. RowsHaveKinds' /\ BatchIsWritten'
  BY <1>1, <1>2 DEF RowsHaveKinds, BatchIsWritten, Written, TypeOK
<1>6. OneSubmission'
  BY <1>2, <1>4 DEF OneSubmission, TypeOK
<1>7. reports[s] = 0
  BY <1>1 DEF OnlyReports
<1>8. OnlyReports' /\ SendableUnsent' /\ RepeatedOnlyAfterLoss'
  BY <1>2, <1>7 DEF OnlyReports, SendableUnsent, RepeatedOnlyAfterLoss, TypeOK
<1>9. SyncedIsStored'
  BY <1>2 DEF SyncedIsStored, TypeOK
<1>10. ServerInv'
  <2>1. \A t \in Ops : Written(t) => kind'[t] = kind[t]
    BY <1>1, <1>2 DEF Written, TypeOK
  <2>2. request' \in [Requests -> Pushes]
    BY <1>2 DEF TypeOK
  <2> QED
    BY <1>2, <2>1, <2>2, ServerFrame
<1> QED
  BY <1>3, <1>5, <1>6, <1>8, <1>9, <1>10

\* A step of the run that writes no row and no kind.
LEMMA RunFrame ==
    ASSUME IInv, UNCHANGED <<kind, request, server, bounds>>, reply' \in {reply, None}
    PROVE  ServerInv'
<1> USE DEF IInv, server
<1>1. request' \in [Requests -> Pushes]
  BY DEF TypeOK
<1> QED
  BY <1>1, ServerFrame

\* The action Start preserves the invariant.
LEMMA StartStep ==
    ASSUME IInv, Start
    PROVE  IInv'
<1> USE DEF IInv, DeviceInv, log, server, bounds
<1>1. /\ phase = "idle" /\ phase' = "claim" /\ cur' = cursor
      /\ UNCHANGED <<log, batch, call, single, request, reply, server, bounds>>
  BY DEF Start
<1>2. TypeOK'
  BY <1>1 DEF TypeOK, Phases
<1>3. DeviceInv'
  BY <1>1 DEF RowsHaveKinds, BatchIsWritten, OneSubmission, OnlyReports, SendableUnsent,
              RepeatedOnlyAfterLoss, SyncedIsStored, Written
<1>4. ServerInv'
  BY <1>1, RunFrame
<1> QED
  BY <1>2, <1>3, <1>4

\* The action Claim preserves the invariant.
LEMMA ClaimStep ==
    ASSUME IInv, Claim
    PROVE  IInv'
<1> USE DEF IInv, DeviceInv, server, bounds
<1>1. /\ phase = "claim" /\ phase' \in {"record", "singles", "push"}
      /\ batch' = PlanBatch
      /\ status' = [s \in Ops |-> IF s \in PlanBatch THEN "syncing" ELSE status[s]]
      /\ UNCHANGED <<kind, cursor, cur, call, single, request, reply, server, bounds>>
  BY DEF Claim, Marked
<1>2. PlanBatch \subseteq Ops /\ \A s \in PlanBatch : status[s] = "pending"
  BY DEF PlanBatch, Candidates, Sendable
<1>3. TypeOK'
  BY <1>1, <1>2 DEF TypeOK, Statuses, Phases
<1>4. RowsHaveKinds' /\ BatchIsWritten'
  BY <1>1, <1>2 DEF RowsHaveKinds, BatchIsWritten, Written
<1>5. single = 0 /\ single' = 0
  BY <1>1 DEF OneSubmission
<1>6. OneSubmission'
  BY <1>1, <1>5 DEF OneSubmission
<1>7. SendableUnsent'
  <2> SUFFICES ASSUME NEW s \in Ops,
                      status'[s] = "pending" \/ (status'[s] = "syncing" /\ s \in batch')
               PROVE  reports[s] <= lost[s]
    BY <1>1 DEF SendableUnsent
  <2>1. status[s] = "pending"
    BY <1>1, <1>2
  <2> QED
    BY <2>1 DEF SendableUnsent
<1>8. OnlyReports' /\ RepeatedOnlyAfterLoss'
  BY <1>1 DEF OnlyReports, RepeatedOnlyAfterLoss
<1>9. SyncedIsStored'
  BY <1>1 DEF SyncedIsStored
<1>10. ServerInv'
  BY <1>1, RunFrame
<1> QED
  BY <1>3, <1>4, <1>6, <1>7, <1>8, <1>9, <1>10

\* The action Receive preserves the invariant.
LEMMA ReceiveStep ==
    ASSUME IInv, Receive
    PROVE  IInv'
<1> USE DEF IInv, DeviceInv, server, bounds
<1>1. /\ phase = "wait" /\ phase' = "singles"
      /\ reply # None /\ reply' = None
      /\ cur' = reply.cursor /\ call' = None
      /\ status' = Answered
      /\ UNCHANGED <<kind, cursor, batch, single, request, server, bounds>>
  BY DEF Receive
<1>2. reply \in Replies
  BY <1>1 DEF TypeOK
<1>3. TypeOK'
  BY <1>1, <1>2 DEF TypeOK, Answered, Statuses, Phases, Replies
<1>4. single = 0
  BY <1>1 DEF OneSubmission
<1>5. \A s \in reply.ok \cup reply.refused \cup Assessments(batch) : Pushable(s)
  BY <1>1 DEF ServerInv, AnswerIsTrue, Assessments, BatchIsWritten, Pushable, Written
<1>6. RowsHaveKinds' /\ BatchIsWritten' /\ OneSubmission'
  BY <1>1, <1>4, <1>5
  DEF Answered, RowsHaveKinds, BatchIsWritten, OneSubmission, Written, Pushable
<1>7. \A s \in Ops : Pushable(s) => reports[s] <= lost[s]
  BY DEF Pushable, OnlyReports, TypeOK
<1>8. OnlyReports' /\ RepeatedOnlyAfterLoss'
  BY <1>1 DEF OnlyReports, RepeatedOnlyAfterLoss
<1>9. SendableUnsent'
  BY <1>1, <1>4, <1>5, <1>7 DEF SendableUnsent, Answered
<1>10. SyncedIsStored'
  BY <1>1, <1>5 DEF SyncedIsStored, Answered, ServerInv, AnswerIsTrue, Pushable
<1>11. ServerInv'
  BY <1>1, RunFrame
<1> QED
  BY <1>3, <1>6, <1>8, <1>9, <1>10, <1>11

\* The action Push preserves the invariant.
LEMMA PushStep ==
    ASSUME IInv, NEW r \in Requests, Push(r)
    PROVE  IInv'
<1> USE DEF IInv, DeviceInv, log, server, bounds
<1> DEFINE p == PushOf("sent", Assessments(batch))
<1>1. /\ phase = "push" /\ phase' = "wait" /\ call' = r
      /\ request' = [request EXCEPT ![r] = p]
      /\ UNCHANGED <<log, batch, cur, single, reply, server, bounds>>
  BY DEF Push
<1>2. p.ops = Assessments(batch) /\ p.seen = {} /\ p.from = 0
  BY DEF PushOf
<1>3. p \in Pushes
  <2>2. Assessments(batch) \subseteq Ops
    BY DEF Assessments, TypeOK
  <2>3. 0 \in 0..MaxOp
    BY OpsAreNumbers
  <2> QED
    BY <2>2, <2>3 DEF PushOf, Pushes
<1>4. TypeOK'
  BY <1>1, <1>3 DEF TypeOK, Phases
<1>5. DeviceInv'
  BY <1>1 DEF RowsHaveKinds, BatchIsWritten, OneSubmission, OnlyReports, SendableUnsent,
              RepeatedOnlyAfterLoss, SyncedIsStored, Written
<1>6. InFlight'
  <2>1. \A s \in p.ops : Pushable(s)
    BY <1>2 DEF Assessments, BatchIsWritten, Pushable, Written
  <2>2. \A q \in Requests : request'[q] = IF q = r THEN p ELSE request[q]
    BY <1>1 DEF TypeOK
  <2>3. \A t : Settled(t)' <=> Settled(t)
    BY <1>1 DEF Settled
  <2>4. \A s : Pushable(s)' <=> Pushable(s)
    BY <1>1 DEF Pushable
  <2> HIDE DEF p
  <2> QED
    BY <1>1, <1>2, <2>1, <2>2, <2>3, <2>4 DEF ServerInv, InFlight
<1>7. Covered' /\ AnswerIsTrue' /\ StoredOnce' /\ AppliedWithoutGaps'
  BY <1>1 DEF ServerInv, Covered, AnswerIsTrue, StoredOnce, AppliedWithoutGaps, Settled,
              Pushable
<1> QED
  BY <1>4, <1>5, <1>6, <1>7 DEF ServerInv

\* The action Submit preserves the invariant.
LEMMA SubmitStep ==
    ASSUME IInv, NEW s \in Ops, Submit(s)
    PROVE  IInv'
<1> USE DEF IInv, DeviceInv, log, bounds
<1>1. /\ phase = "singles" /\ phase' = "answer"
      /\ s \in batch /\ kind[s] = "report" /\ status[s] = "syncing"
      /\ reports' = [reports EXCEPT ![s] = @ + 1]
      /\ single' = s
      /\ UNCHANGED <<log, batch, cur, call, request, reply, known, lastApplied, stored, bounds>>
  BY DEF Submit, Singles
<1>2. TypeOK'
  BY <1>1, OpsAreNumbers DEF TypeOK, Phases
<1>3. single = 0 /\ s # 0
  BY <1>1, OpsAreNumbers DEF OneSubmission
<1>4. reports[s] <= lost[s]
  BY <1>1, <1>3 DEF SendableUnsent
<1>5. \A t \in Ops : reports'[t] = IF t = s THEN reports[t] + 1 ELSE reports[t]
  BY <1>1 DEF TypeOK
<1>6. reports \in [Ops -> Nat] /\ lost \in [Ops -> Nat]
  BY DEF TypeOK
<1>7. RowsHaveKinds' /\ BatchIsWritten'
  BY <1>1 DEF RowsHaveKinds, BatchIsWritten, Written
<1>8. OneSubmission'
  BY <1>1, <1>3, <1>5, <1>6 DEF OneSubmission
<1>9. OnlyReports'
  BY <1>1, <1>5 DEF OnlyReports
<1>10. SendableUnsent'
  BY <1>1, <1>3, <1>5, OpsAreNumbers DEF SendableUnsent
<1>11. RepeatedOnlyAfterLoss'
  BY <1>1, <1>4, <1>5, <1>6 DEF RepeatedOnlyAfterLoss
<1>12. SyncedIsStored'
  BY <1>1, <1>5, <1>6 DEF SyncedIsStored
<1>13. ServerInv'
  <2>1. request' \in [Requests -> Pushes]
    BY <1>1 DEF TypeOK
  <2> QED
    BY <1>1, <2>1, ServerFrame
<1> QED
  BY <1>2, <1>7, <1>8, <1>9, <1>10, <1>11, <1>12, <1>13

\* The action Submitted preserves the invariant.
LEMMA SubmittedStep ==
    ASSUME IInv, Submitted
    PROVE  IInv'
<1> USE DEF IInv, DeviceInv, server, bounds
<1>1. /\ phase = "answer" /\ phase' = "singles"
      /\ status' = [s \in Ops |-> IF s \in {single} THEN "synced" ELSE status[s]]
      /\ single' = 0
      /\ UNCHANGED <<kind, cursor, batch, cur, call, request, reply, server, bounds>>
  BY DEF Submitted, Marked
<1>2. single # 0 /\ single \in batch /\ kind[single] = "report" /\ reports[single] > 0
  BY <1>1 DEF OneSubmission
<1>3. TypeOK'
  BY <1>1, OpsAreNumbers DEF TypeOK, Statuses, Phases
<1>4. RowsHaveKinds' /\ BatchIsWritten'
  BY <1>1, <1>2 DEF RowsHaveKinds, BatchIsWritten, Written
<1>5. OneSubmission'
  BY <1>1 DEF OneSubmission
<1>6. OnlyReports' /\ RepeatedOnlyAfterLoss'
  BY <1>1 DEF OnlyReports, RepeatedOnlyAfterLoss
<1>7. SendableUnsent'
  BY <1>1 DEF SendableUnsent
<1>8. SyncedIsStored'
  BY <1>1, <1>2 DEF SyncedIsStored
<1>9. ServerInv'
  BY <1>1, RunFrame
<1> QED
  BY <1>3, <1>4, <1>5, <1>6, <1>7, <1>8, <1>9

\* The action RefuseReport preserves the invariant.
LEMMA RefuseReportStep ==
    ASSUME IInv, NEW s \in Ops, RefuseReport(s)
    PROVE  IInv'
<1> USE DEF IInv, DeviceInv, run, server, bounds
<1>1. /\ phase = "singles"
      /\ s \in batch /\ kind[s] = "report"
      /\ status' = [t \in Ops |-> IF t \in {s} THEN "conflict" ELSE status[t]]
      /\ UNCHANGED <<kind, cursor, run, request, reply, server, bounds>>
  BY DEF RefuseReport, Marked, Singles
<1>2. TypeOK'
  BY <1>1 DEF TypeOK, Statuses
<1>3. single = 0
  BY <1>1 DEF OneSubmission
<1>4. RowsHaveKinds' /\ BatchIsWritten'
  BY <1>1 DEF RowsHaveKinds, BatchIsWritten, Written
<1>5. OneSubmission'
  BY <1>1, <1>3 DEF OneSubmission
<1>6. OnlyReports' /\ RepeatedOnlyAfterLoss'
  BY <1>1 DEF OnlyReports, RepeatedOnlyAfterLoss
<1>7. SendableUnsent'
  BY <1>1 DEF SendableUnsent
<1>8. SyncedIsStored'
  BY <1>1 DEF SyncedIsStored
<1>9. ServerInv'
  BY <1>1, RunFrame
<1> QED
  BY <1>2, <1>4, <1>5, <1>6, <1>7, <1>8, <1>9

\* The action EndBatch preserves the invariant.
LEMMA EndBatchStep ==
    ASSUME IInv, EndBatch
    PROVE  IInv'
<1> USE DEF IInv, DeviceInv, log, server, bounds
<1>1. /\ phase = "singles" /\ phase' \in {"record", "claim"} /\ batch' = {}
      /\ UNCHANGED <<log, cur, call, single, request, reply, server, bounds>>
  BY DEF EndBatch
<1>2. TypeOK'
  BY <1>1 DEF TypeOK, Phases
<1>3. single = 0
  BY <1>1 DEF OneSubmission
<1>4. DeviceInv'
  BY <1>1, <1>3 DEF RowsHaveKinds, BatchIsWritten, OneSubmission, OnlyReports,
                    SendableUnsent, RepeatedOnlyAfterLoss, SyncedIsStored, Written
<1>5. ServerInv'
  BY <1>1, RunFrame
<1> QED
  BY <1>2, <1>4, <1>5

\* The action Record preserves the invariant.
LEMMA RecordStep ==
    ASSUME IInv, Record
    PROVE  IInv'
<1> USE DEF IInv, DeviceInv, server, bounds
<1>1. /\ phase' = "idle" /\ batch' = {} /\ cur' = 0 /\ call' = None /\ single' = 0
      /\ reply' = None /\ cursor' = cur
      /\ UNCHANGED <<kind, status, request, server, bounds>>
  BY DEF Record, Forget
<1>2. TypeOK'
  BY <1>1, OpsAreNumbers DEF TypeOK, Phases
<1>3. DeviceInv'
  BY <1>1 DEF RowsHaveKinds, BatchIsWritten, OneSubmission, OnlyReports, SendableUnsent,
              RepeatedOnlyAfterLoss, SyncedIsStored, Written
<1>4. ServerInv'
  BY <1>1, RunFrame
<1> QED
  BY <1>2, <1>3, <1>4

\* Giving a push up leaves it in flight or out of the way.
LEMMA AbandonType ==
    ASSUME IInv, Abandon
    PROVE  /\ request' \in [Requests -> Pushes]
           /\ \A r \in Requests : request'[r] \in {request[r], Free}
<1>1. Free \in Pushes
  BY OpsAreNumbers DEF Free, PushOf, Pushes
<1>2. request \in [Requests -> Pushes]
  BY DEF IInv, TypeOK
<1>3. CASE request' = request
  BY <1>2, <1>3
<1>4. ASSUME NEW q \in Requests, request' = [request EXCEPT ![q] = Free]
      PROVE  /\ request' \in [Requests -> Pushes]
             /\ \A r \in Requests : request'[r] \in {request[r], Free}
  BY <1>1, <1>2, <1>4
<1> QED
  BY <1>3, <1>4 DEF Abandon

\* The action GiveUp preserves the invariant.
LEMMA GiveUpStep ==
    ASSUME IInv, GiveUp
    PROVE  IInv'
<1> USE DEF IInv, DeviceInv, server
<1>1. /\ phase' = "idle" /\ batch' = {} /\ cur' = 0 /\ call' = None /\ single' = 0
      /\ reply' = None
      /\ faults' \in 0..MaxFaults
      /\ lost' = [s \in Ops |-> IF s = single THEN lost[s] + 1 ELSE lost[s]]
      /\ UNCHANGED <<kind, cursor, known, lastApplied, stored, reports, kills>>
  BY DeviceSyncAssumption DEF GiveUp, Forget, TypeOK
<1>2. status' = [s \in Ops |-> IF s \in batch /\ status[s] = "syncing" THEN "pending"
                                                                   ELSE status[s]]
  BY DEF GiveUp, Released, Marked, TypeOK
<1>3. /\ request' \in [Requests -> Pushes]
      /\ \A r \in Requests : request'[r] \in {request[r], Free}
  BY AbandonType DEF GiveUp
<1>4. TypeOK'
  BY <1>1, <1>2, <1>3, OpsAreNumbers DEF TypeOK, Statuses, Phases
<1>5. RowsHaveKinds' /\ BatchIsWritten'
  BY <1>1, <1>2 DEF RowsHaveKinds, BatchIsWritten
<1>6. OneSubmission' /\ OnlyReports'
  BY <1>1 DEF OneSubmission, OnlyReports
<1>7. lost \in [Ops -> Nat] /\ reports \in [Ops -> Nat]
  BY DEF TypeOK
<1>8. RepeatedOnlyAfterLoss'
  BY <1>1, <1>7 DEF RepeatedOnlyAfterLoss
<1>9. SendableUnsent'
  BY <1>1, <1>2, <1>7 DEF SendableUnsent, RepeatedOnlyAfterLoss
<1>10. SyncedIsStored'
  BY <1>1, <1>2 DEF SyncedIsStored
<1>11. ServerInv'
  BY <1>1, <1>3, ServerFrame
<1> QED
  BY <1>4, <1>5, <1>6, <1>8, <1>9, <1>10, <1>11

\* The action Kill preserves the invariant.
LEMMA KillStep ==
    ASSUME IInv, Kill
    PROVE  IInv'
<1> USE DEF IInv, DeviceInv, log, server
<1>1. /\ phase' = "idle" /\ batch' = {} /\ cur' = 0 /\ call' = None /\ single' = 0
      /\ reply' = None
      /\ kills' \in 0..MaxKills
      /\ UNCHANGED <<log, known, lastApplied, stored, reports, lost, faults>>
  BY DeviceSyncAssumption DEF Kill, Forget, TypeOK
<1>2. /\ request' \in [Requests -> Pushes]
      /\ \A r \in Requests : request'[r] \in {request[r], Free}
  BY AbandonType DEF Kill
<1>3. TypeOK'
  BY <1>1, <1>2, OpsAreNumbers DEF TypeOK, Phases
<1>4. DeviceInv'
  BY <1>1 DEF RowsHaveKinds, BatchIsWritten, OneSubmission, OnlyReports, SendableUnsent,
              RepeatedOnlyAfterLoss, SyncedIsStored, Written
<1>5. ServerInv'
  BY <1>1, <1>2, ServerFrame
<1> QED
  BY <1>3, <1>4, <1>5

-------------------------------------------------------------------------------
(* The server's steps.                                                     *)

\* A transaction that has read something true.
LEMMA ReadFrame ==
    ASSUME IInv, NEW r \in Requests, NEW q \in Pushes,
           request' = [request EXCEPT ![r] = q],
           UNCHANGED <<log, run, reply, server, bounds>>,
           \A s \in q.ops : Pushable(s),
           \A s \in q.seen : stored[s] > 0,
           \A t \in 1..q.from : Settled(t)
    PROVE  IInv'
<1> USE DEF IInv, log, run, server, bounds
<1>1. TypeOK'
  BY DEF TypeOK
<1>2. DeviceInv'
  BY DeviceFrame
<1>3. InFlight'
  <2>1. \A p \in Requests : request'[p] = IF p = r THEN q ELSE request[p]
    BY DEF TypeOK
  <2>2. \A t : Settled(t)' <=> Settled(t)
    BY DEF Settled
  <2>3. \A s : Pushable(s)' <=> Pushable(s)
    BY DEF Pushable
  <2> QED
    BY <2>1, <2>2, <2>3 DEF ServerInv, InFlight
<1>4. Covered' /\ AnswerIsTrue' /\ StoredOnce' /\ AppliedWithoutGaps'
  BY DEF ServerInv, Covered, AnswerIsTrue, StoredOnce, AppliedWithoutGaps, Settled, Pushable
<1> QED
  BY <1>1, <1>2, <1>3, <1>4 DEF ServerInv

\* The action LockCursor preserves the invariant.
LEMMA LockCursorStep ==
    ASSUME IInv, NEW r \in Requests, LockCursor(r)
    PROVE  IInv'
<1> DEFINE q == [request[r] EXCEPT !.state = "locked", !.from = lastApplied, !.locks = known]
<1>1. /\ request' = [request EXCEPT ![r] = q]
      /\ UNCHANGED <<log, run, reply, server, bounds>>
  BY DEF LockCursor, IInv, TypeOK
<1>2. q \in Pushes /\ q.ops = request[r].ops /\ q.seen = request[r].seen
      /\ q.from = lastApplied
  BY DEF IInv, TypeOK, Pushes
<1>3. /\ \A s \in q.ops : Pushable(s)
      /\ \A s \in q.seen : stored[s] > 0
      /\ \A t \in 1..q.from : Settled(t)
  BY <1>2 DEF IInv, ServerInv, InFlight, Covered
<1> HIDE DEF q
<1> QED
  BY <1>1, <1>2, <1>3, ReadFrame

\* The action ReadStored preserves the invariant.
LEMMA ReadStoredStep ==
    ASSUME IInv, NEW r \in Requests, ReadStored(r)
    PROVE  IInv'
<1> DEFINE q == [request[r] EXCEPT !.state = "planned", !.seen = OnRecord(request[r].ops)]
<1>1. /\ request' = [request EXCEPT ![r] = q]
      /\ UNCHANGED <<log, run, reply, server, bounds>>
  BY DEF ReadStored, IInv, TypeOK
<1>2. request[r] \in Pushes /\ OnRecord(request[r].ops) \in SUBSET Ops
  BY DEF IInv, TypeOK, OnRecord, Pushes
<1>3. q \in Pushes /\ q.ops = request[r].ops /\ q.seen = OnRecord(request[r].ops)
      /\ q.from = request[r].from
  BY <1>2 DEF Pushes
<1>4. /\ \A s \in q.ops : Pushable(s)
      /\ \A s \in q.seen : stored[s] > 0
      /\ \A t \in 1..q.from : Settled(t)
  BY <1>3 DEF IInv, ServerInv, InFlight, OnRecord
<1> HIDE DEF q
<1> QED
  BY <1>1, <1>3, <1>4, ReadFrame

\* The action CutOff preserves the invariant.
LEMMA CutOffStep ==
    ASSUME IInv, NEW r \in Requests, CutOff(r)
    PROVE  IInv'
<1>1. /\ request' = [request EXCEPT ![r] = Free]
      /\ UNCHANGED <<log, run, reply, server, bounds>>
  BY DEF CutOff
<1>2. Free \in Pushes /\ Free.ops = {} /\ Free.seen = {} /\ Free.from = 0
  BY OpsAreNumbers DEF Free, PushOf, Pushes
<1>3. /\ \A s \in Free.ops : Pushable(s)
      /\ \A s \in Free.seen : stored[s] > 0
      /\ \A t \in 1..Free.from : Settled(t)
  BY <1>2
<1> QED
  BY <1>1, <1>2, <1>3, ReadFrame

\* What the plan lets through has everything below it settled once the inserts
\* are done.
LEMMA OkIsSettled ==
    ASSUME IInv, NEW r \in Requests,
           NEW s \in Ok(request[r]), NEW t \in 1..(s - 1),
           \A u \in Ok(request[r]) : stored'[u] > 0,
           \A u \in Ops : stored[u] > 0 => stored'[u] > 0,
           UNCHANGED kind
    PROVE  Settled(t)'
<1> DEFINE q == request[r]
           Between == {u \in q.ops : t < u /\ u <= s}
<1> USE DEF IInv, ServerInv
<1>1. q \in Pushes /\ q.ops \subseteq Ops /\ q.seen \subseteq Ops /\ q.from \in 0..MaxOp
  BY DEF TypeOK, Pushes
<1>2. s \in q.ops /\ s \notin Blocked(q) /\ s \in Nat /\ t \in Nat /\ t < s /\ t \in Ops
  BY <1>1, OpsAreNumbers DEF Ok, Ops
<1>3. SUFFICES ASSUME ~Settled(t) PROVE Settled(t)'
  BY <1>2 DEF Settled
<1>4. t > q.from
  BY <1>1, <1>2, <1>3 DEF InFlight, Ops
<1>5. PICK u \in Between : \A v \in Between : u <= v
  <2>1. q.ops \subseteq Nat
    BY <1>1, OpsAreNumbers
  <2>2. Between \subseteq Nat
    BY <2>1
  <2>3. s \in Between
    BY <1>2
  <2> HIDE DEF Between
  <2> QED
    BY <2>2, <2>3, LeastOf
<1>6. u \in q.ops /\ t < u /\ u <= s /\ u \in Nat /\ u \in Ops
  BY <1>1, <1>5, OpsAreNumbers
<1>7. ~Gap(q, u)
  BY <1>2, <1>6 DEF Blocked
<1>8. u \notin q.seen
  <2> SUFFICES ASSUME u \in q.seen PROVE FALSE
    OBVIOUS
  <2>1. stored[u] > 0
    BY DEF InFlight
  <2>2. t \in 1..(u - 1)
    BY <1>2, <1>6 DEF Ops
  <2> QED
    BY <2>1, <2>2, <1>3, <1>6 DEF AppliedWithoutGaps, Settled
<1>9. u - 1 \in q.ops
  BY <1>1, <1>2, <1>4, <1>6, <1>7, <1>8 DEF Gap
<1>10. u - 1 = t
  <2> SUFFICES ASSUME t < u - 1 PROVE FALSE
    BY <1>2, <1>6
  <2>1. u - 1 \in Between
    BY <1>2, <1>6, <1>9
  <2>2. u <= u - 1
    BY <1>5, <2>1
  <2> QED
    BY <2>2, <1>6
<1>11. t \in q.ops /\ t \notin Blocked(q)
  <2>1. t \in q.ops
    BY <1>9, <1>10
  <2>2. ASSUME NEW v \in q.ops, v <= t PROVE ~Gap(q, v)
    <3>1. v \in Nat
      BY <1>1, OpsAreNumbers
    <3>2. v <= s
      BY <3>1, <1>2, <2>2
    <3> QED
      BY <1>2, <3>2 DEF Blocked
  <2> QED
    BY <2>1, <2>2 DEF Blocked
<1>12. CASE t \in Ok(q)
  BY <1>2, <1>12 DEF Settled
<1>13. CASE t \in Refused(q)
  <2>1. t <= q.from \/ kind[t] = "unlisted"
    BY <1>13 DEF Refused
  <2> QED
    BY <2>1, <1>1, <1>2, <1>4 DEF Settled
<1> QED
  BY <1>11, <1>12, <1>13 DEF Ok

\* The cursor a push commits is the old one or that of a row it applied.
LEMMA FurthestType ==
    ASSUME IInv, NEW q \in Pushes
    PROVE  /\ Furthest(q) \in {lastApplied} \cup Ok(q)
           /\ Furthest(q) \in 0..MaxOp
           /\ \A m \in {lastApplied} \cup Ok(q) : m <= Furthest(q)
<1> DEFINE T == {lastApplied} \cup Ok(q)
<1>1. T \subseteq 0..MaxOp /\ T # {}
  BY OpsAreNumbers DEF Ok, Pushes, IInv, TypeOK
<1>2. \E n \in T : \A m \in T : m <= n
  <2> HIDE DEF T
  <2> QED
    BY <1>1, GreatestOf, OpsAreNumbers
<1>3. Furthest(q) = CHOOSE n \in T : \A m \in T : m <= n
  BY DEF Furthest, Moves
<1>4. Furthest(q) \in T /\ \A m \in T : m <= Furthest(q)
  <2> HIDE DEF T
  <2> QED
    BY <1>2, <1>3
<1> QED
  BY <1>1, <1>4

\* The action Commit preserves the invariant.
LEMMA CommitStep ==
    ASSUME IInv, NEW r \in Requests, Commit(r)
    PROVE  IInv'
<1> USE DEF IInv, log, run, bounds
<1> DEFINE q == request[r]
<1>1. /\ stored' = [s \in Ops |-> IF s \in Inserts(q) THEN stored[s] + 1 ELSE stored[s]]
      /\ lastApplied' = Furthest(q)
      /\ known' = TRUE
      /\ reply' = (IF call = r THEN Answer(q) ELSE reply)
      /\ request' = [request EXCEPT ![r] = Free]
      /\ UNCHANGED <<log, run, reports, bounds>>
  BY DEF Commit
<1>2. /\ q \in Pushes /\ q.ops \subseteq Ops
      /\ request \in [Requests -> Pushes] /\ stored \in [Ops -> Nat]
  BY DEF TypeOK, Pushes
<1>3. Ok(q) \subseteq q.ops /\ Refused(q) \subseteq q.ops
  BY DEF Ok, Refused
<1>4. Furthest(q) \in {lastApplied} \cup Ok(q) /\ Furthest(q) \in 0..MaxOp
  BY <1>2, FurthestType
<1>5. \A s \in Ok(q) : stored'[s] > 0
  BY <1>1, <1>2, <1>3 DEF Inserts
<1>6. \A s \in Ops : stored[s] > 0 => stored'[s] > 0
  BY <1>1, <1>2
<1>7. Free \in Pushes /\ Free.ops = {} /\ Free.seen = {} /\ Free.from = 0
  BY OpsAreNumbers DEF Free, PushOf, Pushes
<1>8. TypeOK'
  <2>1. Answer(q) \in Replies
    BY <1>2, <1>3, <1>4 DEF Answer, Replies
  <2>2. reply' \in Replies \cup {None}
    BY <1>1, <2>1 DEF TypeOK
  <2>3. stored' \in [Ops -> Nat] /\ lastApplied' \in 0..MaxOp /\ known' \in BOOLEAN
    BY <1>1, <1>2, <1>4
  <2>4. request' \in [Requests -> Pushes]
    BY <1>1, <1>2, <1>7
  <2> HIDE DEF q
  <2> QED
    BY <1>1, <2>2, <2>3, <2>4 DEF TypeOK
<1>9. DeviceInv'
  BY <1>1, <1>6, DeviceFrame
<1>10. \A s \in Ops : Settled(s) => Settled(s)'
  BY <1>1, <1>6 DEF Settled
<1>11. \A s : Pushable(s)' <=> Pushable(s)
  BY <1>1 DEF Pushable
<1>12. InFlight'
  <2> SUFFICES ASSUME NEW p \in Requests
               PROVE  /\ \A s \in request'[p].ops : Pushable(s)'
                      /\ \A s \in request'[p].seen : stored'[s] > 0
                      /\ \A t \in 1..request'[p].from : Settled(t)'
    BY DEF InFlight
  <2>1. request'[p] = Free \/ request'[p] = request[p]
    BY <1>1, <1>2
  <2>2. request[p].seen \subseteq Ops /\ 1..request[p].from \subseteq Ops
    BY OpsAreNumbers DEF TypeOK, Pushes, Ops
  <2> QED
    BY <1>6, <1>7, <1>10, <1>11, <2>1, <2>2 DEF ServerInv, InFlight
<1>13. \A s \in Ok(q) : \A t \in 1..(s - 1) : Settled(t)'
  BY <1>1, <1>5, <1>6, OkIsSettled
<1>14. Covered'
  <2> SUFFICES ASSUME NEW t \in 1..lastApplied' PROVE Settled(t)'
    BY DEF Covered
  <2>1. t \in Ops
    BY <1>1, <1>4, OpsAreNumbers DEF Ops
  <2>2. CASE lastApplied' = lastApplied
    BY <1>10, <2>1, <2>2 DEF ServerInv, Covered
  <2>3. CASE lastApplied' \in Ok(q)
    <3>1. t = lastApplied' \/ t \in 1..(lastApplied' - 1)
      BY <1>1, <1>4
    <3> QED
      BY <1>5, <1>13, <2>3, <3>1 DEF Settled
  <2> QED
    BY <1>1, <1>4, <2>2, <2>3
<1>15. AnswerIsTrue'
  <2>1. CASE call = r
    <3>1. reply'.ok = Ok(q) /\ reply'.refused = Refused(q)
      BY <1>1, <2>1 DEF Answer
    <3> QED
      BY <1>3, <1>5, <1>11, <3>1 DEF AnswerIsTrue, ServerInv, InFlight
  <2>2. CASE call # r
    <3>1. reply # None => reply.ok \subseteq Ops
      BY DEF TypeOK, Replies
    <3> QED
      BY <1>1, <1>6, <1>11, <2>2, <3>1 DEF AnswerIsTrue, ServerInv
  <2> QED
    BY <2>1, <2>2
<1>16. StoredOnce'
  BY <1>1, <1>2 DEF ServerInv, StoredOnce, Inserts
<1>17. AppliedWithoutGaps'
  <2> SUFFICES ASSUME NEW s \in Ops, stored'[s] > 0, NEW t \in 1..(s - 1)
               PROVE  Settled(t)'
    BY <1>1 DEF AppliedWithoutGaps, Settled
  <2>1. CASE s \in Ok(q)
    BY <1>13, <2>1
  <2>2. CASE s \notin Ok(q)
    <3>1. stored[s] > 0
      BY <1>1, <2>2 DEF Inserts
    <3>2. t \in Ops
      BY OpsAreNumbers DEF Ops
    <3> QED
      BY <1>10, <3>1, <3>2 DEF ServerInv, AppliedWithoutGaps, Settled
  <2> QED
    BY <2>1, <2>2
<1> QED
  BY <1>8, <1>9, <1>12, <1>14, <1>15, <1>16, <1>17 DEF ServerInv

-------------------------------------------------------------------------------
\* Every step keeps the invariant.
LEMMA NextIInv == IInv /\ [Next]_vars => IInv'
<1> SUFFICES ASSUME IInv, [Next]_vars PROVE IInv'
  OBVIOUS
<1>1. ASSUME NEW s \in Ops, NEW k \in Kinds, Append(s, k) PROVE IInv'
  BY <1>1, AppendStep
<1>2. CASE Start
  BY <1>2, StartStep
<1>3. CASE Claim \/ Receive \/ Submitted \/ EndBatch \/ Record
  BY <1>3, ClaimStep, ReceiveStep, SubmittedStep, EndBatchStep, RecordStep
<1>4. ASSUME NEW r \in Requests, Push(r) PROVE IInv'
  BY <1>4, PushStep
<1>5. ASSUME NEW s \in Ops, Submit(s) \/ RefuseReport(s) PROVE IInv'
  BY <1>5, SubmitStep, RefuseReportStep
<1>6. CASE GiveUp \/ Kill
  BY <1>6, GiveUpStep, KillStep
<1>7. ASSUME NEW r \in Requests, Serve(r) \/ CutOff(r) PROVE IInv'
  BY <1>7, LockCursorStep, ReadStoredStep, CommitStep, CutOffStep DEF Serve
<1>8. CASE UNCHANGED vars
  <2>1. UNCHANGED <<log, run, request, reply, server, bounds>>
    BY <1>8 DEF vars
  <2>2. TypeOK'
    BY <2>1 DEF IInv, TypeOK, log, run, server, bounds
  <2>3. DeviceInv'
    BY <2>1, DeviceFrame DEF server
  <2>4. ServerInv'
    BY <2>1, RunFrame DEF log
  <2> QED
    BY <2>2, <2>3, <2>4 DEF IInv
<1> QED
  BY <1>1, <1>2, <1>3, <1>4, <1>5, <1>6, <1>7, <1>8 DEF Next, Proceed

\* The inductive invariant holds in every state.
THEOREM InvariantHolds == Spec => []IInv
BY InitIInv, NextIInv, PTL DEF Spec

\* Every variable has its type.
THEOREM TypeCorrect == Spec => []TypeOK
<1>1. IInv => TypeOK
  BY DEF IInv
<1> QED
  BY <1>1, InvariantHolds, PTL

\* applyResults marks a row synced only when the service has it.
THEOREM SyncedCorrect == Spec => []SyncedIsStored
<1>1. IInv => SyncedIsStored
  BY DEF IInv, DeviceInv
<1> QED
  BY <1>1, InvariantHolds, PTL

\* However many copies of a batch are in flight, each operation is stored once.
THEOREM StoredOnceCorrect == Spec => []StoredOnce
<1>1. IInv => StoredOnce
  BY DEF IInv, ServerInv
<1> QED
  BY <1>1, InvariantHolds, PTL

\* sync.plan applies a device's assessments without gaps, whatever is in flight.
THEOREM GaplessCorrect == Spec => []AppliedWithoutGaps
<1>1. IInv => AppliedWithoutGaps
  BY DEF IInv, ServerInv
<1> QED
  BY <1>1, InvariantHolds, PTL

\* A report is submitted again only after the answer to it was lost.
THEOREM RepeatCorrect == Spec => []RepeatedOnlyAfterLoss
<1>1. IInv => RepeatedOnlyAfterLoss
  BY DEF IInv, DeviceInv
<1> QED
  BY <1>1, InvariantHolds, PTL

-------------------------------------------------------------------------------
(* Nothing is left behind the cursor.                                      *)
(*                                                                         *)
(* Only rows with no report below them ever get past the server's gap test *)
(* (Clear): the others stay above its cursor, and above the device's.  A   *)
(* clear row the server may know of and the device has no answer for is    *)
(* within reach of the next batch (Waits), so the batch a run pushes takes *)
(* it along (Carried), and the answer that moves the cursor over the row   *)
(* answers the row too.  It is within reach because no answered row is     *)
(* pending again and no row in front of it can be left syncing while a     *)
(* batch is planned behind it (Jam).                                       *)

Clear(s) == \A t \in 1..s : Pushable(t)
Sent(s) == s <= lastApplied \/ \E r \in Requests : s \in request[r].ops
Ans(s) == status[s] \in {"synced", "conflict"}
Unanswered(s) == {t \in Ops : t < s /\ ~Ans(t)}
Reach(s) ==
    /\ \A t \in Ops : t < s => status[t] # "conflict"
    /\ Cardinality(Unanswered(s)) < BatchSize
Pushing == phase \in {"push", "wait"}

\* The server's half: what it knows of was written, in order.
NoHoles == \A s \in Ops : Written(s) => \A t \in 1..s : Written(t)
StoredPushable == \A s \in Ops : stored[s] > 0 => Pushable(s)
StoredBelow == \A s \in Ops : stored[s] > 0 => s <= lastApplied
ReadsBelow == \A r \in Requests : request[r].from <= lastApplied

OriginInv == NoHoles /\ StoredPushable /\ StoredBelow /\ ReadsBelow

\* The push a run is about to make or waits for.
AnswerBelow ==
    reply # None => /\ phase = "wait"
                    /\ reply.cursor <= lastApplied
                    /\ \A s \in reply.ok : s <= lastApplied
                    /\ \A s \in batch : Clear(s) => s \in reply.ok \cup reply.refused
CallIsBatch ==
    call # None =>
        /\ phase = "wait"
        /\ request[call].state # "free" => request[call].ops = Assessments(batch)
        /\ request[call].state \in {"locked", "planned"} =>
             \A s \in batch : Clear(s) => s - 1 \in batch \/ s - 1 <= request[call].from
BatchSyncing == Pushing => \A s \in batch : status[s] = "syncing"
Contiguous ==
    Pushing => \A s \in batch : Clear(s) => s - 1 \in batch \/ s - 1 <= lastApplied
BatchInReach == phase = "push" => \A s \in batch : Clear(s) => Reach(s)
Carried == Pushing => \A s \in Ops : Clear(s) /\ Sent(s) /\ ~Ans(s) => s \in batch

PushInv ==
    AnswerBelow /\ CallIsBatch /\ BatchSyncing /\ Contiguous /\ BatchInReach /\ Carried

\* The log, whatever the run does.
Waits == \A s \in Ops : Clear(s) /\ Sent(s) /\ ~Ans(s) => Reach(s)
Jam == \A s, t \in Ops : status[s] = "syncing" /\ t < s /\ Clear(t) => status[t] # "pending"
JamAhead ==
    \A s \in Ops, t \in batch : status[s] = "syncing" /\ s \notin batch /\ Clear(t) => ~(t < s)
SyncedBelow == \A s \in Ops : status[s] = "synced" /\ Clear(s) => s <= lastApplied
CurAnswered == \A s \in Ops : s <= cur => Ans(s)

LogInv ==
    Waits /\ Jam /\ JamAhead /\ SyncedBelow /\ CurAnswered /\ NothingBehindCursor

CursorInv == OriginInv /\ PushInv /\ LogInv
CInv == IInv /\ CursorInv

-------------------------------------------------------------------------------
\* Whatever is below a clear row is clear.
LEMMA ClearDown ==
    ASSUME NEW s \in Ops, Clear(s), NEW t \in 1..s
    PROVE  t \in Ops /\ Clear(t) /\ Pushable(t) /\ Pushable(s)
<1>1. s \in Nat /\ s >= 1 /\ s <= MaxOp /\ t \in Nat /\ t >= 1 /\ t <= s
  BY OpsAreNumbers DEF Ops
<1>2. 1..t \subseteq 1..s /\ s \in 1..s /\ t \in Ops
  BY <1>1, OpsAreNumbers DEF Ops
<1> QED
  BY <1>2 DEF Clear

\* The server's cursor only covers clear rows.
LEMMA BelowIsClear ==
    ASSUME CInv, NEW s \in Ops, s <= lastApplied
    PROVE  Clear(s) /\ Sent(s)
<1> SUFFICES ASSUME NEW t \in 1..s PROVE Pushable(t)
  BY DEF Clear, Sent
<1>1. t \in Ops /\ t \in 1..lastApplied
  BY OpsAreNumbers DEF CInv, IInv, TypeOK, Ops
<1>2. Settled(t)
  BY <1>1 DEF CInv, IInv, ServerInv, Covered
<1> QED
  BY <1>1, <1>2 DEF CInv, CursorInv, OriginInv, StoredPushable, Settled, Pushable

\* A row stays in reach while answers below it stand and none is a new conflict.
LEMMA ReachStays ==
    ASSUME NEW s \in Ops, Reach(s),
           \A t \in Ops : t < s /\ Ans(t) => Ans(t)',
           \A t \in Ops : t < s /\ status'[t] = "conflict" => status[t] = "conflict"
    PROVE  Reach(s)'
<1>1. \A t \in Ops : t < s => status'[t] # "conflict"
  BY DEF Reach
<1>2. Unanswered(s)' \subseteq Unanswered(s)
  BY DEF Unanswered
<1>3. IsFiniteSet(Unanswered(s))
  <2>1. IsFiniteSet(Ops)
    BY FS_Interval, OpsAreNumbers DEF Ops
  <2>2. Unanswered(s) \in SUBSET Ops
    BY DEF Unanswered
  <2> QED
    BY <2>1, <2>2, FS_Subset
<1>4. /\ Cardinality(Unanswered(s)') <= Cardinality(Unanswered(s))
      /\ Cardinality(Unanswered(s)') \in Nat /\ Cardinality(Unanswered(s)) \in Nat
  BY <1>2, <1>3, FS_Subset, FS_CardinalityType
<1>5. Cardinality(Unanswered(s)') < BatchSize
  BY <1>4, DeviceSyncAssumption DEF Reach
<1> QED
  BY <1>1, <1>5 DEF Reach

\* Outside a push there is nothing to say about one.
LEMMA NoPush ==
    ASSUME phase' \notin {"push", "wait"}, reply' = None, call' = None
    PROVE  PushInv'
BY DEF PushInv, AnswerBelow, CallIsBatch, BatchSyncing, Contiguous, BatchInReach, Carried,
       Pushing

\* Only while the engine waits is there a call or an answer.
LEMMA NotWaiting ==
    ASSUME CInv, phase # "wait"
    PROVE  call = None /\ reply = None
BY DEF CInv, CursorInv, PushInv, AnswerBelow, CallIsBatch

\* The server's half, when nothing is written or stored.
LEMMA OriginFrame ==
    ASSUME CInv, UNCHANGED <<kind, stored, lastApplied>>,
           \A r \in Requests : request'[r].from <= lastApplied
    PROVE  OriginInv'
BY DEF CInv, CursorInv, OriginInv, NoHoles, StoredPushable, StoredBelow, ReadsBelow,
       Written, Pushable

\* A freed request has read nothing.
LEMMA FreedReads ==
    ASSUME CInv, \A r \in Requests : request'[r] \in {request[r], Free}
    PROVE  /\ \A r \in Requests : request'[r].from <= lastApplied
           /\ \A r \in Requests : request'[r].ops \subseteq request[r].ops
<1>1. Free.ops = {} /\ Free.from = 0 /\ lastApplied >= 0
  BY DEF Free, PushOf, CInv, IInv, TypeOK
<1> QED
  BY <1>1 DEF CInv, CursorInv, OriginInv, ReadsBelow

\* A step that leaves the clear rows alone and tells the server of none that is
\* not in reach.
LEMMA LogFrame ==
    ASSUME CInv, UNCHANGED kind,
           lastApplied <= lastApplied', lastApplied' \in 0..MaxOp,
           \A s \in Ops : Clear(s) => status'[s] = status[s],
           \A s \in Ops : Ans(s) => Ans(s)',
           \A s \in Ops : status'[s] = "syncing" => status[s] = "syncing",
           \A s \in Ops : Clear(s) /\ Sent(s)' /\ ~Sent(s) => Reach(s),
           batch' = batch \/ batch' = {},
           cur' \in {cur, cursor, 0},
           cursor' \in {cursor, cur}
    PROVE  LogInv'
<1> USE DEF CInv, CursorInv, LogInv
<1>1. \A s \in Ops : Clear(s)' <=> Clear(s)
  BY DEF Clear, Pushable
<1>2. Waits'
  <2> SUFFICES ASSUME NEW s \in Ops, Clear(s), Sent(s)', ~Ans(s)'
               PROVE  Reach(s)'
    BY <1>1 DEF Waits
  <2>1. ~Ans(s)
    OBVIOUS
  <2>2. Reach(s)
    BY <2>1 DEF Waits
  <2>3. \A t \in Ops : t < s => status'[t] = status[t]
    <3> SUFFICES ASSUME NEW t \in Ops, t < s PROVE status'[t] = status[t]
      OBVIOUS
    <3>1. t \in 1..s
      BY OpsAreNumbers DEF Ops
    <3> QED
      BY <3>1, ClearDown
  <2> QED
    BY <2>2, <2>3, ReachStays
<1>3. Jam'
  BY <1>1 DEF Jam
<1>4. JamAhead'
  <2>1. batch \subseteq Ops
    BY DEF IInv, TypeOK
  <2> QED
    BY <1>1, <2>1 DEF JamAhead
<1>5. SyncedBelow'
  <2> SUFFICES ASSUME NEW s \in Ops, status'[s] = "synced", Clear(s)
               PROVE  s <= lastApplied'
    BY <1>1 DEF SyncedBelow
  <2>1. s <= lastApplied
    BY DEF SyncedBelow
  <2>2. s \in Int /\ lastApplied \in Int /\ lastApplied' \in Int
    BY OpsAreNumbers DEF IInv, TypeOK
  <2> QED
    BY <2>1, <2>2
<1>6. \A s \in Ops : ~(s <= 0)
  BY OpsAreNumbers DEF Ops
<1>7. CurAnswered' /\ NothingBehindCursor'
  BY <1>6 DEF CurAnswered, NothingBehindCursor, Ans
<1> QED
  BY <1>2, <1>3, <1>4, <1>5, <1>7

-------------------------------------------------------------------------------
\* Steps of the run that only answer reports, or end it.
LEMMA RunCursor ==
    ASSUME CInv, UNCHANGED <<kind, stored, lastApplied>>,
           phase' \notin {"push", "wait"}, reply' = None, call' = None,
           \A r \in Requests : request'[r] \in {request[r], Free},
           \A s \in Ops : Clear(s) => status'[s] = status[s],
           \A s \in Ops : Ans(s) => Ans(s)',
           \A s \in Ops : status'[s] = "syncing" => status[s] = "syncing",
           batch' = batch \/ batch' = {},
           cur' \in {cur, cursor, 0},
           cursor' \in {cursor, cur}
    PROVE  CursorInv'
<1>1. \A r \in Requests : request'[r].ops \subseteq request[r].ops
  BY FreedReads
<1>2. \A s \in Ops : Sent(s)' => Sent(s)
  BY <1>1 DEF Sent
<1>3. OriginInv'
  BY FreedReads, OriginFrame
<1>4. PushInv'
  BY NoPush
<1>5. lastApplied <= lastApplied' /\ lastApplied' \in 0..MaxOp
  BY DEF CInv, IInv, TypeOK
<1>6. LogInv'
  BY <1>2, <1>5, LogFrame
<1> QED
  BY <1>3, <1>4, <1>6 DEF CursorInv

\* The action Start keeps the cursor's invariant.
LEMMA StartCursor ==
    ASSUME CInv, Start
    PROVE  CursorInv'
<1> USE DEF log, run, server, bounds
<1>1. phase # "wait"
  BY DEF Start
<1>2. call = None /\ reply = None
  BY <1>1, NotWaiting
<1> QED
  BY <1>2, RunCursor DEF Start, Ans

\* The actions Submit, Submitted and RefuseReport keep it: a report is not clear.
LEMMA ReportCursor ==
    ASSUME CInv, NEW s \in Ops, Submit(s) \/ Submitted \/ RefuseReport(s)
    PROVE  CursorInv'
<1> USE DEF log, run, server, bounds
<1>1. call = None /\ reply = None
  BY NotWaiting DEF Submit, Submitted, RefuseReport
<1>2. \A u \in Ops : Clear(u) => kind[u] # "report"
  <2> SUFFICES ASSUME NEW u \in Ops, Clear(u) PROVE kind[u] # "report"
    OBVIOUS
  <2>1. u \in 1..u
    BY OpsAreNumbers DEF Ops
  <2> QED
    BY <2>1 DEF Clear, Pushable
<1>3. CASE Submit(s)
  BY <1>1, <1>3, RunCursor DEF Submit, Ans
<1>4. CASE Submitted
  <2>1. kind[single] = "report"
    BY <1>4 DEF Submitted, CInv, IInv, DeviceInv, OneSubmission
  <2>2. status' = [u \in Ops |-> IF u = single THEN "synced" ELSE status[u]]
    BY <1>4 DEF Submitted, Marked
  <2>3. /\ \A u \in Ops : Clear(u) => status'[u] = status[u]
        /\ \A u \in Ops : Ans(u) => Ans(u)'
        /\ \A u \in Ops : status'[u] = "syncing" => status[u] = "syncing"
    BY <1>2, <2>1, <2>2 DEF Ans
  <2> QED
    BY <1>1, <1>4, <2>3, RunCursor DEF Submitted
<1>5. CASE RefuseReport(s)
  <2>1. kind[s] = "report"
    BY <1>5 DEF RefuseReport, Singles
  <2>2. status' = [u \in Ops |-> IF u = s THEN "conflict" ELSE status[u]]
    BY <1>5 DEF RefuseReport, Marked
  <2>3. /\ \A u \in Ops : Clear(u) => status'[u] = status[u]
        /\ \A u \in Ops : Ans(u) => Ans(u)'
        /\ \A u \in Ops : status'[u] = "syncing" => status[u] = "syncing"
    BY <1>2, <2>1, <2>2 DEF Ans
  <2> QED
    BY <1>1, <1>5, <2>3, RunCursor DEF RefuseReport
<1> QED
  BY <1>3, <1>4, <1>5

\* The actions EndBatch, Record and Kill keep it.
LEMMA EndCursor ==
    ASSUME CInv, EndBatch \/ Record \/ Kill
    PROVE  CursorInv'
<1> USE DEF log, run, server, bounds
<1>1. CASE EndBatch
  <2>1. call = None /\ reply = None
    BY <1>1, NotWaiting DEF EndBatch
  <2> QED
    BY <1>1, <2>1, RunCursor DEF EndBatch, Ans
<1>2. CASE Record
  BY <1>2, RunCursor DEF Record, Forget, Ans
<1>3. CASE Kill
  <2>1. \A r \in Requests : request'[r] \in {request[r], Free}
    BY <1>3, AbandonType DEF Kill, CInv
  <2> QED
    BY <1>3, <2>1, RunCursor DEF Kill, Forget, Ans
<1> QED
  BY <1>1, <1>2, <1>3

\* The action GiveUp keeps it: no clear row of the batch has a row left syncing
\* behind it.
LEMMA GiveUpCursor ==
    ASSUME CInv, GiveUp
    PROVE  CursorInv'
<1> USE DEF CInv, CursorInv
<1>1. /\ phase' = "idle" /\ batch' = {} /\ cur' = 0 /\ call' = None /\ reply' = None
      /\ status' = [s \in Ops |-> IF s \in batch /\ status[s] = "syncing" THEN "pending"
                                  ELSE status[s]]
      /\ UNCHANGED <<kind, cursor, lastApplied, stored>>
  <2>1. status \in [Ops -> Statuses] /\ batch \subseteq Ops
    BY DEF IInv, TypeOK
  <2> QED
    BY <2>1 DEF GiveUp, Forget, Released, Marked, server
<1>2. \A r \in Requests : request'[r] \in {request[r], Free}
  BY AbandonType DEF GiveUp
<1>3. \A r \in Requests : request'[r].ops \subseteq request[r].ops
  BY <1>2, FreedReads
<1>4. \A s : Sent(s)' => Sent(s)
  BY <1>1, <1>3 DEF Sent
<1>5. \A s : Clear(s)' <=> Clear(s)
  BY <1>1 DEF Clear, Pushable
<1>6. \A s \in Ops : Ans(s)' <=> Ans(s)
  BY <1>1 DEF Ans
<1>7. OriginInv'
  BY <1>1, <1>2, FreedReads, OriginFrame
<1>8. PushInv'
  BY <1>1, NoPush
<1>9. Waits'
  <2> SUFFICES ASSUME NEW s \in Ops, Clear(s), Sent(s), ~Ans(s) PROVE Reach(s)'
    BY <1>4, <1>5, <1>6 DEF Waits
  <2>1. Reach(s)
    BY DEF LogInv, Waits
  <2>2. \A t \in Ops : status'[t] = "conflict" => status[t] = "conflict"
    BY <1>1
  <2> QED
    BY <1>6, <2>1, <2>2, ReachStays
<1>10. Jam' /\ JamAhead'
  BY <1>1, <1>5 DEF LogInv, Jam, JamAhead
<1>11. SyncedBelow'
  BY <1>1, <1>5 DEF LogInv, SyncedBelow
<1>12. CurAnswered' /\ NothingBehindCursor'
  <2>1. \A s \in Ops : ~(s <= 0)
    BY OpsAreNumbers DEF Ops
  <2> QED
    BY <1>1, <1>6, <2>1 DEF LogInv, CurAnswered, NothingBehindCursor, Ans
<1> QED
  BY <1>7, <1>8, <1>9, <1>10, <1>11, <1>12 DEF LogInv

-------------------------------------------------------------------------------
(* The batch.                                                              *)

\* What a batch takes: rows in front of which nothing is stuck, and each of
\* their pending predecessors.
LEMMA PlanFacts ==
    ASSUME CInv, NEW s \in PlanBatch
    PROVE  /\ s \in Ops
           /\ status[s] = "pending"
           /\ \A t \in Ops : t < s => status[t] \in {"absent", "pending", "synced"}
           /\ \A t \in Ops : t < s /\ status[t] = "pending" => t \in PlanBatch
           /\ Clear(s) => Reach(s)
<1> DEFINE Before(u) == {t \in Candidates : t < u}
<1> USE DEF CInv, CursorInv
<1>1. s \in Ops /\ status[s] = "pending" /\ Cardinality(Before(s)) < BatchSize
  BY DEF PlanBatch, Candidates, Sendable
<1>2. \A t \in Ops : t < s => t \in 1..(s - 1)
  BY <1>1, OpsAreNumbers DEF Ops
<1>3. \A t \in Ops : t < s => ~Stops(t)
  BY <1>2 DEF PlanBatch, Candidates
<1>4. \A t \in Ops : t < s => status[t] \in {"absent", "pending", "synced"}
  <2> SUFFICES ASSUME NEW t \in Ops, t < s,
                      status[t] \notin {"absent", "pending", "synced"}
               PROVE  FALSE
    OBVIOUS
  <2>1. status[t] \in {"syncing", "conflict"}
    BY DEF IInv, TypeOK, Statuses
  <2>2. status[t] = "syncing" /\ ~(t > cursor)
    BY <1>3, <2>1 DEF Stops, Sendable
  <2>3. t <= cursor
    BY <2>2, OpsAreNumbers DEF IInv, TypeOK
  <2> QED
    BY <2>2, <2>3 DEF LogInv, NothingBehindCursor
<1>5. \A t \in Ops : t < s /\ status[t] = "pending" => t \in Candidates
  <2> SUFFICES ASSUME NEW t \in Ops, t < s, status[t] = "pending" PROVE t \in Candidates
    OBVIOUS
  <2>1. \A u \in 1..(t - 1) : u \in Ops /\ u < s
    BY <1>1, OpsAreNumbers DEF Ops
  <2> QED
    BY <1>3, <2>1 DEF Candidates, Sendable
<1>6. IsFiniteSet(Ops) /\ Candidates \subseteq Ops
  BY FS_Interval, OpsAreNumbers DEF Ops, Candidates
<1>7. ASSUME NEW t \in Ops, t < s, status[t] = "pending" PROVE t \in PlanBatch
  <2>1. Before(t) \subseteq Before(s)
    <3> SUFFICES ASSUME NEW c \in Candidates, c < t PROVE c < s
      OBVIOUS
    <3>1. c \in Nat /\ t \in Nat /\ s \in Nat
      BY <1>1, <1>6, OpsAreNumbers
    <3> QED
      BY <1>7, <3>1
  <2>2. Before(s) \in SUBSET Ops
    BY <1>6
  <2> HIDE DEF Before
  <2>3. /\ Cardinality(Before(t)) <= Cardinality(Before(s))
        /\ Cardinality(Before(t)) \in Nat /\ Cardinality(Before(s)) \in Nat
    BY <1>6, <2>1, <2>2, FS_Subset, FS_CardinalityType
  <2>4. Cardinality(Before(t)) < BatchSize
    BY <1>1, <2>3, DeviceSyncAssumption
  <2> QED
    BY <1>5, <1>7, <2>4 DEF PlanBatch, Before
<1>8. ASSUME Clear(s) PROVE Reach(s)
  <2>1. \A t \in Ops : t < s => status[t] \in {"pending", "synced"}
    <3> SUFFICES ASSUME NEW t \in Ops, t < s PROVE status[t] # "absent"
      BY <1>4
    <3>1. Pushable(t)
      BY <1>1, <1>2, <1>8, OpsAreNumbers, ClearDown DEF Ops
    <3> QED
      BY <3>1 DEF Pushable, IInv, DeviceInv, RowsHaveKinds
  <2>2. Unanswered(s) = Before(s)
    BY <1>5, <1>6, <2>1 DEF Unanswered, Ans, Candidates, Sendable
  <2> QED
    BY <1>1, <2>1, <2>2 DEF Reach
<1> QED
  BY <1>1, <1>4, <1>7, <1>8

\* A batch that takes anything takes every clear row the server may know of and
\* the device has no answer for.
LEMMA BatchCarries ==
    ASSUME CInv, PlanBatch # {}, NEW s \in Ops, Clear(s), Sent(s), ~Ans(s)
    PROVE  s \in PlanBatch
<1> USE DEF CInv, CursorInv
<1>1. Reach(s)
  BY DEF LogInv, Waits
<1>2. PICK p \in PlanBatch : TRUE
  OBVIOUS
<1>3. /\ p \in Ops /\ status[p] = "pending"
      /\ \A t \in Ops : t < p => status[t] # "syncing"
  BY <1>2, PlanFacts
<1>4. \A t \in Ops : t <= s => t \in 1..s
  BY OpsAreNumbers DEF Ops
<1>5. \A t \in Ops : t <= s => status[t] # "syncing"
  <2> SUFFICES ASSUME NEW t \in Ops, t <= s, status[t] = "syncing" PROVE FALSE
    OBVIOUS
  <2>1. p < t
    BY <1>3, OpsAreNumbers
  <2>2. p <= s
    BY <1>3, <2>1, OpsAreNumbers
  <2>3. Clear(p)
    BY <1>3, <1>4, <2>2, ClearDown
  <2> QED
    BY <1>3, <2>1, <2>3 DEF LogInv, Jam
<1>6. status[s] = "pending"
  <2>1. s \in 1..s
    BY <1>4, OpsAreNumbers
  <2>2. Pushable(s)
    BY <2>1 DEF Clear
  <2>3. status[s] # "absent"
    BY <2>2 DEF Pushable, IInv, DeviceInv, RowsHaveKinds
  <2> QED
    BY <1>5, <2>3, OpsAreNumbers DEF Ans, IInv, TypeOK, Statuses
<1>7. \A t \in 1..(s - 1) : t \in Ops /\ t < s
  BY OpsAreNumbers DEF Ops
<1>8. s \in Candidates
  BY <1>1, <1>5, <1>6, <1>7, OpsAreNumbers DEF Candidates, Sendable, Stops, Reach
<1>9. {t \in Candidates : t < s} \subseteq Unanswered(s)
  BY DEF Candidates, Sendable, Unanswered, Ans
<1>10. IsFiniteSet(Unanswered(s))
  <2>1. IsFiniteSet(Ops) /\ Unanswered(s) \in SUBSET Ops
    BY FS_Interval, OpsAreNumbers DEF Ops, Unanswered
  <2> QED
    BY <2>1, FS_Subset
<1>11. Cardinality({t \in Candidates : t < s}) < BatchSize
  <2>1. /\ Cardinality({t \in Candidates : t < s}) <= Cardinality(Unanswered(s))
        /\ Cardinality({t \in Candidates : t < s}) \in Nat
        /\ Cardinality(Unanswered(s)) \in Nat
    BY <1>9, <1>10, FS_Subset, FS_CardinalityType
  <2> QED
    BY <1>1, <2>1, DeviceSyncAssumption DEF Reach
<1> QED
  BY <1>8, <1>11 DEF PlanBatch

\* The action Claim keeps the invariant.
LEMMA ClaimCursor ==
    ASSUME CInv, Claim
    PROVE  CursorInv'
<1> USE DEF CInv, CursorInv, server
<1>1. /\ phase = "claim" /\ phase' # "wait"
      /\ phase' = "push" => PlanBatch # {}
      /\ batch' = PlanBatch
      /\ status' = [s \in Ops |-> IF s \in PlanBatch THEN "syncing" ELSE status[s]]
      /\ UNCHANGED <<kind, cursor, cur, call, request, reply, lastApplied, stored>>
  BY DEF Claim, Marked
<1>2. call = None /\ reply = None
  BY <1>1, NotWaiting
<1>3. /\ \A s : Clear(s)' <=> Clear(s)
      /\ \A s : Sent(s)' <=> Sent(s)
  BY <1>1 DEF Clear, Pushable, Sent
<1>4. \A s \in PlanBatch : s \in Ops /\ status[s] = "pending"
  BY PlanFacts
<1>5. /\ \A s \in Ops : Ans(s)' <=> Ans(s)
      /\ \A s \in Ops : status'[s] = "conflict" => status[s] = "conflict"
  BY <1>1, <1>4 DEF Ans
<1>6. OriginInv'
  BY <1>1, OriginFrame DEF OriginInv, ReadsBelow
<1>7. \A s \in Ops : Reach(s) => Reach(s)'
  BY <1>5, ReachStays
<1>8. PushInv'
  <2>1. AnswerBelow' /\ CallIsBatch'
    BY <1>1, <1>2 DEF AnswerBelow, CallIsBatch
  <2>2. BatchSyncing'
    BY <1>1, <1>4 DEF BatchSyncing
  <2>3. Contiguous'
    <3> SUFFICES ASSUME NEW s \in PlanBatch, Clear(s)
                 PROVE  s - 1 \in PlanBatch \/ s - 1 <= lastApplied
      BY <1>1, <1>3 DEF Contiguous
    <3>1. s \in Ops
      BY <1>4
    <3>2. CASE s = 1
      BY <3>2 DEF IInv, TypeOK
    <3>3. CASE s # 1
      <4>1. s - 1 \in Ops /\ s - 1 < s /\ s - 1 \in 1..s
        BY <3>1, <3>3, OpsAreNumbers DEF Ops
      <4>2. Clear(s - 1) /\ Pushable(s - 1)
        BY <3>1, <4>1, ClearDown
      <4>3. status[s - 1] # "absent"
        BY <4>1, <4>2 DEF Pushable, IInv, DeviceInv, RowsHaveKinds
      <4>4. status[s - 1] = "synced" \/ s - 1 \in PlanBatch
        BY <4>1, <4>3, PlanFacts
      <4> QED
        BY <4>1, <4>2, <4>4 DEF LogInv, SyncedBelow
    <3> QED
      BY <3>2, <3>3
  <2>4. BatchInReach'
    BY <1>1, <1>3, <1>4, <1>7, PlanFacts DEF BatchInReach
  <2>5. Carried'
    BY <1>1, <1>3, <1>5, BatchCarries DEF Carried, Pushing
  <2> QED
    BY <2>1, <2>2, <2>3, <2>4, <2>5 DEF PushInv
<1>9. Waits'
  BY <1>3, <1>5, <1>7 DEF LogInv, Waits
<1>10. Jam'
  <2> SUFFICES ASSUME NEW s \in Ops, NEW t \in Ops, status'[s] = "syncing", t < s,
                      Clear(t), status'[t] = "pending"
               PROVE  FALSE
    BY <1>3 DEF Jam
  <2>1. t \notin PlanBatch /\ status[t] = "pending"
    BY <1>1
  <2>2. s \notin PlanBatch
    BY <2>1, PlanFacts
  <2> QED
    BY <1>1, <2>1, <2>2 DEF LogInv, Jam
<1>11. JamAhead'
  BY <1>1, <1>3, <1>4 DEF LogInv, Jam, JamAhead
<1>12. SyncedBelow'
  BY <1>1, <1>3 DEF LogInv, SyncedBelow
<1>13. CurAnswered' /\ NothingBehindCursor'
  BY <1>1, <1>5 DEF LogInv, CurAnswered, NothingBehindCursor, Ans
<1> QED
  BY <1>6, <1>8, <1>9, <1>10, <1>11, <1>12, <1>13 DEF LogInv

\* The action Receive keeps it: the answer that moves the cursor over a row
\* answers the row.
LEMMA ReceiveCursor ==
    ASSUME CInv, Receive
    PROVE  CursorInv'
<1> USE DEF CInv, CursorInv, server
<1>1. /\ phase = "wait" /\ phase' = "singles"
      /\ reply # None /\ reply' = None /\ call' = None
      /\ cur' = reply.cursor
      /\ status' = Answered
      /\ UNCHANGED <<kind, cursor, batch, request, lastApplied, stored>>
  BY DEF Receive
<1>2. /\ reply.cursor <= lastApplied
      /\ \A s \in reply.ok : s <= lastApplied
      /\ \A s \in batch : Clear(s) => s \in reply.ok \cup reply.refused
      /\ \A s \in batch : status[s] = "syncing"
  BY <1>1 DEF PushInv, AnswerBelow, BatchSyncing, Pushing
<1>3. /\ \A s : Clear(s)' <=> Clear(s)
      /\ \A s : Sent(s)' <=> Sent(s)
  BY <1>1 DEF Clear, Pushable, Sent
<1>4. \A s \in Ops : Ans(s) => Ans(s)'
  BY <1>1, <1>2 DEF Answered, Ans, Assessments
<1>5. \A s \in Ops : Clear(s) /\ Sent(s) => Ans(s)'
  <2> SUFFICES ASSUME NEW s \in Ops, Clear(s), Sent(s), ~Ans(s) PROVE Ans(s)'
    BY <1>4
  <2>1. s \in batch
    BY <1>1 DEF PushInv, Carried, Pushing
  <2>2. s \in reply.ok \cup reply.refused
    BY <1>2, <2>1
  <2> QED
    BY <1>1, <2>2 DEF Answered, Ans
<1>6. OriginInv'
  BY <1>1, OriginFrame DEF OriginInv, ReadsBelow
<1>7. PushInv'
  BY <1>1, NoPush
<1>8. Waits'
  BY <1>3, <1>5 DEF Waits
<1>9. \A s \in Ops : status'[s] = "syncing" => status[s] = "syncing"
  BY <1>1 DEF Answered
<1>10. \A s \in Ops : Clear(s) /\ status'[s] = "pending" => status[s] = "pending"
  BY <1>1, <1>2 DEF Answered, Assessments
<1>11. Jam'
  BY <1>3, <1>9, <1>10 DEF LogInv, Jam
<1>12. JamAhead'
  <2>1. batch \subseteq Ops
    BY DEF IInv, TypeOK
  <2> QED
    BY <1>1, <1>3, <1>9, <2>1 DEF LogInv, JamAhead
<1>13. SyncedBelow'
  BY <1>1, <1>2, <1>3 DEF LogInv, SyncedBelow, Answered
<1>14. CurAnswered'
  <2> SUFFICES ASSUME NEW s \in Ops, s <= reply.cursor PROVE Ans(s)'
    BY <1>1 DEF CurAnswered
  <2>1. s <= lastApplied
    BY <1>1, <1>2, OpsAreNumbers DEF IInv, TypeOK, Replies
  <2> QED
    BY <1>5, <2>1, BelowIsClear
<1>15. NothingBehindCursor'
  BY <1>1, <1>4 DEF LogInv, NothingBehindCursor, Ans
<1> QED
  BY <1>6, <1>7, <1>8, <1>11, <1>12, <1>13, <1>14, <1>15 DEF LogInv

-------------------------------------------------------------------------------
(* The other device steps, and the server's.                               *)

\* The action Append keeps the invariant: the row is the last of the log, and
\* nobody has heard of it.
LEMMA AppendCursor ==
    ASSUME CInv, NEW s \in Ops, NEW k \in Kinds, Append(s, k)
    PROVE  CursorInv'
<1> USE DEF CInv, CursorInv, log, run, server, bounds
<1>1. /\ status[s] = "absent" /\ \A t \in 1..(s - 1) : status[t] # "absent"
      /\ kind' = [kind EXCEPT ![s] = k]
      /\ status' = [status EXCEPT ![s] = "pending"]
      /\ UNCHANGED <<cursor, run, request, reply, server, bounds>>
  BY DEF Append
<1>2. k # "none" /\ kind[s] = "none" /\ ~Written(s) /\ ~Pushable(s)
  BY <1>1, DeviceSyncAssumption DEF IInv, DeviceInv, RowsHaveKinds, Written, Pushable
<1>3. \A t \in Ops : t # s => kind'[t] = kind[t] /\ status'[t] = status[t]
  BY <1>1 DEF IInv, TypeOK
<1>4. kind'[s] = k /\ status'[s] = "pending"
  BY <1>1 DEF IInv, TypeOK
<1>5. \A t \in Ops : s < t => ~Written(t) /\ status[t] = "absent"
  <2> SUFFICES ASSUME NEW t \in Ops, s < t PROVE ~Written(t)
    BY DEF IInv, DeviceInv, RowsHaveKinds, Written
  <2>1. s \in 1..t
    BY OpsAreNumbers DEF Ops
  <2> QED
    BY <1>2, <2>1 DEF OriginInv, NoHoles
<1>6. \A t \in Ops : t \in 1..t /\ (s <= t => s \in 1..t)
  BY OpsAreNumbers DEF Ops
<1>7. \A t \in Ops : Clear(t) => t < s
  <2>1. \A t \in Ops : t < s \/ s <= t
    BY OpsAreNumbers
  <2> QED
    BY <1>2, <1>6, <2>1 DEF Clear
<1>8. \A t \in Ops : Clear(t)' => t = s \/ t < s
  <2>1. \A t \in Ops : t < s \/ t = s \/ s < t
    BY OpsAreNumbers
  <2>2. \A t \in Ops : s < t => ~Pushable(t)'
    BY <1>3, <1>5, OpsAreNumbers DEF Written, Pushable
  <2> QED
    BY <1>6, <2>1, <2>2 DEF Clear
<1>9. \A t \in Ops : t # s => (Clear(t)' <=> Clear(t))
  <2> SUFFICES ASSUME NEW t \in Ops, t < s PROVE Clear(t)' <=> Clear(t)
    BY <1>7, <1>8
  <2>1. \A u \in 1..t : u \in Ops /\ u # s
    BY OpsAreNumbers DEF Ops
  <2> QED
    BY <1>3, <2>1 DEF Clear, Pushable
<1>10. \A t : Sent(t)' <=> Sent(t)
  BY <1>1 DEF Sent
<1>11. ~Sent(s) /\ s \notin batch
  <2>1. ~(s <= lastApplied)
    BY <1>7, BelowIsClear, OpsAreNumbers
  <2>2. \A r \in Requests : s \notin request[r].ops
    BY <1>2 DEF IInv, ServerInv, InFlight
  <2>3. s \notin batch
    BY <1>2 DEF IInv, DeviceInv, BatchIsWritten
  <2> QED
    BY <2>1, <2>2, <2>3 DEF Sent
<1>12. \A t \in Ops : Clear(t) /\ Reach(t) => Reach(t)'
  <2> SUFFICES ASSUME NEW t \in Ops, Clear(t), Reach(t) PROVE Reach(t)'
    OBVIOUS
  <2>1. t < s
    BY <1>7
  <2>2. \A u \in Ops : u < t => u # s
    BY <2>1, OpsAreNumbers
  <2> QED
    BY <1>3, <2>2, ReachStays DEF Ans
<1>13. batch \subseteq Ops
  BY DEF IInv, TypeOK
<1>14. OriginInv'
  <2>1. NoHoles'
    <3> SUFFICES ASSUME NEW u \in Ops, Written(u)', NEW t \in 1..u PROVE Written(t)'
      BY DEF NoHoles
    <3>1. t \in Ops /\ t <= u /\ u <= MaxOp
      BY OpsAreNumbers DEF Ops
    <3>2. CASE t = s
      BY <1>2, <1>4, <3>2 DEF Written
    <3>3. CASE t # s
      <4>1. CASE u = s
        <5>1. t \in 1..(s - 1)
          BY <3>1, <3>3, <4>1, OpsAreNumbers DEF Ops
        <5> QED
          BY <1>1, <1>3, <3>1, <3>3, <5>1 DEF Written, IInv, DeviceInv, RowsHaveKinds
      <4>2. CASE u # s
        BY <1>3, <3>1, <3>3, <4>2 DEF Written, OriginInv, NoHoles
      <4> QED
        BY <4>1, <4>2
    <3> QED
      BY <3>2, <3>3
  <2>2. StoredPushable'
    BY <1>1, <1>2, <1>3 DEF OriginInv, StoredPushable, Pushable
  <2>3. StoredBelow' /\ ReadsBelow'
    BY <1>1 DEF OriginInv, StoredBelow, ReadsBelow
  <2> QED
    BY <2>1, <2>2, <2>3 DEF OriginInv
<1>15. \A t \in batch : t # s /\ (Clear(t)' <=> Clear(t)) /\ status'[t] = status[t]
  BY <1>3, <1>9, <1>11, <1>13
<1>16. PushInv'
  <2>1. AnswerBelow' /\ Contiguous' /\ BatchSyncing'
    BY <1>1, <1>15 DEF PushInv, AnswerBelow, Contiguous, BatchSyncing, Pushing
  <2>2. CallIsBatch'
    <3>1. Assessments(batch)' = Assessments(batch)
      BY <1>1, <1>3, <1>13, <1>15 DEF Assessments
    <3> QED
      BY <1>1, <1>15, <3>1 DEF PushInv, CallIsBatch
  <2>3. BatchInReach'
    BY <1>1, <1>12, <1>13, <1>15 DEF PushInv, BatchInReach
  <2>4. Carried'
    BY <1>1, <1>3, <1>9, <1>10, <1>11 DEF PushInv, Carried, Pushing, Ans
  <2> QED
    BY <2>1, <2>2, <2>3, <2>4 DEF PushInv
<1>17. Waits'
  BY <1>3, <1>9, <1>10, <1>11, <1>12 DEF LogInv, Waits, Ans
<1>18. Jam'
  <2> SUFFICES ASSUME NEW u \in Ops, NEW t \in Ops, status'[u] = "syncing", t < u,
                      Clear(t)', status'[t] = "pending"
               PROVE  FALSE
    BY DEF Jam
  <2>1. u # s /\ status[u] = "syncing"
    BY <1>3, <1>4
  <2>2. t # s
    BY <1>5, <2>1
  <2> QED
    BY <1>3, <1>9, <2>1, <2>2 DEF LogInv, Jam
<1>19. JamAhead'
  BY <1>1, <1>3, <1>4, <1>15 DEF LogInv, JamAhead
<1>20. SyncedBelow'
  BY <1>1, <1>3, <1>4, <1>9 DEF LogInv, SyncedBelow
<1>21. CurAnswered' /\ NothingBehindCursor'
  BY <1>1, <1>3 DEF LogInv, CurAnswered, NothingBehindCursor, Ans
<1> QED
  BY <1>14, <1>16, <1>17, <1>18, <1>19, <1>20, <1>21 DEF LogInv

\* What the server's steps leave alone of a push.
LEMMA PushFrame ==
    ASSUME CInv, UNCHANGED <<log, run>>,
           lastApplied <= lastApplied', lastApplied' \in 0..MaxOp,
           \A s \in Ops : Sent(s)' => Sent(s),
           AnswerBelow', CallIsBatch'
    PROVE  PushInv' /\ LogInv'
<1> USE DEF CInv, CursorInv, log, run
<1>1. \A s : Clear(s)' <=> Clear(s)
  BY DEF Clear, Pushable
<1>2. \A s : Ans(s)' <=> Ans(s)
  BY DEF Ans
<1>3. batch \subseteq Ops /\ lastApplied \in Int /\ lastApplied' \in Int
  BY DEF IInv, TypeOK
<1>4. BatchSyncing'
  BY DEF PushInv, BatchSyncing, Pushing
<1>5. Contiguous'
  <2> SUFFICES ASSUME Pushing, NEW s \in batch, Clear(s), s - 1 \notin batch
               PROVE  s - 1 <= lastApplied'
    BY <1>1 DEF Contiguous, Pushing
  <2>1. s - 1 <= lastApplied
    BY DEF PushInv, Contiguous
  <2>2. s - 1 \in Int
    BY <1>3, OpsAreNumbers
  <2> QED
    BY <1>3, <2>1, <2>2
<1>6. BatchInReach'
  <2>1. \A s \in Ops : Reach(s) => Reach(s)'
    BY <1>2, ReachStays
  <2> QED
    BY <1>1, <1>3, <2>1 DEF PushInv, BatchInReach
<1>7. Carried'
  BY <1>1, <1>2 DEF PushInv, Carried, Pushing
<1>8. LogInv'
  BY <1>2, LogFrame
<1> QED
  BY <1>4, <1>5, <1>6, <1>7, <1>8 DEF PushInv

\* The action Push keeps the invariant: the batch is in reach.
LEMMA PushCursor ==
    ASSUME CInv, NEW r \in Requests, Push(r)
    PROVE  CursorInv'
<1> USE DEF CInv, CursorInv, log, run, server, bounds
<1>1. /\ phase = "push" /\ phase' = "wait" /\ call' = r
      /\ request' = [request EXCEPT ![r] = PushOf("sent", Assessments(batch))]
      /\ UNCHANGED <<log, batch, cur, reply, lastApplied, stored>>
  BY DEF Push
<1>2. /\ request'[r].ops = Assessments(batch) /\ request'[r].from = 0
      /\ request'[r].state = "sent"
      /\ \A q \in Requests : q # r => request'[q] = request[q]
  BY <1>1 DEF PushOf, IInv, TypeOK
<1>3. reply = None
  BY <1>1, NotWaiting
<1>4. \A s : Clear(s)' <=> Clear(s)
  BY <1>1 DEF Clear, Pushable
<1>5. \A s : Sent(s)' => Sent(s) \/ s \in batch
  BY <1>1, <1>2 DEF Sent, Assessments
<1>6. lastApplied \in 0..MaxOp
  BY DEF IInv, TypeOK
<1>7. OriginInv'
  <2>1. \A q \in Requests : request'[q].from <= lastApplied
    BY <1>2, <1>6 DEF OriginInv, ReadsBelow
  <2> QED
    BY <1>1, <2>1, OriginFrame
<1>8. PushInv'
  <2>1. AnswerBelow' /\ BatchInReach'
    BY <1>1, <1>3 DEF AnswerBelow, BatchInReach
  <2>2. CallIsBatch'
    BY <1>1, <1>2 DEF CallIsBatch, Assessments
  <2>3. BatchSyncing' /\ Contiguous'
    BY <1>1, <1>4 DEF PushInv, BatchSyncing, Contiguous, Pushing
  <2>4. Carried'
    BY <1>1, <1>4, <1>5 DEF PushInv, Carried, Pushing, Ans
  <2> QED
    BY <2>1, <2>2, <2>3, <2>4 DEF PushInv
<1>9. LogInv'
  <2>1. \A s \in Ops : Clear(s) /\ Sent(s)' /\ ~Sent(s) => Reach(s)
    BY <1>1, <1>5 DEF PushInv, BatchInReach
  <2> QED
    BY <1>1, <1>6, <2>1, LogFrame DEF Ans
<1> QED
  BY <1>7, <1>8, <1>9

\* A transaction's reads keep it; so does one that is cut off.
LEMMA ServeCursor ==
    ASSUME CInv, NEW r \in Requests, LockCursor(r) \/ ReadStored(r) \/ CutOff(r)
    PROVE  CursorInv'
<1> USE DEF CInv, CursorInv, log, run, server, bounds
<1>1. /\ UNCHANGED <<log, run, reply, lastApplied, stored>>
      /\ \A q \in Requests : q # r => request'[q] = request[q]
  BY DEF LockCursor, ReadStored, CutOff, IInv, TypeOK
<1>2. request \in [Requests -> Pushes] /\ lastApplied \in 0..MaxOp
  BY DEF IInv, TypeOK
<1>3. \/ /\ request[r].state # "free"
         /\ request'[r].ops = request[r].ops
         /\ \/ request'[r].from = lastApplied
            \/ request[r].state = "locked" /\ request'[r].from = request[r].from
      \/ r # call /\ request'[r] = Free
  <2>1. CASE LockCursor(r)
    BY <1>2, <2>1 DEF LockCursor, Pushes
  <2>2. CASE ReadStored(r)
    BY <1>2, <2>2 DEF ReadStored, Pushes
  <2>3. CASE CutOff(r)
    BY <1>2, <2>3 DEF CutOff
  <2> QED
    BY <2>1, <2>2, <2>3
<1>4. Free.ops = {} /\ Free.from = 0
  BY DEF Free, PushOf
<1>5. \A q \in Requests : request'[q].from <= lastApplied
  BY <1>1, <1>2, <1>3, <1>4 DEF OriginInv, ReadsBelow
<1>6. \A q \in Requests : request'[q].ops \subseteq request[q].ops
  BY <1>1, <1>3, <1>4
<1>7. \A s : Sent(s)' => Sent(s)
  BY <1>1, <1>6 DEF Sent
<1>8. \A s : Clear(s)' <=> Clear(s)
  BY <1>1 DEF Clear, Pushable
<1>9. OriginInv'
  BY <1>1, <1>5, OriginFrame
<1>10. AnswerBelow'
  BY <1>1, <1>8 DEF PushInv, AnswerBelow
<1>11. CallIsBatch'
  <2> SUFFICES ASSUME call # None
               PROVE  /\ phase = "wait"
                      /\ request'[call].state # "free"
                           => request'[call].ops = Assessments(batch)
                      /\ request'[call].state \in {"locked", "planned"} =>
                           \A s \in batch : Clear(s) =>
                               s - 1 \in batch \/ s - 1 <= request'[call].from
    BY <1>1, <1>8 DEF CallIsBatch, Assessments
  <2>1. call \in Requests /\ phase = "wait"
    BY DEF IInv, TypeOK, PushInv, CallIsBatch
  <2>2. CASE call # r
    BY <1>1, <2>1, <2>2 DEF PushInv, CallIsBatch
  <2>3. CASE call = r
    BY <1>3, <2>1, <2>3 DEF PushInv, CallIsBatch, Contiguous, Pushing
  <2> QED
    BY <2>1, <2>2, <2>3
<1>12. PushInv' /\ LogInv'
  BY <1>1, <1>2, <1>7, <1>10, <1>11, PushFrame
<1> QED
  BY <1>9, <1>12

\* A commit moves the cursor only over rows the server had been sent.
LEMMA CommitOfSent ==
    ASSUME CInv, NEW r \in Requests, Commit(r), NEW s \in Ops, Sent(s)'
    PROVE  Sent(s)
<1> DEFINE q == request[r]
           Between == {u \in q.ops : s < u /\ u <= Furthest(q)}
<1> USE DEF CInv, CursorInv
<1>1. /\ lastApplied' = Furthest(q)
      /\ request' = [request EXCEPT ![r] = Free]
  BY DEF Commit
<1>2. /\ q \in Pushes /\ q.ops \subseteq Ops /\ q.from \in 0..MaxOp
      /\ request \in [Requests -> Pushes]
  BY DEF IInv, TypeOK, Pushes
<1>3. Furthest(q) \in {lastApplied} \cup Ok(q) /\ Furthest(q) \in 0..MaxOp
  BY <1>2, FurthestType
<1>4. CASE \E p \in Requests : s \in request'[p].ops
  BY <1>1, <1>2, <1>4 DEF Sent, Free, PushOf
<1>5. CASE s <= Furthest(q)
  <2> SUFFICES ASSUME ~(s <= lastApplied) PROVE s \in q.ops
    BY DEF Sent
  <2>1. /\ Furthest(q) \in Ok(q) /\ Furthest(q) \in q.ops
        /\ Furthest(q) \notin Blocked(q)
    BY <1>3, <1>5 DEF Ok
  <2>2. s \in Nat /\ lastApplied \in Nat /\ lastApplied < s /\ q.from <= lastApplied
    BY OpsAreNumbers DEF IInv, TypeOK, OriginInv, ReadsBelow
  <2>3. SUFFICES ASSUME s # Furthest(q) PROVE s \in q.ops
    BY <2>1
  <2>4. PICK u \in Between : \A v \in Between : u <= v
    <3>1. Between \subseteq Nat
      BY <1>2, OpsAreNumbers
    <3>2. Furthest(q) \in Between
      BY <1>3, <1>5, <2>1, <2>2, <2>3
    <3> HIDE DEF Between
    <3> QED
      BY <3>1, <3>2, LeastOf
  <2>5. u \in q.ops /\ s < u /\ u <= Furthest(q) /\ u \in Nat /\ u \in Ops
    BY <1>2, <2>4, OpsAreNumbers
  <2>6. ~Gap(q, u)
    BY <2>1, <2>5 DEF Blocked
  <2>7. u \notin q.seen
    <3> SUFFICES ASSUME u \in q.seen PROVE FALSE
      OBVIOUS
    <3>1. stored[u] > 0
      BY DEF IInv, ServerInv, InFlight
    <3>2. u <= lastApplied
      BY <2>5, <3>1 DEF OriginInv, StoredBelow
    <3> QED
      BY <2>2, <2>5, <3>2
  <2>8. u - 1 \in q.ops
    BY <1>2, <2>2, <2>5, <2>6, <2>7 DEF Gap
  <2>9. u - 1 = s
    <3> SUFFICES ASSUME s < u - 1 PROVE FALSE
      BY <2>2, <2>5
    <3>1. u - 1 \in Between
      BY <1>3, <2>2, <2>5, <2>8
    <3>2. u <= u - 1
      BY <2>4, <3>1
    <3> QED
      BY <2>5, <3>2
  <2> QED
    BY <2>8, <2>9
<1> QED
  BY <1>1, <1>4, <1>5 DEF Sent

\* The action Commit keeps the invariant: nothing clear of the batch is held
\* back, so the answer names all of it.
LEMMA CommitCursor ==
    ASSUME CInv, NEW r \in Requests, Commit(r)
    PROVE  CursorInv'
<1> USE DEF CInv, CursorInv
<1> DEFINE q == request[r]
<1>1. /\ q.state = "planned"
      /\ stored' = [s \in Ops |-> IF s \in Inserts(q) THEN stored[s] + 1 ELSE stored[s]]
      /\ lastApplied' = Furthest(q)
      /\ reply' = (IF call = r THEN Answer(q) ELSE reply)
      /\ request' = [request EXCEPT ![r] = Free]
      /\ UNCHANGED <<log, run>>
  BY DEF Commit
<1>2. /\ q \in Pushes /\ q.ops \subseteq Ops /\ q.from \in 0..MaxOp
      /\ request \in [Requests -> Pushes] /\ stored \in [Ops -> Nat]
      /\ lastApplied \in 0..MaxOp
  BY DEF IInv, TypeOK, Pushes
<1>3. /\ Furthest(q) \in 0..MaxOp
      /\ lastApplied <= Furthest(q)
      /\ \A m \in Ok(q) : m <= Furthest(q)
  BY <1>2, FurthestType
<1>4. /\ Free.ops = {} /\ Free.from = 0 /\ Free.state = "free"
      /\ \A p \in Requests : request'[p] = IF p = r THEN Free ELSE request[p]
  BY <1>1, <1>2 DEF Free, PushOf
<1>5. \A s : /\ Clear(s)' <=> Clear(s)
             /\ Pushable(s)' <=> Pushable(s)
             /\ Written(s)' <=> Written(s)
  BY <1>1 DEF Clear, Pushable, Written, log
<1>6. \A s \in Ops : stored'[s] > 0 => stored[s] > 0 \/ s \in Ok(q)
  BY <1>1 DEF Inserts
<1>7. OriginInv'
  <2>1. NoHoles'
    BY <1>5 DEF OriginInv, NoHoles
  <2>2. StoredPushable'
    <3>1. \A s \in Ok(q) : Pushable(s)
      BY DEF Ok, IInv, ServerInv, InFlight
    <3> QED
      BY <1>5, <1>6, <3>1 DEF OriginInv, StoredPushable
  <2>3. StoredBelow'
    <3>1. \A s \in Ops : s <= lastApplied => s <= Furthest(q)
      BY <1>2, <1>3, OpsAreNumbers
    <3> QED
      BY <1>1, <1>3, <1>6, <3>1 DEF OriginInv, StoredBelow
  <2>4. ReadsBelow'
    <3> SUFFICES ASSUME NEW p \in Requests PROVE request'[p].from <= Furthest(q)
      BY <1>1 DEF ReadsBelow
    <3>1. request[p].from \in Int /\ request[p].from <= lastApplied
      BY <1>2 DEF Pushes, OriginInv, ReadsBelow
    <3> QED
      BY <1>2, <1>3, <1>4, <3>1
  <2> QED
    BY <2>1, <2>2, <2>3, <2>4 DEF OriginInv
<1>8. AnswerBelow'
  <2>1. CASE call = r
    <3>1. call # None
      BY <2>1, DeviceSyncAssumption
    <3>2. /\ phase = "wait"
          /\ q.ops = Assessments(batch)
          /\ \A s \in batch : Clear(s) => s - 1 \in batch \/ s - 1 <= q.from
      BY <1>1, <2>1, <3>1 DEF PushInv, CallIsBatch
    <3>3. batch \subseteq Ops
      BY DEF IInv, TypeOK
    <3>4. ASSUME NEW s \in batch, Clear(s) PROVE s \in Ok(q) \cup Refused(q)
      <4>1. s \in Ops /\ s \in 1..s
        BY <3>3, OpsAreNumbers DEF Ops
      <4>2. s \in q.ops
        BY <3>2, <3>4, <4>1 DEF Assessments, Clear, Pushable
      <4>3. ASSUME NEW t \in q.ops, t <= s, Gap(q, t) PROVE FALSE
        <5>1. t \in batch /\ t \in Ops /\ t \in 1..s
          BY <1>2, <3>2, <4>1, <4>3, OpsAreNumbers DEF Assessments, Ops
        <5>2. Clear(t)
          BY <3>4, <4>1, <5>1, ClearDown
        <5>3. t > q.from + 1 /\ t - 1 \notin q.ops
          BY <4>3 DEF Gap
        <5>4. t - 1 \in batch
          BY <1>2, <3>2, <5>1, <5>2, <5>3, OpsAreNumbers
        <5>5. t - 1 \in 1..t
          BY <3>3, <5>1, <5>4, OpsAreNumbers DEF Ops
        <5>6. Pushable(t - 1)
          BY <5>2, <5>5 DEF Clear
        <5> QED
          BY <3>2, <5>3, <5>4, <5>6 DEF Assessments, Pushable
      <4> QED
        BY <4>2, <4>3 DEF Ok, Refused, Blocked
    <3>5. reply'.cursor = Furthest(q) /\ reply'.ok = Ok(q) /\ reply'.refused = Refused(q)
      BY <1>1, <2>1 DEF Answer
    <3> HIDE DEF q
    <3> QED
      BY <1>1, <1>3, <1>5, <3>2, <3>4, <3>5 DEF AnswerBelow, run
  <2>2. CASE call # r
    <3> SUFFICES ASSUME reply # None
                 PROVE  /\ phase = "wait"
                        /\ reply.cursor <= Furthest(q)
                        /\ \A s \in reply.ok : s <= Furthest(q)
                        /\ \A s \in batch : Clear(s) => s \in reply.ok \cup reply.refused
      BY <1>1, <1>5, <2>2 DEF AnswerBelow, run
    <3>1. /\ phase = "wait"
          /\ reply.cursor <= lastApplied
          /\ \A s \in reply.ok : s <= lastApplied
          /\ \A s \in batch : Clear(s) => s \in reply.ok \cup reply.refused
      BY DEF PushInv, AnswerBelow
    <3>2. reply \in Replies
      BY DEF IInv, TypeOK
    <3>3. reply.cursor \in 0..MaxOp /\ reply.ok \subseteq Ops
      BY <3>2 DEF Replies
    <3>4. lastApplied \in Int /\ Furthest(q) \in Int
      BY <1>2, <1>3
    <3>5. reply.cursor <= Furthest(q)
      BY <1>3, <3>1, <3>3, <3>4
    <3>6. ASSUME NEW s \in reply.ok PROVE s <= Furthest(q)
      <4>1. s \in Int
        <5>1. s \in Ops
          BY <3>3
        <5> QED
          BY <5>1, OpsAreNumbers
      <4>2. s <= lastApplied
        BY <3>1
      <4> QED
        BY <1>3, <3>4, <4>1, <4>2
    <3> QED
      BY <3>1, <3>5, <3>6
  <2> QED
    BY <2>1, <2>2
<1>9. CallIsBatch'
  <2>1. call \in Requests \cup {None}
    BY DEF IInv, TypeOK
  <2>2. Assessments(batch)' = Assessments(batch)
    BY <1>1 DEF Assessments, log, run
  <2> HIDE DEF q
  <2> QED
    BY <1>1, <1>4, <1>5, <2>1, <2>2 DEF PushInv, CallIsBatch, run
<1>10. PushInv' /\ LogInv'
  BY <1>1, <1>3, <1>8, <1>9, CommitOfSent, PushFrame
<1> QED
  BY <1>7, <1>10

-------------------------------------------------------------------------------
\* Every step keeps the invariant.
LEMMA NextCInv == CInv /\ [Next]_vars => CInv'
<1> SUFFICES ASSUME CInv, [Next]_vars PROVE CInv'
  OBVIOUS
<1>1. IInv'
  BY NextIInv DEF CInv
<1>2. ASSUME NEW s \in Ops, NEW k \in Kinds, Append(s, k) PROVE CursorInv'
  BY <1>2, AppendCursor
<1>3. ASSUME Start \/ Claim \/ Receive PROVE CursorInv'
  BY <1>3, StartCursor, ClaimCursor, ReceiveCursor
<1>4. ASSUME EndBatch \/ Record \/ Kill \/ GiveUp PROVE CursorInv'
  BY <1>4, EndCursor, GiveUpCursor
<1>5. ASSUME NEW r \in Requests, Push(r) \/ Serve(r) \/ CutOff(r) PROVE CursorInv'
  BY <1>5, PushCursor, ServeCursor, CommitCursor DEF Serve
<1>6. ASSUME NEW s \in Ops, Submit(s) \/ RefuseReport(s) PROVE CursorInv'
  BY <1>6, ReportCursor
<1>7. ASSUME Submitted PROVE CursorInv'
  <2>1. single \in Ops
    BY <1>7 DEF Submitted, CInv, IInv, TypeOK, DeviceInv, OneSubmission
  <2> QED
    BY <1>7, <2>1, ReportCursor
<1>8. ASSUME UNCHANGED vars PROVE CursorInv'
  BY <1>8 DEF vars, log, run, server, bounds, CInv, CursorInv,
     OriginInv, NoHoles, StoredPushable, StoredBelow, ReadsBelow,
     PushInv, AnswerBelow, CallIsBatch, BatchSyncing, Contiguous, BatchInReach, Carried,
     LogInv, Waits, Jam, JamAhead, SyncedBelow, CurAnswered, NothingBehindCursor,
     Pushing, Written, Pushable, Clear, Sent, Ans, Reach, Unanswered, Assessments
<1> QED
  BY <1>1, <1>2, <1>3, <1>4, <1>5, <1>6, <1>7, <1>8 DEF Next, Proceed, CInv

\* It holds to begin with.
LEMMA InitCInv == Init => CInv
<1> SUFFICES ASSUME Init PROVE CursorInv
  BY InitIInv DEF CInv
<1>1. \A s \in Ops : kind[s] = "none" /\ status[s] = "absent" /\ stored[s] = 0
  BY DEF Init
<1>2. \A s \in Ops : s \in 1..s /\ ~(s <= 0)
  BY OpsAreNumbers DEF Ops
<1>3. \A s \in Ops : ~Clear(s)
  BY <1>1, <1>2 DEF Clear, Pushable
<1>4. OriginInv
  BY <1>1 DEF Init, Free, PushOf, OriginInv, NoHoles, StoredPushable, StoredBelow,
              ReadsBelow, Written
<1>5. PushInv
  BY DEF Init, PushInv, AnswerBelow, CallIsBatch, BatchSyncing, Contiguous, BatchInReach,
         Carried, Pushing
<1>6. LogInv
  BY <1>1, <1>2, <1>3 DEF Init, LogInv, Waits, Jam, JamAhead, SyncedBelow, CurAnswered,
                          NothingBehindCursor
<1> QED
  BY <1>4, <1>5, <1>6 DEF CursorInv

\* The cursor the device records never covers a row it has no answer for,
\* whatever requests were given up, late or repeated.
THEOREM CursorCorrect == Spec => []NothingBehindCursor
<1>1. CInv => NothingBehindCursor
  BY DEF CInv, CursorInv, LogInv
<1> QED
  BY <1>1, InitCInv, NextCInv, PTL DEF Spec

-------------------------------------------------------------------------------
(* What the device believes of the server.  Its cursor, the copy of a run  *)
(* and the one in an answer are never ahead of the server's, and each is   *)
(* at least the one before it; an answer is about rows of the batch only.  *)

BelievesLess == cursor <= lastApplied /\ cur <= lastApplied
RunAhead == phase # "idle" => cursor <= cur
AnswerAhead == reply # None => cursor <= reply.cursor
AnswerOfBatch == reply # None => reply.ok \cup reply.refused \subseteq batch

BeliefInv == BelievesLess /\ RunAhead /\ AnswerAhead /\ AnswerOfBatch
BInv == CInv /\ BeliefInv

\* The numbers these are about.
LEMMA CursorsAreNumbers ==
    ASSUME BInv
    PROVE  /\ cursor \in Nat /\ cur \in Nat /\ lastApplied \in Nat
           /\ reply # None =>
                /\ phase = "wait"
                /\ reply.cursor \in Nat /\ reply.cursor <= lastApplied
                /\ reply.ok \subseteq Ops /\ reply.refused \subseteq Ops
<1>1. cursor \in Nat /\ cur \in Nat /\ lastApplied \in Nat
  BY OpsAreNumbers DEF BInv, CInv, IInv, TypeOK
<1>2. reply # None => reply \in Replies
  BY DEF BInv, CInv, IInv, TypeOK
<1>3. reply # None =>
         reply.cursor \in Nat /\ reply.ok \subseteq Ops /\ reply.refused \subseteq Ops
  BY <1>2, OpsAreNumbers DEF Replies
<1>4. reply # None => phase = "wait" /\ reply.cursor <= lastApplied
  BY DEF BInv, CInv, CursorInv, PushInv, AnswerBelow
<1> QED
  BY <1>1, <1>3, <1>4

\* The action Commit keeps it: the answer is about what the push carried.
LEMMA CommitBelief ==
    ASSUME BInv, NEW r \in Requests, Commit(r)
    PROVE  BeliefInv'
<1> DEFINE q == request[r]
<1>1. /\ lastApplied' = Furthest(q)
      /\ reply' = (IF call = r THEN Answer(q) ELSE reply)
      /\ UNCHANGED <<cursor, cur, phase, batch>>
      /\ q.state = "planned"
  BY DEF Commit, log, run
<1>2. q \in Pushes /\ IInv
  BY DEF BInv, CInv, IInv, TypeOK
<1>3. Furthest(q) \in Nat /\ lastApplied <= Furthest(q)
  BY <1>2, FurthestType, OpsAreNumbers
<1>4. cursor \in Nat /\ cur \in Nat /\ lastApplied \in Nat
  BY CursorsAreNumbers
<1>5. cursor <= lastApplied /\ cur <= lastApplied
  BY DEF BInv, BeliefInv, BelievesLess
<1>6. cursor <= Furthest(q) /\ cur <= Furthest(q)
  BY <1>3, <1>4, <1>5
<1>7. BelievesLess' /\ RunAhead'
  BY <1>1, <1>6 DEF BelievesLess, RunAhead, BInv, BeliefInv
<1>8. AnswerAhead' /\ AnswerOfBatch'
  <2>1. CASE call = r
    <3>1. call # None
      BY <2>1, DeviceSyncAssumption
    <3>2. q.ops = Assessments(batch)
      BY <1>1, <2>1, <3>1 DEF BInv, CInv, CursorInv, PushInv, CallIsBatch
    <3>3. Ok(q) \cup Refused(q) \subseteq batch
      BY <3>2 DEF Ok, Refused, Assessments
    <3>4. /\ reply'.cursor = Furthest(q)
          /\ reply'.ok = Ok(q) /\ reply'.refused = Refused(q)
      BY <1>1, <2>1 DEF Answer
    <3> HIDE DEF q
    <3> QED
      BY <1>1, <1>6, <3>3, <3>4 DEF AnswerAhead, AnswerOfBatch
  <2>2. CASE call # r
    BY <1>1, <2>2 DEF AnswerAhead, AnswerOfBatch, BInv, BeliefInv
  <2> QED
    BY <2>1, <2>2
<1> QED
  BY <1>7, <1>8 DEF BeliefInv

\* Every other step keeps it.
LEMMA NextBelief ==
    ASSUME BInv, [Next]_vars
    PROVE  BeliefInv'
<1> USE DEF BeliefInv, BelievesLess, RunAhead, AnswerAhead, AnswerOfBatch
<1>1. BeliefInv
  BY DEF BInv
<1>2. /\ cursor \in Nat /\ cur \in Nat /\ lastApplied \in Nat
      /\ reply # None => phase = "wait" /\ reply.cursor <= lastApplied
  BY CursorsAreNumbers
<1>3. ASSUME NEW s \in Ops, NEW k \in Kinds, Append(s, k) PROVE BeliefInv'
  BY <1>1, <1>3 DEF Append, run, server
<1>4. ASSUME Start PROVE BeliefInv'
  BY <1>1, <1>2, <1>4 DEF Start, log, server
<1>5. ASSUME Claim PROVE BeliefInv'
  BY <1>1, <1>2, <1>5 DEF Claim, server
<1>6. ASSUME Receive PROVE BeliefInv'
  BY <1>1, <1>2, <1>6 DEF Receive, server
<1>7. ASSUME Submitted \/ EndBatch PROVE BeliefInv'
  BY <1>1, <1>2, <1>7 DEF Submitted, EndBatch, log, server
<1>8. ASSUME Record PROVE BeliefInv'
  BY <1>1, <1>2, <1>8 DEF Record, Forget, server
<1>9. ASSUME GiveUp \/ Kill PROVE BeliefInv'
  BY <1>1, <1>2, <1>9 DEF GiveUp, Kill, Forget, log, server
<1>10. ASSUME NEW r \in Requests, Push(r) PROVE BeliefInv'
  BY <1>1, <1>2, <1>10 DEF Push, log, server
<1>11. ASSUME NEW s \in Ops, Submit(s) \/ RefuseReport(s) PROVE BeliefInv'
  BY <1>1, <1>2, <1>11 DEF Submit, RefuseReport, log, run, server
<1>12. ASSUME NEW r \in Requests, LockCursor(r) \/ ReadStored(r) \/ CutOff(r)
       PROVE  BeliefInv'
  BY <1>1, <1>12 DEF LockCursor, ReadStored, CutOff, log, run, server
<1>13. ASSUME NEW r \in Requests, Commit(r) PROVE BeliefInv'
  BY <1>13, CommitBelief
<1>14. ASSUME UNCHANGED vars PROVE BeliefInv'
  BY <1>1, <1>14 DEF vars, log, run, server
<1> HIDE DEF BeliefInv
<1> QED
  BY <1>3, <1>4, <1>5, <1>6, <1>7, <1>8, <1>9, <1>10, <1>11, <1>12, <1>13, <1>14
  DEF Next, Proceed, Serve

\* The cursors start equal.
LEMMA BeliefHolds == Spec => []BInv
<1>1. Init => BInv
  <2>1. Init => BeliefInv
    BY DEF Init, BeliefInv, BelievesLess, RunAhead, AnswerAhead, AnswerOfBatch
  <2> QED
    BY <2>1, InitCInv DEF BInv
<1>2. BInv /\ [Next]_vars => BInv'
  <2> SUFFICES ASSUME BInv, [Next]_vars PROVE BInv'
    OBVIOUS
  <2>1. CInv'
    BY NextCInv DEF BInv
  <2>2. BeliefInv'
    BY NextBelief
  <2> QED
    BY <2>1, <2>2 DEF BInv
<1> QED
  BY <1>1, <1>2, PTL DEF Spec

\* The device never believes the server further than it is.
THEOREM CursorIsBehind == Spec => []CursorBehindServer
<1>1. BInv => CursorBehindServer
  BY DEF BInv, BeliefInv, BelievesLess, CursorBehindServer
<1> QED
  BY <1>1, BeliefHolds, PTL

\* Only the end of a run writes the cursor.
LEMMA CursorStep ==
    ASSUME [Next]_vars
    PROVE  cursor' = cursor \/ Record
BY DEF Next, Proceed, Serve, vars, log, run, server, bounds, Append, Start, Claim, Push,
       Receive, Submit, Submitted, RefuseReport, EndBatch, GiveUp, Kill, LockCursor,
       ReadStored, Commit, CutOff

\* The cursor a device keeps never goes back, whatever runs are cut short and
\* whatever answers come late.
THEOREM CursorNeverGoesBack == Spec => CursorGrows
<1>1. BInv /\ [Next]_vars => [cursor <= cursor']_vars
  <2> SUFFICES ASSUME BInv, [Next]_vars PROVE cursor <= cursor'
    OBVIOUS
  <2>1. cursor \in Nat
    BY CursorsAreNumbers
  <2>2. CASE cursor' = cursor
    BY <2>1, <2>2
  <2>3. CASE Record
    BY <2>3 DEF Record, BInv, BeliefInv, RunAhead
  <2> QED
    BY <2>2, <2>3, CursorStep
<1> QED
  BY <1>1, BeliefHolds, PTL DEF Spec, CursorGrows

\* What an answer writes concerns rows that were waiting for it.
LEMMA StatusStep ==
    ASSUME BInv, [Next]_vars, NEW s \in Ops, Delivered(s)
    PROVE  status'[s] = status[s]
<1>1. status \in [Ops -> Statuses] /\ batch \subseteq Ops
  BY DEF BInv, CInv, IInv, TypeOK
<1>2. status[s] \in {"synced", "conflict"}
  BY DEF Delivered
<1>3. ASSUME NEW t \in Ops, NEW k \in Kinds, Append(t, k) PROVE status'[s] = status[s]
  BY <1>1, <1>2, <1>3 DEF Append
<1>4. ASSUME Claim PROVE status'[s] = status[s]
  BY <1>1, <1>2, <1>4 DEF Claim, Marked, PlanBatch, Candidates, Sendable
<1>5. ASSUME Receive PROVE status'[s] = status[s]
  <2>1. phase = "wait" /\ reply # None /\ status' = Answered
    BY <1>5 DEF Receive
  <2>2. s \notin batch
    BY <1>2, <2>1 DEF BInv, CInv, CursorInv, PushInv, BatchSyncing, Pushing
  <2>3. reply.ok \cup reply.refused \subseteq batch
    BY <2>1 DEF BInv, BeliefInv, AnswerOfBatch
  <2> QED
    BY <2>1, <2>2, <2>3 DEF Answered, Assessments
<1>6. ASSUME Submitted PROVE status'[s] = status[s]
  <2>1. single # s
    BY <1>2, <1>6 DEF Submitted, BInv, CInv, IInv, DeviceInv, OneSubmission
  <2> QED
    BY <1>6, <2>1 DEF Submitted, Marked
<1>7. ASSUME NEW t \in Ops, RefuseReport(t) PROVE status'[s] = status[s]
  BY <1>2, <1>7 DEF RefuseReport, Marked, Singles
<1>8. ASSUME GiveUp PROVE status'[s] = status[s]
  BY <1>2, <1>8 DEF GiveUp, Released, Marked
<1>9. ASSUME \/ Start \/ EndBatch \/ Record \/ Kill \/ UNCHANGED vars
             \/ \E r \in Requests : Push(r) \/ Serve(r) \/ CutOff(r)
             \/ \E t \in Ops : Submit(t)
      PROVE  status'[s] = status[s]
  BY <1>9 DEF Start, EndBatch, Record, Kill, vars, log, Push, Serve, LockCursor, ReadStored,
              Commit, CutOff, Submit
<1> QED
  BY <1>3, <1>4, <1>5, <1>6, <1>7, <1>8, <1>9 DEF Next, Proceed

\* A row that was answered is never sent, released or answered again.
THEOREM AnswersAreFinal == Spec => AnsweredStays
<1>1. BInv /\ [Next]_vars => [\A s \in Ops : Delivered(s) => status'[s] = status[s]]_vars
  BY StatusStep
<1> QED
  BY <1>1, BeliefHolds, PTL DEF Spec, AnsweredStays

-------------------------------------------------------------------------------
(* The device's assessments on record as an append-only log.  Read in the  *)
(* order of their numbers they are linear whatever they are; what makes    *)
(* the record a log is that an insert comes after all that is there, for   *)
(* everything at or below the server's cursor is on record or refused.     *)

\* The log over a set of numbers.
Prev(R, s) ==
    CHOOSE n \in {0} \cup {t \in R : t < s} : \A m \in R : m < s => m <= n
LogOf(R) == {[seq |-> s, prev |-> Prev(R, s)] : s \in R}

\* The number before s is the greatest one below it, or 0.
LEMMA PrevIs ==
    ASSUME NEW R, R \subseteq Ops, NEW s \in R
    PROVE  /\ Prev(R, s) \in {0} \cup {t \in R : t < s}
           /\ \A m \in R : m < s => m <= Prev(R, s)
<1> DEFINE T == {0} \cup {t \in R : t < s}
<1>1. T \subseteq 0..MaxOp /\ T # {}
  <2>1. 0 \in 0..MaxOp /\ R \subseteq 0..MaxOp
    BY OpsAreNumbers
  <2> QED
    BY <2>1
<1>2. PICK n \in T : \A m \in T : m <= n
  <2> HIDE DEF T
  <2> QED
    BY <1>1, GreatestOf, OpsAreNumbers
<1>3. \A m \in R : m < s => m <= n
  BY <1>2
<1> QED
  BY <1>3 DEF Prev

\* Its numbers are those of the set.
LEMMA LogHas ==
    ASSUME NEW R, R \subseteq Ops
    PROVE  /\ \A e \in LogOf(R) : /\ e.seq \in R /\ e.seq \in Nat \ {0}
                                  /\ e.prev = Prev(R, e.seq) /\ e.prev \in Nat
                                  /\ e = [seq |-> e.seq, prev |-> e.prev]
           /\ \A s \in R : \E e \in LogOf(R) : e.seq = s
<1>1. ASSUME NEW s \in R PROVE s \in Nat \ {0} /\ Prev(R, s) \in Nat
  <2>1. s \in Nat \ {0} /\ \A t \in R : t \in Nat
    BY OpsAreNumbers
  <2>2. Prev(R, s) \in {0} \cup {t \in R : t < s}
    BY PrevIs
  <2>3. CASE Prev(R, s) = 0
    BY <2>1, <2>3
  <2>4. CASE Prev(R, s) \in R
    BY <2>1, <2>4
  <2> QED
    BY <2>2, <2>3, <2>4
<1>2. ASSUME NEW e \in LogOf(R)
      PROVE  /\ e.seq \in R /\ e.seq \in Nat \ {0}
             /\ e.prev = Prev(R, e.seq) /\ e.prev \in Nat
             /\ e = [seq |-> e.seq, prev |-> e.prev]
  <2>1. PICK s \in R : e = [seq |-> s, prev |-> Prev(R, s)]
    BY DEF LogOf
  <2> QED
    BY <1>1, <2>1
<1>3. ASSUME NEW s \in R PROVE \E e \in LogOf(R) : e.seq = s
  <2> DEFINE e == [seq |-> s, prev |-> Prev(R, s)]
  <2>1. e \in LogOf(R)
    BY DEF LogOf
  <2>2. e.seq = s
    OBVIOUS
  <2> HIDE DEF e
  <2> QED
    BY <2>1, <2>2
<1> QED
  BY <1>2, <1>3

\* It is linear.
LEMMA LogIsLinear ==
    ASSUME NEW R, R \subseteq Ops
    PROVE  ServerLog!Linear(LogOf(R))
<1>1. ASSUME NEW d \in LogOf(R), NEW e \in LogOf(R), d.seq = e.seq PROVE d = e
  BY <1>1, LogHas
<1>2. ASSUME NEW e \in LogOf(R)
      PROVE  ServerLog!IsTail(e.prev, ServerLog!Before(e, LogOf(R)))
  <2> DEFINE B == ServerLog!Before(e, LogOf(R))
  <2>1. \A d : d \in B <=> d \in LogOf(R) /\ d.seq < e.seq
    BY DEF ServerLog!Before
  <2>2. /\ e.seq \in R /\ e.prev = Prev(R, e.seq) /\ e.seq \in Nat
        /\ \A s \in R : s \in Nat
    BY LogHas, OpsAreNumbers
  <2>3. /\ e.prev \in {0} \cup {t \in R : t < e.seq}
        /\ \A m \in R : m < e.seq => m <= e.prev
    BY <2>2, PrevIs
  <2>4. \A d \in B : d.seq \in R /\ d.seq < e.seq /\ d.seq \in Nat \ {0}
    BY <2>1, LogHas
  <2>5. \A d \in B : d.seq <= e.prev
    BY <2>3, <2>4
  <2>6. CASE e.prev = 0
    <3>1. B = {}
      BY <2>4, <2>5, <2>6
    <3> QED
      BY <2>6, <3>1 DEF ServerLog!IsTail, ServerLog!Genesis
  <2>7. CASE e.prev \in R /\ e.prev < e.seq
    <3>1. PICK d \in LogOf(R) : d.seq = e.prev
      BY <2>7, LogHas
    <3>2. d \in B
      BY <2>1, <2>7, <3>1
    <3>3. \A c \in B : c.seq <= e.prev
      BY <2>5
    <3> HIDE DEF B
    <3>4. ServerLog!IsTail(e.prev, B)
      BY <3>1, <3>2, <3>3 DEF ServerLog!IsTail
    <3> QED
      BY <3>4 DEF B
  <2> QED
    BY <2>3, <2>6, <2>7
<1> QED
  BY <1>1, <1>2 DEF ServerLog!Linear

\* More numbers, all behind those that are there, make a longer log.
LEMMA LogGrows ==
    ASSUME NEW R, NEW S, R \subseteq S, S \subseteq Ops,
           \A s \in S \ R, t \in R : t < s
    PROVE  /\ LogOf(R) \subseteq LogOf(S)
           /\ \A e \in LogOf(S) \ LogOf(R), d \in LogOf(R) : d.seq < e.seq
<1>1. ASSUME NEW s \in R PROVE Prev(R, s) = Prev(S, s)
  <2>1. \A t \in S : t < s => t \in R
    <3> SUFFICES ASSUME NEW t \in S, t < s, t \notin R PROVE FALSE
      OBVIOUS
    <3>1. s < t /\ s \in Nat /\ t \in Nat
      BY OpsAreNumbers
    <3> QED
      BY <3>1
  <2>2. {t \in R : t < s} = {t \in S : t < s}
    BY <2>1
  <2>3. \A n : (\A m \in R : m < s => m <= n) <=> (\A m \in S : m < s => m <= n)
    BY <2>1
  <2> QED
    BY <2>2, <2>3 DEF Prev
<1>2. LogOf(R) \subseteq LogOf(S)
  BY <1>1 DEF LogOf
<1>3. ASSUME NEW e \in LogOf(S) \ LogOf(R), NEW d \in LogOf(R) PROVE d.seq < e.seq
  <2>1. e.seq \in S /\ d.seq \in R
    BY LogHas
  <2>2. e.seq \notin R
    <3> SUFFICES ASSUME e.seq \in R PROVE FALSE
      OBVIOUS
    <3>1. e = [seq |-> e.seq, prev |-> Prev(R, e.seq)]
      BY <1>1, LogHas
    <3> QED
      BY <3>1 DEF LogOf
  <2> QED
    BY <2>1, <2>2
<1> QED
  BY <1>2, <1>3

\* What a push inserts comes after everything on record.
LEMMA InsertsAreLast ==
    ASSUME CInv, [Next]_vars
    PROVE  /\ OnRecord(Ops) \subseteq OnRecord(Ops)'
           /\ \A s \in OnRecord(Ops)' \ OnRecord(Ops), t \in OnRecord(Ops) : t < s
<1>1. CASE stored' = stored
  BY <1>1 DEF OnRecord
<1>2. ASSUME NEW r \in Requests, Commit(r)
      PROVE  /\ OnRecord(Ops) \subseteq OnRecord(Ops)'
             /\ \A s \in OnRecord(Ops)' \ OnRecord(Ops), t \in OnRecord(Ops) : t < s
  <2> DEFINE q == request[r]
  <2>1. stored' = [s \in Ops |-> IF s \in Inserts(q) THEN stored[s] + 1 ELSE stored[s]]
    BY <1>2 DEF Commit
  <2>2. /\ stored \in [Ops -> Nat] /\ q \in Pushes /\ q.from \in Nat
        /\ lastApplied \in Nat
    BY OpsAreNumbers DEF CInv, IInv, TypeOK, Pushes
  <2>3. OnRecord(Ops) \subseteq OnRecord(Ops)'
    BY <2>1, <2>2 DEF OnRecord
  <2>4. ASSUME NEW s \in OnRecord(Ops)', s \notin OnRecord(Ops) PROVE lastApplied < s
    <3>1. s \in Ops /\ stored[s] = 0 /\ s \in Inserts(q) /\ s \in Nat /\ s >= 1
      BY <2>1, <2>2, <2>4, OpsAreNumbers DEF OnRecord, Ops
    <3>2. s \in Ok(q)
      BY <3>1 DEF Inserts
    <3>3. s \notin q.seen
      BY <3>1 DEF CInv, IInv, ServerInv, InFlight
    <3>4. kind[s] # "unlisted"
      BY <3>2, <3>3 DEF Ok, Refused
    <3>5. ~Settled(s)
      BY <3>1, <3>4 DEF Settled
    <3>6. s \notin 1..lastApplied
      BY <3>5 DEF CInv, IInv, ServerInv, Covered
    <3> QED
      BY <2>2, <3>1, <3>6
  <2>5. \A t \in OnRecord(Ops) : t \in Nat /\ t <= lastApplied
    BY OpsAreNumbers DEF OnRecord, CInv, CursorInv, OriginInv, StoredBelow
  <2>6. \A s \in OnRecord(Ops)' : s \in Nat
    BY OpsAreNumbers DEF OnRecord
  <2> HIDE DEF q
  <2> QED
    BY <2>2, <2>3, <2>4, <2>5, <2>6
<1>3. stored' = stored \/ \E r \in Requests : Commit(r)
  BY DEF Next, Proceed, Serve, vars, log, run, server, bounds, Append, Start, Claim, Push,
         Receive, Submit, Submitted, RefuseReport, EndBatch, Record, GiveUp, Kill,
         LockCursor, ReadStored, CutOff
<1> QED
  BY <1>1, <1>2, <1>3

\* What the server keeps of a device is an append-only log in the order the
\* officer wrote it, however its pushes were repeated, cut off or reordered.
THEOREM ServerRecordIsALog == Spec => ServerKeepsLog
<1> DEFINE R == OnRecord(Ops)
           Log == {[seq |-> s, prev |-> Previous(s)] : s \in OnRecord(Ops)}
<1>1. Log = LogOf(R) /\ Log' = LogOf(R')
  BY DEF LogOf, Prev, Previous
<1>2. R \subseteq Ops /\ R' \subseteq Ops
  BY DEF OnRecord
<1>3. Init => Log = {}
  BY DEF Init, OnRecord
<1>4. CInv /\ [Next]_vars => [ServerLog!Publish]_Log
  <2> SUFFICES ASSUME CInv, [Next]_vars, Log' # Log PROVE ServerLog!Publish
    OBVIOUS
  <2>1. R \subseteq R' /\ \A s \in R' \ R, t \in R : t < s
    BY InsertsAreLast
  <2>2. ServerLog!Linear(LogOf(R'))
    BY <1>2, LogIsLinear
  <2> HIDE DEF R
  <2>3. /\ LogOf(R) \subseteq LogOf(R')
        /\ \A e \in LogOf(R') \ LogOf(R), d \in LogOf(R) : d.seq < e.seq
    BY <1>2, <2>1, LogGrows
  <2>4. LogOf(R') \subseteq ServerLog!Entry
    BY <1>2, LogHas DEF ServerLog!Entry, ServerLog!Genesis
  <2> HIDE DEF Log
  <2>5. /\ Log' # Log /\ Log \subseteq Log' /\ Log' \subseteq ServerLog!Entry
        /\ \A e \in Log' \ Log, d \in Log : d.seq < e.seq
        /\ ServerLog!Linear(Log')
    BY <1>1, <2>2, <2>3, <2>4
  <2> QED
    BY <2>5 DEF ServerLog!Publish, Log
<1> QED
  BY <1>3, <1>4, InitCInv, NextCInv, PTL
  DEF Spec, ServerKeepsLog, ServerLog!LogSpec, ServerLog!LogInit
===============================================================================
