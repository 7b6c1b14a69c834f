------------------------- MODULE IncidentQueueProofs -------------------------
(***************************************************************************)
(* Proofs about IncidentQueue, for any incidents, requests and reports.    *)
(*                                                                         *)
(* The argument: a request that opens an incident has gone through every   *)
(* open one it could see, but for those its query put behind Limit others; *)
(* what it could see is committed or goes when its own incident goes, and  *)
(* neither the reports that opened them nor what was once closed changes.  *)
(***************************************************************************)
EXTENDS IncidentQueue, FiniteSetTheorems, SequenceTheorems, TLAPS

\* A closed incident is remembered as one.
ClosedIsRemembered == \A i \in Incidents : status[i] \in Closed => i \in closed

\* What people act on is committed, and only a merge folds.
PendingExists ==
    \A q \in Requests :
        /\ op[q].kind \in {"change", "merge"} => Exists(op[q].incident)
        /\ pc[q] = "fold" => op[q].kind = "merge"

\* A row that is not committed is new, and belongs to one transaction.
RowsHold ==
    \A q \in Requests : \A i \in rows[q] :
        /\ status[i] = "REPORTED"
        /\ \A r \in Requests : i \in rows[r] => r = q
OnlyIntakeInserts == \A q \in Requests : pc[q] # "accept" => rows[q] = {}

\* What a request could see is committed, or will be together with its own.
Together(i, j) == Exists(i) \/ \E q \in Requests : i \in rows[q] /\ j \in rows[q]
SawHolds ==
    \A j \in Incidents : status[j] # Absent => \A i \in origin[j].saw : Together(i, j)

\* Reports are to come in submissions only.
OnlySubmissions ==
    \A q \in Requests : todo[q] # <<>> => op[q].kind = "submit" /\ pc[q] = "accept"

IInv ==
    /\ TypeOK
    /\ ClosedIsRemembered
    /\ PendingExists
    /\ RowsHold
    /\ OnlyIntakeInserts
    /\ SawHolds
    /\ SecondHasAReason

-------------------------------------------------------------------------------
\* What a request that has begun asks for.
LEMMA Kinds ==
    ASSUME TypeOK, NEW q \in Requests
    PROVE  /\ op[q].kind \in {"none", "submit", "change", "merge"}
           /\ op[q].kind = "submit" => op[q].at \in Int
           /\ op[q].kind = "change" => op[q].incident \in Incidents /\ op[q].to \in IncidentStatuses
           /\ op[q].kind = "merge" => op[q].incident \in Incidents /\ op[q].into \in Incidents
<1>1. \/ op[q] = NoOp
      \/ op[q] \in [kind : {"submit"}, batch : Batches, at : Int]
      \/ op[q] \in [kind : {"change"}, incident : Incidents, to : IncidentStatuses]
      \/ op[q] \in [kind : {"merge"}, incident : Incidents, into : Incidents]
  BY DEF TypeOK, Ops
<1> QED
  BY <1>1 DEF NoOp

\* What exists has a status and was opened by a report.
LEMMA ExistsHasOrigin ==
    ASSUME TypeOK, NEW i \in Incidents, status[i] # Absent
    PROVE  /\ status[i] \in IncidentStatuses
           /\ origin[i] \in Origins
           /\ origin[i].key \in Keys /\ origin[i].first \in Int /\ origin[i].looked \in Int
           /\ origin[i].saw \subseteq Incidents
<1>1. origin[i] \in Origins /\ status[i] \in IncidentStatuses
  BY DEF TypeOK
<1> QED
  BY <1>1 DEF Origins

\* The end of a transaction keeps the types of what it resets.
LEMMA EndKeepsTypes ==
    ASSUME TypeOK, NEW q \in Requests, End(q)
    PROVE  /\ op' \in [Requests -> Ops]
           /\ pc' \in [Requests -> {"idle", "accept", "write", "fold"}]
           /\ todo' \in [Requests -> Seq(Keys)]
           /\ rows' \in [Requests -> SUBSET Incidents]
           /\ locks' \in [Requests -> SUBSET Incidents]
           /\ op'[q].kind = "none" /\ pc'[q] = "idle" /\ rows'[q] = {}
           /\ \A p \in Requests \ {q} :
                  op'[p] = op[p] /\ pc'[p] = pc[p] /\ rows'[p] = rows[p]
<1>1. <<>> \in Seq(Keys) /\ NoOp \in Ops /\ NoOp.kind = "none"
  BY EmptySeq DEF Ops, NoOp
<1> QED
  BY <1>1 DEF TypeOK, End

\* The beginning of one keeps them.
LEMMA StartKeepsTypes ==
    ASSUME TypeOK, NEW q \in Requests, NEW o \in Ops, NEW phase \in {"accept", "write"},
           Start(q, o, phase)
    PROVE  /\ op' \in [Requests -> Ops]
           /\ pc' \in [Requests -> {"idle", "accept", "write", "fold"}]
           /\ op'[q] = o /\ pc'[q] = phase
           /\ \A p \in Requests \ {q} : op'[p] = op[p] /\ pc'[p] = pc[p]
BY DEF TypeOK, Start

\* Handling one report leaves one less to come.
LEMMA TakeKeepsTypes ==
    ASSUME TypeOK, NEW q \in Requests, todo[q] # <<>>, Take(q)
    PROVE  todo' \in [Requests -> Seq(Keys)] /\ Next1(q) \in Keys
<1>1. todo[q] \in Seq(Keys)
  BY DEF TypeOK
<1>2. Tail(todo[q]) \in Seq(Keys) /\ Head(todo[q]) \in Keys
  BY <1>1, HeadTailProperties
<1> QED
  BY <1>2 DEF TypeOK, Take, Next1

LEMMA InitIInv == Init => IInv
<1> SUFFICES ASSUME Init PROVE IInv
  OBVIOUS
<1>1. <<>> \in Seq(Keys) /\ NoOp \in Ops
  BY EmptySeq DEF Ops
<1>2. TypeOK
  BY <1>1 DEF Init, TypeOK
<1>3. ClosedIsRemembered
  BY QueueAssumption DEF Init, ClosedIsRemembered, Closed, IncidentStatuses
<1>4. PendingExists /\ RowsHold /\ OnlyIntakeInserts /\ SawHolds /\ SecondHasAReason
  BY DEF Init, PendingExists, RowsHold, OnlyIntakeInserts, SawHolds, SecondHasAReason, NoOp
<1> QED
  BY <1>2, <1>3, <1>4 DEF IInv

-------------------------------------------------------------------------------
(* Steps that leave the rows of incidents alone.                           *)

\* Their order of time, and what is still to come, guard nothing written.
LEMMA NoIncidentWritten ==
    ASSUME IInv, TypeOK', UNCHANGED <<incidentVars, rows>>,
           \A q \in Requests : pc'[q] # "accept" => pc[q] # "accept",
           \A q \in Requests :
               \/ op'[q] = op[q] /\ pc'[q] = pc[q]
               \/ op'[q].kind \in {"none", "submit"} /\ pc'[q] # "fold"
               \/ /\ op'[q].kind \in {"change", "merge"} /\ Exists(op'[q].incident)
                  /\ pc'[q] = "fold" => op'[q].kind = "merge"
    PROVE  IInv'
<1> USE DEF IInv, incidentVars
<1>1. ClosedIsRemembered'
  BY DEF ClosedIsRemembered
<1>2. PendingExists'
  BY DEF PendingExists, Exists
<1>3. RowsHold' /\ OnlyIntakeInserts' /\ SawHolds'
  BY DEF RowsHold, OnlyIntakeInserts, SawHolds, Together, Exists
<1>4. SecondHasAReason'
  BY DEF SecondHasAReason, Crowd
<1> QED
  BY <1>1, <1>2, <1>3, <1>4

\* A request that has read what it asks to change.
LEMMA StartKeeps ==
    ASSUME IInv, NEW q \in Requests, NEW o \in Ops, NEW phase \in {"accept", "write"},
           Start(q, o, phase), todo' \in [Requests -> Seq(Keys)],
           UNCHANGED <<now, incidentVars, rows, locks>>,
           o.kind = "submit" \/ (o.kind \in {"change", "merge"} /\ Exists(o.incident))
    PROVE  IInv'
<1>1. TypeOK'
  BY StartKeepsTypes DEF IInv, TypeOK, incidentVars
<1>2. TypeOK
  BY DEF IInv
<1>3. /\ op'[q] = o /\ pc'[q] = phase
      /\ \A p \in Requests \ {q} : op'[p] = op[p] /\ pc'[p] = pc[p]
  BY <1>2, StartKeepsTypes
<1>4. pc[q] = "idle"
  BY DEF Start
<1> QED
  BY <1>1, <1>3, <1>4, NoIncidentWritten

LEMMA AskKeeps ==
    ASSUME IInv, NEW q \in Requests, Ask(q)
    PROVE  IInv'
<1>0. TypeOK
  BY DEF IInv
<1>1. ASSUME NEW b \in Batches, Submit(q, b)
      PROVE  IInv'
  <2> DEFINE o == [kind |-> "submit", batch |-> b, at |-> now]
  <2>1. o \in Ops /\ o.kind = "submit"
    BY <1>0 DEF Ops, TypeOK
  <2>2. todo' \in [Requests -> Seq(Keys)]
    BY <1>0, <1>1, QueueAssumption DEF TypeOK, Submit
  <2>3. Start(q, o, "accept") /\ UNCHANGED <<now, incidentVars, rows, locks>>
    BY <1>1 DEF Submit
  <2> HIDE DEF o
  <2> QED
    BY <2>1, <2>2, <2>3, StartKeeps
<1>2. ASSUME NEW i \in Incidents, NEW s \in IncidentStatuses, Exists(i),
             Start(q, Change(i, s), "write"),
             UNCHANGED <<now, incidentVars, todo, rows, locks>>
      PROVE  IInv'
  <2>1. /\ Change(i, s) \in Ops
        /\ Change(i, s).kind = "change"
        /\ Change(i, s).incident = i
    BY DEF Change, Ops
  <2>2. todo' \in [Requests -> Seq(Keys)]
    BY <1>0, <1>2 DEF TypeOK
  <2> QED
    BY <1>2, <2>1, <2>2, StartKeeps
<1>3. ASSUME NEW i \in Incidents, NEW s \in Targets, Patch(q, i, s)
      PROVE  IInv'
  BY <1>2, <1>3, QueueAssumption DEF Patch
<1>4. ASSUME NEW i \in Incidents, Split(q, i) \/ ReturnPlan(q, i)
      PROVE  IInv'
  BY <1>2, <1>4 DEF Split, ReturnPlan, IncidentStatuses
<1>5. ASSUME NEW i \in Incidents, NEW j \in Incidents, Merge(q, i, j)
      PROVE  IInv'
  <2> DEFINE o == [kind |-> "merge", incident |-> i, into |-> j]
  <2>1. o \in Ops /\ o.kind = "merge" /\ o.incident = i
    BY DEF Ops
  <2>2. todo' \in [Requests -> Seq(Keys)]
    BY <1>0, <1>5 DEF TypeOK, Merge
  <2>3. /\ Start(q, o, "write") /\ Exists(o.incident)
        /\ UNCHANGED <<now, incidentVars, rows, locks>>
    BY <1>5 DEF Merge
  <2> HIDE DEF o
  <2> QED
    BY <2>1, <2>2, <2>3, StartKeeps
<1> QED
  BY <1>1, <1>3, <1>4, <1>5 DEF Ask

\* A report kept unplaced, or linked: one less to come, no incident.
LEMMA TakeKeeps ==
    ASSUME IInv, NEW q \in Requests, todo[q] # <<>>, Take(q), UNCHANGED <<status, origin, rows>>
    PROVE  IInv'
<1>1. TypeOK'
  BY TakeKeepsTypes DEF IInv, TypeOK, Take
<1> QED
  BY <1>1, NoIncidentWritten DEF Take, incidentVars

LEMMA TickKeeps == IInv /\ Tick => IInv'
<1> SUFFICES ASSUME IInv, Tick PROVE IInv'
  OBVIOUS
<1>1. TypeOK'
  BY DEF IInv, TypeOK, Tick, incidentVars, handlerVars
<1> QED
  BY <1>1, NoIncidentWritten DEF Tick, handlerVars

LEMMA StutterKeeps == IInv /\ UNCHANGED vars => IInv'
<1> SUFFICES ASSUME IInv, UNCHANGED vars PROVE IInv'
  OBVIOUS
<1>1. TypeOK'
  BY DEF IInv, TypeOK, vars, incidentVars, handlerVars
<1> QED
  BY <1>1, NoIncidentWritten DEF vars, handlerVars

LEMMA LockTargetKeeps ==
    ASSUME IInv, NEW q \in Requests, LockTarget(q)
    PROVE  IInv'
<1>1. op[q].into \in Incidents
  BY Kinds DEF IInv, LockTarget
<1>2. TypeOK'
  BY <1>1 DEF IInv, TypeOK, LockTarget, incidentVars
<1>3. op[q].kind = "merge" /\ Exists(op[q].incident)
  BY DEF IInv, PendingExists, LockTarget
<1> QED
  BY <1>2, <1>3, NoIncidentWritten DEF LockTarget, IInv, TypeOK

-------------------------------------------------------------------------------
(* Steps that write incidents.                                             *)

\* An incident whose request has gone through all it can see.
LEMMA OpenIncidentKeeps ==
    ASSUME IInv, OnlySubmissions, NEW q \in Requests, OpenIncident(q)
    PROVE  IInv'
<1> DEFINE k == Next1(q)
<1> DEFINE t == ReceivedAt(q)
<1> DEFINE seen == {j \in Incidents : Sees(q, j)}
<1>1. /\ TypeOK /\ ClosedIsRemembered /\ PendingExists /\ RowsHold
      /\ OnlyIntakeInserts /\ SawHolds /\ SecondHasAReason
  BY DEF IInv
<1>2. todo[q] # <<>> /\ Take(q) /\ k \notin Unlisted
  BY DEF OpenIncident, Placed
<1>3. k \in Keys /\ todo' \in [Requests -> Seq(Keys)]
  BY <1>1, <1>2, TakeKeepsTypes
<1>4. PICK R \in NewestFirst(Matching(q)) : Candidates(q, R) = {}
  BY DEF OpenIncident
<1>5. PICK n \in Unused :
          /\ status' = [status EXCEPT ![n] = "REPORTED"]
          /\ origin' = [origin EXCEPT ![n] =
                 [key |-> k, first |-> t, looked |-> now, saw |-> seen]]
          /\ rows' = [rows EXCEPT ![q] = @ \cup {n}]
  BY DEF OpenIncident
<1>6. UNCHANGED <<now, closed, op, pc, locks>>
  BY <1>2 DEF Take
<1>7. t \in Int
  <2>1. op[q].kind = "submit"
    BY <1>2 DEF OnlySubmissions
  <2>2. op[q].at \in Int
    BY <1>1, <2>1, Kinds
  <2> QED
    BY <1>3, <2>2, QueueAssumption DEF ReceivedAt
\* The rows.
<1> DEFINE new == [key |-> k, first |-> t, looked |-> now, saw |-> seen]
<1>8. n \in Incidents /\ status[n] = Absent /\ ~Exists(n)
  BY DEF Unused, Exists
<1>9. new \in Origins
  BY <1>1, <1>3, <1>7 DEF Origins, TypeOK
<1>10. /\ new.key = k /\ new.first = t /\ new.looked = now /\ new.saw = seen
  OBVIOUS
<1>11. /\ status'[n] = "REPORTED" /\ \A i \in Incidents \ {n} : status'[i] = status[i]
       /\ origin'[n] = new
       /\ rows'[q] = rows[q] \cup {n} /\ \A p \in Requests \ {q} : rows'[p] = rows[p]
       /\ \A i \in Incidents \ {n} : origin'[i] = origin[i]
  BY <1>1, <1>5, <1>8 DEF TypeOK
<1>12. \A i \in Incidents : Sees(q, i) => i # n /\ status[i] # Absent
  <2>1. \A i \in rows[q] : status[i] # Absent
    BY <1>1, QueueAssumption DEF RowsHold, IncidentStatuses
  <2> QED
    BY <1>8, <2>1 DEF Sees, Exists
<1> HIDE DEF k, t, seen, new
<1>13. TypeOK'
  <2>1. status' \in [Incidents -> IncidentStatuses \cup {Absent}]
    BY <1>1, <1>5 DEF TypeOK, IncidentStatuses
  <2>2. origin' \in [Incidents -> Origins \cup {None}]
    BY <1>1, <1>5, <1>9 DEF TypeOK, new
  <2>3. \A i \in Incidents : status'[i] # Absent => origin'[i] \in Origins
    BY <1>1, <1>9, <1>11 DEF TypeOK
  <2>4. rows' \in [Requests -> SUBSET Incidents]
    BY <1>1, <1>5, <1>8 DEF TypeOK
  <2> QED
    BY <1>1, <1>3, <1>6, <2>1, <2>2, <2>3, <2>4 DEF TypeOK
<1>14. ClosedIsRemembered'
  BY <1>1, <1>6, <1>11 DEF ClosedIsRemembered, Closed
<1>15. \A i \in Incidents \ {n} : Exists(i)' <=> Exists(i)
  BY <1>11 DEF Exists
<1>16. PendingExists'
  <2> SUFFICES ASSUME NEW p \in Requests, op[p].kind \in {"change", "merge"}
               PROVE  Exists(op[p].incident)'
    BY <1>1, <1>6 DEF PendingExists, Exists
  <2>1. op[p].incident \in Incidents /\ Exists(op[p].incident)
    BY <1>1, Kinds DEF PendingExists
  <2> QED
    <3>1. op[p].incident # n
      BY <1>8, <2>1
    <3>2. op'[p] = op[p]
      BY <1>6
    <3> QED
      BY <1>15, <2>1, <3>1, <3>2 DEF Exists
<1>17. \A p \in Requests : n \notin rows[p]
  BY <1>1, <1>8, QueueAssumption DEF RowsHold, IncidentStatuses
<1>18. RowsHold'
  <2> SUFFICES ASSUME NEW p \in Requests, NEW i \in rows'[p]
               PROVE  status'[i] = "REPORTED" /\ \A r \in Requests : i \in rows'[r] => r = p
    BY DEF RowsHold
  <2>1. CASE i = n
    <3>1. \A r \in Requests : n \in rows'[r] => r = q
      BY <1>11, <1>17
    <3> QED
      BY <1>11, <2>1, <3>1
  <2>2. CASE i # n
    <3>1. \A r \in Requests : i \in rows'[r] <=> i \in rows[r]
      BY <1>11, <2>2
    <3>2. i \in Incidents
      BY <1>1, <3>1 DEF TypeOK
    <3> QED
      BY <1>1, <1>11, <2>2, <3>1, <3>2 DEF RowsHold
  <2> QED
    BY <2>1, <2>2
\* What the old incidents saw is as it was; the new one sees what its request does.
<1>19. ASSUME NEW j \in Incidents \ {n}, status'[j] # Absent, NEW i \in origin'[j].saw
       PROVE  i \in Incidents \ {n} /\ i \in origin[j].saw /\ Together(i, j)
  <2>1. status[j] # Absent /\ i \in origin[j].saw
    BY <1>11, <1>19
  <2>2. Together(i, j) /\ i \in Incidents
    BY <1>1, <2>1, ExistsHasOrigin DEF SawHolds
  <2> QED
    BY <1>8, <1>17, <2>1, <2>2 DEF Together
<1>20. ASSUME NEW i \in seen
       PROVE  i \in Incidents \ {n} /\ Sees(q, i) /\ status[i] # Absent
  BY <1>12, <1>20 DEF seen
<1>21. SawHolds'
  <2> SUFFICES ASSUME NEW j \in Incidents, status'[j] # Absent, NEW i \in origin'[j].saw
               PROVE  Together(i, j)'
    BY DEF SawHolds
  <2>1. CASE j = n
    <3>1. i \in seen
      BY <1>10, <1>11, <2>1
    <3>2. i \in Incidents \ {n} /\ Sees(q, i)
      BY <1>20, <3>1
    <3> QED
      BY <1>11, <1>15, <2>1, <3>2 DEF Sees, Together
  <2>2. CASE j # n
    BY <1>11, <1>15, <1>19, <2>2 DEF Together
  <2> QED
    BY <2>1, <2>2
<1>22. SecondHasAReason'
  <2> SUFFICES ASSUME NEW i \in Incidents, NEW j \in Incidents,
                      status'[j] # Absent, i \in origin'[j].saw,
                      Alike(origin'[i].key, origin'[j].key, origin'[i].first, origin'[j].first),
                      origin'[j].looked - origin'[i].first <= Window
               PROVE  i \in closed \/ Cardinality(Crowd(i, j)') >= Limit
    BY <1>6 DEF SecondHasAReason, Alike
  <2>1. CASE j # n
    <3>1. i # n /\ i \in origin[j].saw /\ status[j] # Absent
      BY <1>11, <1>19, <2>1
    <3>2. origin'[i] = origin[i] /\ origin'[j] = origin[j]
      BY <1>11, <2>1, <3>1
    <3>3. Crowd(i, j)' = Crowd(i, j)
      <4>1. \A m \in origin[j].saw : origin'[m] = origin[m]
        BY <1>11, <1>19, <2>1, <3>2
      <4> QED
        BY <3>2, <4>1 DEF Crowd
    <3> QED
      BY <1>1, <3>1, <3>2, <3>3 DEF SecondHasAReason
  <2>2. CASE j = n
    <3>1. i \in seen /\ origin'[j] = new
      BY <1>10, <1>11, <2>2
    <3>2. i # n /\ Sees(q, i) /\ status[i] # Absent /\ origin'[i] = origin[i]
      BY <1>11, <1>20, <3>1
    <3>3. Alike(origin[i].key, k, origin[i].first, t) /\ now - origin[i].first <= Window
      BY <1>10, <3>1, <3>2
    <3> SUFFICES ASSUME i \notin closed
                 PROVE  Cardinality(Crowd(i, j)') >= Limit
      OBVIOUS
    <3>4. i \in Matching(q)
      <4>1. status[i] \in Worked
        BY <1>1, <3>2, ExistsHasOrigin DEF ClosedIsRemembered, Worked
      <4> QED
        BY <3>2, <3>3, <4>1 DEF Matching, Alike, k
    <3>5. i \notin R
      BY <1>4, <3>3 DEF Candidates, k, t
    <3>6. /\ R \subseteq Matching(q) /\ Cardinality(R) = Limit
          /\ \A m \in R : origin[m].first >= origin[i].first
      BY <1>4, <3>4, <3>5 DEF NewestFirst
    <3>7. R \subseteq Crowd(i, j)'
      <4> SUFFICES ASSUME NEW m \in R PROVE m \in Crowd(i, j)'
        OBVIOUS
      <4>1. m \in Incidents /\ Sees(q, m) /\ AreaOf[origin[m].key] = AreaOf[k]
        BY <3>6 DEF Matching, k
      <4>2. m \in seen /\ m # i /\ origin'[m] = origin[m]
        BY <1>11, <1>12, <3>5, <4>1 DEF seen
      <4>3. AreaOf[origin[m].key] = AreaOf[origin[i].key]
        BY <3>3, <4>1 DEF Alike
      <4> QED
        BY <1>10, <3>1, <3>2, <3>6, <4>2, <4>3 DEF Crowd
    <3>8. IsFiniteSet(Crowd(i, j)')
      <4>1. Crowd(i, j)' \subseteq Incidents
        BY <1>10, <3>1 DEF Crowd, seen
      <4> QED
        BY <4>1, FS_Subset, QueueAssumption
    <3>9. Cardinality(R) <= Cardinality(Crowd(i, j)')
      BY <3>7, <3>8, FS_Subset
    <3> QED
      BY <3>6, <3>9
  <2> QED
    BY <2>1, <2>2
<1>23. OnlyIntakeInserts'
  <2>1. pc[q] = "accept"
    BY <1>2 DEF OnlySubmissions
  <2> QED
    BY <1>1, <1>6, <1>11, <2>1 DEF OnlyIntakeInserts
<1> QED
  BY <1>13, <1>14, <1>16, <1>18, <1>21, <1>22, <1>23 DEF IInv

\* The rows of a request become visible together.
LEMMA CommitReportsKeeps ==
    ASSUME IInv, NEW q \in Requests, CommitReports(q)
    PROVE  IInv'
<1> USE DEF IInv
<1>1. End(q) /\ UNCHANGED <<now, incidentVars>>
  BY DEF CommitReports
<1>2. /\ op'[q].kind = "none" /\ pc'[q] = "idle" /\ rows'[q] = {}
      /\ \A p \in Requests \ {q} : op'[p] = op[p] /\ pc'[p] = pc[p] /\ rows'[p] = rows[p]
  BY <1>1, EndKeepsTypes
<1>3. TypeOK'
  BY <1>1, EndKeepsTypes DEF TypeOK, incidentVars
<1>4. ClosedIsRemembered'
  BY <1>1 DEF ClosedIsRemembered, incidentVars
<1>5. \A i : Exists(i) => Exists(i)'
  BY <1>1, <1>2 DEF Exists, incidentVars
<1>6. PendingExists'
  BY <1>2, <1>5 DEF PendingExists
<1>7. RowsHold'
  BY <1>1, <1>2 DEF RowsHold, incidentVars
<1>8. SawHolds'
  <2> SUFFICES ASSUME NEW j \in Incidents, status[j] # Absent, NEW i \in origin[j].saw
               PROVE  Together(i, j)'
    BY <1>1 DEF SawHolds, incidentVars
  <2>1. CASE Exists(i)
    BY <1>5, <2>1 DEF Together
  <2>2. ASSUME i \in rows[q] PROVE Exists(i)'
    <3>1. status[i] = "REPORTED" /\ \A p \in Requests : i \in rows[p] => p = q
      BY <2>2 DEF RowsHold
    <3> QED
      BY <1>1, <1>2, <3>1, QueueAssumption DEF Exists, incidentVars, IncidentStatuses
  <2>3. ASSUME NEW p \in Requests, p # q, i \in rows[p], j \in rows[p] PROVE Together(i, j)'
    BY <1>2, <2>3 DEF Together
  <2> QED
    BY <2>1, <2>2, <2>3 DEF SawHolds, Together
<1>9. SecondHasAReason'
  BY <1>1 DEF SecondHasAReason, Crowd, incidentVars
<1>10. OnlyIntakeInserts'
  BY <1>2 DEF OnlyIntakeInserts
<1> QED
  BY <1>3, <1>4, <1>6, <1>7, <1>8, <1>9, <1>10

\* What a transaction inserted goes, and only what its own rows saw.
LEMMA RollbackKeeps ==
    ASSUME IInv, NEW q \in Requests, Rollback(q)
    PROVE  IInv'
<1> USE DEF IInv
<1>1. End(q) /\ UNCHANGED <<now, closed>>
  BY DEF Rollback
<1>2. /\ op'[q].kind = "none" /\ pc'[q] = "idle" /\ rows'[q] = {}
      /\ \A p \in Requests \ {q} : op'[p] = op[p] /\ pc'[p] = pc[p] /\ rows'[p] = rows[p]
  BY <1>1, EndKeepsTypes
<1>3. \A i \in Incidents :
          /\ i \in rows[q] => status'[i] = Absent
          /\ i \notin rows[q] => status'[i] = status[i] /\ origin'[i] = origin[i]
  BY DEF Rollback
<1>4. TypeOK'
  <2>1. /\ status' \in [Incidents -> IncidentStatuses \cup {Absent}]
        /\ origin' \in [Incidents -> Origins \cup {None}]
    BY DEF Rollback, TypeOK
  <2>2. \A i \in Incidents : status'[i] # Absent => origin'[i] \in Origins
    BY <1>3 DEF TypeOK
  <2> QED
    BY <1>1, <2>1, <2>2, EndKeepsTypes DEF TypeOK
<1>5. ClosedIsRemembered'
  BY <1>1, <1>3, QueueAssumption DEF ClosedIsRemembered, Closed, IncidentStatuses
<1>6. \A i \in Incidents : Exists(i) => Exists(i)'
  BY <1>2, <1>3 DEF Exists
<1>7. PendingExists'
  <2> SUFFICES ASSUME NEW p \in Requests, p # q, op[p].kind \in {"change", "merge"}
               PROVE  Exists(op[p].incident)'
    BY <1>2 DEF PendingExists, Exists
  <2>1. op[p].incident \in Incidents /\ Exists(op[p].incident)
    BY Kinds DEF PendingExists
  <2>2. op'[p] = op[p]
    BY <1>2
  <2> QED
    BY <1>6, <2>1, <2>2 DEF Exists
<1>8. RowsHold'
  <2> SUFFICES ASSUME NEW p \in Requests, p # q, NEW i \in rows[p]
               PROVE  status'[i] = "REPORTED" /\ \A r \in Requests : i \in rows'[r] => r = p
    BY <1>2 DEF RowsHold
  <2>1. i \in Incidents /\ i \notin rows[q] /\ status[i] = "REPORTED"
    BY DEF TypeOK, RowsHold
  <2> QED
    BY <1>2, <1>3, <2>1 DEF RowsHold
\* An incident that stays, and all it saw, stay as they are.
<1>9. ASSUME NEW j \in Incidents, status'[j] # Absent
      PROVE  /\ status[j] # Absent /\ origin'[j] = origin[j]
             /\ \A i \in origin[j].saw :
                    i \in Incidents /\ Together(i, j)' /\ origin'[i] = origin[i]
  <2>1. j \notin rows[q] /\ status[j] # Absent /\ origin'[j] = origin[j]
    BY <1>3, <1>9
  <2>2. SUFFICES ASSUME NEW i \in origin[j].saw
                 PROVE  i \in Incidents /\ Together(i, j)' /\ origin'[i] = origin[i]
    BY <2>1
  <2>3. i \in Incidents /\ Together(i, j)
    BY <2>1, ExistsHasOrigin DEF SawHolds
  <2>4. i \notin rows[q]
    BY <2>1, <2>3 DEF Together, Exists, RowsHold
  <2>5. Together(i, j)'
    BY <1>2, <1>6, <2>1, <2>3 DEF Together
  <2> QED
    BY <1>3, <2>3, <2>4, <2>5
<1>10. SawHolds'
  BY <1>9 DEF SawHolds
<1>11. SecondHasAReason'
  <2> SUFFICES ASSUME NEW i \in Incidents, NEW j \in Incidents,
                      status'[j] # Absent, i \in origin'[j].saw,
                      Alike(origin'[i].key, origin'[j].key, origin'[i].first, origin'[j].first),
                      origin'[j].looked - origin'[i].first <= Window
               PROVE  i \in closed \/ Cardinality(Crowd(i, j)') >= Limit
    BY <1>1 DEF SecondHasAReason, Alike
  <2>1. /\ status[j] # Absent /\ origin'[j] = origin[j] /\ i \in origin[j].saw
        /\ origin'[i] = origin[i]
    BY <1>9
  <2>2. Crowd(i, j)' = Crowd(i, j)
    BY <1>9, <2>1 DEF Crowd
  <2> QED
    BY <2>1, <2>2 DEF SecondHasAReason
<1>12. OnlyIntakeInserts'
  BY <1>2 DEF OnlyIntakeInserts
<1> QED
  BY <1>4, <1>5, <1>7, <1>8, <1>10, <1>11, <1>12

\* An incident gets a status, and the transaction ends.
LEMMA PutKeeps ==
    ASSUME IInv, NEW q \in Requests, NEW i \in Incidents, NEW s \in IncidentStatuses,
           Exists(i), Put(i, s), End(q), rows[q] = {}
    PROVE  IInv'
<1> USE DEF IInv
<1>1. /\ status'[i] = s /\ \A j \in Incidents \ {i} : status'[j] = status[j]
      /\ UNCHANGED <<now, origin>>
      /\ closed \subseteq closed' /\ closed' \subseteq Incidents
      /\ s \in Closed => i \in closed'
  BY DEF Put, TypeOK
<1>2. /\ op'[q].kind = "none" /\ pc'[q] = "idle"
      /\ \A p \in Requests \ {q} : op'[p] = op[p] /\ pc'[p] = pc[p]
      /\ \A p \in Requests : rows'[p] = rows[p]
  BY EndKeepsTypes
<1>3. \A j \in Incidents : status'[j] # Absent <=> status[j] # Absent
  BY <1>1, QueueAssumption DEF Exists
<1>4. TypeOK'
  <2>1. status' \in [Incidents -> IncidentStatuses \cup {Absent}]
    BY DEF TypeOK, Put
  <2> QED
    BY <1>1, <1>3, <2>1, EndKeepsTypes DEF TypeOK
<1>5. ClosedIsRemembered'
  BY <1>1 DEF ClosedIsRemembered
<1>6. \A j \in Incidents : Exists(j)' <=> Exists(j)
  BY <1>2, <1>3 DEF Exists
<1>7. PendingExists'
  BY <1>2, <1>6, Kinds DEF PendingExists
<1>8. RowsHold'
  <2>1. \A p \in Requests : i \notin rows[p]
    BY DEF Exists
  <2> QED
    BY <1>1, <1>2, <2>1 DEF RowsHold, TypeOK
<1>9. SawHolds'
  <2> SUFFICES ASSUME NEW j \in Incidents, status'[j] # Absent, NEW m \in origin'[j].saw
               PROVE  Together(m, j)'
    BY DEF SawHolds
  <2>1. status[j] # Absent /\ m \in origin[j].saw
    BY <1>1, <1>3
  <2>2. m \in Incidents /\ Together(m, j)
    BY <2>1, ExistsHasOrigin DEF SawHolds
  <2> QED
    BY <1>2, <1>6, <2>2 DEF Together
<1>10. SecondHasAReason'
  <2>1. \A m, j \in Incidents : Crowd(m, j)' = Crowd(m, j)
    BY <1>1 DEF Crowd
  <2> QED
    BY <1>1, <1>3, <2>1 DEF SecondHasAReason
<1>11. OnlyIntakeInserts'
  BY <1>2 DEF OnlyIntakeInserts
<1> QED
  BY <1>4, <1>5, <1>7, <1>8, <1>9, <1>10, <1>11

\* set_incident_status of a patch, split, returned plan or merge.
LEMMA WritesKeep ==
    ASSUME IInv, NEW q \in Requests, WriteChange(q) \/ Fold(q)
    PROVE  IInv'
<1>1. op[q].kind \in {"change", "merge"} /\ Exists(op[q].incident)
  BY DEF IInv, PendingExists, WriteChange, Fold
<1>2. op[q].incident \in Incidents
  BY <1>1, Kinds DEF IInv
<1>3. PICK s \in IncidentStatuses : Put(op[q].incident, s)
  BY Kinds DEF IInv, WriteChange, Fold, IncidentStatuses
<1>4. pc[q] # "accept" /\ End(q)
  BY DEF WriteChange, Fold
<1>5. rows[q] = {}
  BY <1>4 DEF IInv, OnlyIntakeInserts
<1>6. Put(op[q].incident, s)
  BY <1>3
<1> QED
  BY <1>1, <1>2, <1>4, <1>5, <1>6, PutKeeps

-------------------------------------------------------------------------------
LEMMA SubmissionsStay ==
    ASSUME IInv, OnlySubmissions, [Next]_vars
    PROVE  OnlySubmissions'
<1> USE DEF OnlySubmissions
<1>0. TypeOK
  BY DEF IInv
<1>1. ASSUME NEW q \in Requests, End(q)
      PROVE  OnlySubmissions'
  BY <1>0, <1>1 DEF End, TypeOK
<1>2. ASSUME NEW q \in Requests, Ask(q)
      PROVE  OnlySubmissions'
  <2>1. ASSUME NEW b \in Batches, Submit(q, b) PROVE OnlySubmissions'
    BY <1>0, <2>1 DEF Submit, Start, TypeOK
  <2>2. ASSUME NEW o, Start(q, o, "write"), UNCHANGED todo PROVE OnlySubmissions'
    BY <1>0, <2>2 DEF Start, TypeOK
  <2> QED
    BY <1>2, <2>1, <2>2 DEF Ask, Patch, Split, ReturnPlan, Merge
<1>3. ASSUME NEW q \in Requests, Advance(q)
      PROVE  OnlySubmissions'
  <2>1. ASSUME Take(q), todo[q] # <<>> PROVE OnlySubmissions'
    BY <1>0, <2>1 DEF Take, TypeOK
  <2>2. CASE KeepUnplaced(q) \/ LinkToCandidate(q) \/ OpenIncident(q)
    BY <2>1, <2>2 DEF KeepUnplaced, LinkToCandidate, OpenIncident, Placed
  <2>3. CASE LockTarget(q)
    BY <1>0, <2>3 DEF LockTarget, TypeOK
  <2> QED
    BY <1>1, <1>3, <2>2, <2>3
    DEF Advance, RefuseType, Rollback, CommitReports, WriteChange, Fold
<1>4. ASSUME NEW q \in Requests, DeadlockVictim(q) \/ Fail(q)
      PROVE  OnlySubmissions'
  BY <1>1, <1>4 DEF DeadlockVictim, Fail, Rollback
<1>5. CASE Tick \/ UNCHANGED vars
  BY <1>5 DEF Tick, vars, handlerVars
<1> QED
  BY <1>2, <1>3, <1>4, <1>5 DEF Next

LEMMA NextIInv ==
    ASSUME IInv, OnlySubmissions, [Next]_vars
    PROVE  IInv'
<1>1. ASSUME NEW q \in Requests, Advance(q)
      PROVE  IInv'
  <2>1. CASE KeepUnplaced(q) \/ LinkToCandidate(q)
    BY <2>1, TakeKeeps DEF KeepUnplaced, LinkToCandidate, Placed
  <2>2. CASE OpenIncident(q)
    BY <2>2, OpenIncidentKeeps
  <2>3. CASE RefuseType(q)
    BY <2>3, RollbackKeeps DEF RefuseType
  <2>4. CASE CommitReports(q)
    BY <2>4, CommitReportsKeeps
  <2>5. CASE WriteChange(q) \/ Fold(q)
    BY <2>5, WritesKeep
  <2>6. CASE LockTarget(q)
    BY <2>6, LockTargetKeeps
  <2> QED
    BY <1>1, <2>1, <2>2, <2>3, <2>4, <2>5, <2>6 DEF Advance
<1>2. ASSUME NEW q \in Requests, DeadlockVictim(q) \/ Fail(q)
      PROVE  IInv'
  BY <1>2, RollbackKeeps DEF DeadlockVictim, Fail
<1> QED
  BY <1>1, <1>2, AskKeeps, TickKeeps, StutterKeeps DEF Next

LEMMA Invariance == Spec => [](IInv /\ OnlySubmissions)
<1>1. Init => OnlySubmissions
  BY DEF Init, OnlySubmissions
<1>2. IInv /\ OnlySubmissions /\ [Next]_vars => (IInv /\ OnlySubmissions)'
  BY NextIInv, SubmissionsStay
<1> QED
  BY <1>1, <1>2, InitIInv, PTL DEF Spec

-------------------------------------------------------------------------------
(* The queue keeps its types for any incidents, requests and reports.      *)
THEOREM TypeCorrect == Spec => []TypeOK
<1>1. IInv => TypeOK
  BY DEF IInv
<1> QED
  BY <1>1, Invariance, PTL

(* For any number of requests and reports and whatever Limit the query     *)
(* has, accept() opens a second incident of one event only when its        *)
(* request could not see the first, somebody had closed the first, or      *)
(* Limit others of that division and type were reported since.             *)
THEOREM DuplicatesHaveReasons == Spec => []SecondHasAReason
<1>1. IInv => SecondHasAReason
  BY DEF IInv
<1> QED
  BY <1>1, Invariance, PTL

(* A resolved incident nobody is about to write stays resolved: the table  *)
(* lets no new request past its check.                                     *)
THEOREM ResolvedStays == Spec => ResolvedIsFinal
<1> DEFINE Stays == \A i \in Incidents :
        status[i] = "RESOLVED" /\ AtRest(i) => (status[i] = "RESOLVED" /\ AtRest(i))'
<1>1. ASSUME IInv, OnlySubmissions, Next PROVE Stays
  <2> USE DEF IInv
  <2> SUFFICES ASSUME NEW i \in Incidents, status[i] = "RESOLVED", AtRest(i)
               PROVE  status'[i] = "RESOLVED" /\ AtRest(i)'
    OBVIOUS
  <2>0. Allowed(status[i]) = {} /\ status[i] \in Closed
    BY DEF Allowed, LegalNext, Closed
  <2>1. ASSUME NEW q \in Requests, End(q) PROVE AtRest(i)'
    BY <1>1, <2>1 DEF End, AtRest, Writes, NoOp, TypeOK
  <2>2. CASE UNCHANGED <<status, op>>
    BY <2>2 DEF AtRest, Writes
  <2>3. ASSUME NEW q \in Requests, Ask(q) PROVE status'[i] = "RESOLVED" /\ AtRest(i)'
    <3>1. ASSUME NEW o, NEW phase, Start(q, o, phase), ~(o.kind \in {"change", "merge"} /\ o.incident = i),
                 UNCHANGED status
          PROVE  status'[i] = "RESOLVED" /\ AtRest(i)'
      BY <1>1, <3>1 DEF Start, AtRest, Writes, TypeOK
    <3>2. ASSUME NEW b \in Batches, Submit(q, b) PROVE status'[i] = "RESOLVED" /\ AtRest(i)'
      BY <3>1, <3>2 DEF Submit, incidentVars
    <3>3. ASSUME NEW j \in Incidents, NEW s \in Targets, Patch(q, j, s)
          PROVE  status'[i] = "RESOLVED" /\ AtRest(i)'
      BY <2>0, <3>1, <3>3 DEF Patch, Change, incidentVars
    <3>4. ASSUME NEW j \in Incidents, Split(q, j) \/ ReturnPlan(q, j)
          PROVE  status'[i] = "RESOLVED" /\ AtRest(i)'
      BY <2>0, <3>1, <3>4 DEF Split, ReturnPlan, Change, incidentVars
    <3>5. ASSUME NEW j \in Incidents, NEW k \in Incidents, Merge(q, j, k)
          PROVE  status'[i] = "RESOLVED" /\ AtRest(i)'
      BY <2>0, <3>1, <3>5 DEF Merge, incidentVars
    <3> QED
      BY <2>3, <3>2, <3>3, <3>4, <3>5 DEF Ask
  <2>4. ASSUME NEW q \in Requests, Rollback(q) PROVE status'[i] = "RESOLVED" /\ AtRest(i)'
    BY <1>1, <2>1, <2>4 DEF Rollback, RowsHold
  <2>5. ASSUME NEW q \in Requests, Advance(q) PROVE status'[i] = "RESOLVED" /\ AtRest(i)'
    <3>1. CASE KeepUnplaced(q) \/ LinkToCandidate(q)
      BY <2>2, <3>1 DEF KeepUnplaced, LinkToCandidate, Take
    <3>2. CASE OpenIncident(q)
      <4>1. PICK n \in Unused : status' = [status EXCEPT ![n] = "REPORTED"]
        BY <3>2 DEF OpenIncident
      <4>2. n # i
        BY <4>1, QueueAssumption DEF Unused, IncidentStatuses
      <4>3. status'[i] = status[i] /\ op' = op
        BY <1>1, <3>2, <4>1, <4>2 DEF OpenIncident, Take, TypeOK
      <4> QED
        BY <4>3 DEF AtRest, Writes
    <3>3. CASE RefuseType(q)
      BY <2>4, <3>3 DEF RefuseType
    <3>4. CASE CommitReports(q)
      BY <2>1, <3>4 DEF CommitReports, incidentVars
    <3>5. CASE WriteChange(q) \/ Fold(q)
      <4>1. /\ op[q].incident # i /\ End(q)
            /\ \E s : status' = [status EXCEPT ![op[q].incident] = s]
        BY <1>1, <3>5 DEF WriteChange, Fold, Put, AtRest, Writes, PendingExists
      <4>2. status'[i] = status[i]
        BY <1>1, <4>1 DEF TypeOK
      <4> QED
        BY <2>1, <4>1, <4>2
    <3>6. CASE LockTarget(q)
      BY <2>2, <3>6 DEF LockTarget, incidentVars
    <3> QED
      BY <2>5, <3>1, <3>2, <3>3, <3>4, <3>5, <3>6 DEF Advance
  <2>6. ASSUME NEW q \in Requests, DeadlockVictim(q) \/ Fail(q)
        PROVE  status'[i] = "RESOLVED" /\ AtRest(i)'
    BY <2>4, <2>6 DEF DeadlockVictim, Fail
  <2>7. CASE Tick
    BY <2>2, <2>7 DEF Tick, incidentVars, handlerVars
  <2> QED
    BY <1>1, <2>3, <2>5, <2>6, <2>7 DEF Next
<1>2. IInv /\ OnlySubmissions /\ [Next]_vars => [Stays]_vars
  BY <1>1
<1> QED
  BY <1>2, Invariance, PTL DEF Spec, ResolvedIsFinal
===============================================================================
