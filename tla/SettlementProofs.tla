--------------------------- MODULE SettlementProofs ---------------------------
(***************************************************************************)
(* Proofs about Settlement, for any payments, replicas, callbacks, limit,  *)
(* window and caps.                                                        *)
(*                                                                         *)
(* The argument: a transaction holds the chain's advisory lock exactly     *)
(* when it has appended a reversal it has not committed.  So when another  *)
(* transaction commits a reversal, nobody else has any to lose.  And what  *)
(* the rail once returned stays returned, so the answer a transaction acts *)
(* on is still true when it appends and when it commits.                   *)
(***************************************************************************)
EXTENDS Settlement, TLAPS

\* The lock is held by the transaction that has appended, and no other has.
HolderAppended == \A s \in Sessions : holder = s <=> done[s] # {}

\* record_reversal runs only for payments the rail returned.
RecordsReturned ==
    \A s \in Sessions, p \in Payments :
        (pc[s] \in {"read", "write"} /\ Turn(s, p)) => rail[p] = "returned"

\* OnlyReturnedIsReversed, part by part.
ReversedReturned == \A p \in reversed : rail[p] = "returned"
DoneReturned == \A s \in Sessions : \A p \in done[s] : rail[p] = "returned"

IInv ==
    /\ TypeOK
    /\ HolderAppended
    /\ RecordsReturned
    /\ ReversedReturned
    /\ DoneReturned
    /\ LoserHasNothing

-------------------------------------------------------------------------------
\* A transaction looks at one payment at a time.
LEMMA TurnUnique ==
    ASSUME NEW s \in Sessions, NEW p \in Payments, NEW q \in Payments,
           Turn(s, p), Turn(s, q)
    PROVE  p = q
<1>1. p <= q /\ q <= p
  BY DEF Turn, Oldest
<1>2. p \in Nat /\ q \in Nat
  BY SettlementAssumption DEF Payments
<1> QED
  BY <1>1, <1>2

\* A free lock is no transaction's.
LEMMA NobodyIsNoSession == \A s \in Sessions : s # Nobody
BY SettlementAssumption

\* The invariant holds to begin with.
LEMMA InitIInv == Init => IInv
<1> SUFFICES ASSUME Init PROVE IInv
  OBVIOUS
<1>1. TypeOK
  BY SettlementAssumption DEF Init, TypeOK, Answers, Phases
<1>2. HolderAppended
  BY NobodyIsNoSession DEF Init, HolderAppended
<1>3. RecordsReturned /\ ReversedReturned /\ DoneReturned /\ LoserHasNothing
  BY DEF Init, RecordsReturned, ReversedReturned, DoneReturned, LoserHasNothing
<1> QED
  BY <1>1, <1>2, <1>3 DEF IInv

\* While the sessions stand still, only the rail's answers matter, and those
\* that count never change.
LEMMA SessionsFrame ==
    ASSUME IInv, UNCHANGED <<reversed, pc, todo, done, holder>>,
           \A p \in Payments : rail[p] = "returned" => rail'[p] = "returned"
    PROVE  /\ HolderAppended' /\ RecordsReturned' /\ ReversedReturned'
           /\ DoneReturned' /\ LoserHasNothing'
<1> USE DEF IInv
<1>1. HolderAppended'
  BY DEF HolderAppended
<1>2. RecordsReturned'
  BY DEF RecordsReturned, Turn, Oldest
<1>3. ReversedReturned'
  BY DEF ReversedReturned, TypeOK
<1>4. DoneReturned'
  BY DEF DoneReturned, TypeOK
<1>5. LoserHasNothing'
  BY DEF LoserHasNothing, Turn, Oldest
<1> QED
  BY <1>1, <1>2, <1>3, <1>4, <1>5

\* What the rail, the households and the calendar do preserves the invariant.
LEMMA WorldStep ==
    ASSUME IInv, NEW p \in Payments, RailSettles(p) \/ Confirm(p) \/ Age(p)
    PROVE  IInv'
<1> USE DEF IInv
<1>1. UNCHANGED <<reversed, pc, todo, done, holder, faults>>
  BY DEF RailSettles, Confirm, Age
<1>2. \A q \in Payments : rail[q] = "returned" => rail'[q] = "returned"
  BY DEF RailSettles, Confirm, Age, TypeOK
<1>3. rail' \in [Payments -> Answers] /\ passes' \in 0..Window
  BY SettlementAssumption DEF RailSettles, Confirm, Age, TypeOK, Answers
<1>4. confirmed' \subseteq Payments /\ aged' \subseteq Payments
  BY DEF RailSettles, Confirm, Age, TypeOK
<1>5. TypeOK'
  BY <1>1, <1>3, <1>4 DEF TypeOK
<1> QED
  BY <1>1, <1>2, <1>5, SessionsFrame

-------------------------------------------------------------------------------
\* A session that moves on without appending or committing: what it is about to
\* record must have been returned, and what it is about to write not reversed.
LEMMA SessionMoves ==
    ASSUME IInv, NEW s \in Sessions,
           UNCHANGED <<rail, confirmed, reversed, aged, done, holder>>,
           passes' \in 0..Window, faults' \in 0..MaxFaults,
           NEW phase \in Phases, pc' = [pc EXCEPT ![s] = phase],
           NEW rest \in SUBSET Payments, todo' = [todo EXCEPT ![s] = rest],
           \A p \in Payments :
               (phase \in {"read", "write"} /\ Oldest(p, rest)) => rail[p] = "returned",
           \A p \in Payments : (phase = "write" /\ Oldest(p, rest)) => p \notin reversed
    PROVE  IInv'
<1> USE DEF IInv
<1>1. TypeOK'
  BY DEF TypeOK
<1>2. \A t \in Sessions \ {s}, p \in Payments :
          pc'[t] = pc[t] /\ (Turn(t, p)' <=> Turn(t, p))
  BY DEF TypeOK, Turn, Oldest
<1>3. pc'[s] = phase /\ \A p \in Payments : Turn(s, p)' <=> Oldest(p, rest)
  BY DEF TypeOK, Turn, Oldest
<1>4. HolderAppended'
  BY DEF HolderAppended
<1>5. RecordsReturned'
  BY <1>2, <1>3 DEF RecordsReturned
<1>6. ReversedReturned' /\ DoneReturned'
  BY DEF ReversedReturned, DoneReturned
<1>7. LoserHasNothing'
  BY <1>2, <1>3 DEF LoserHasNothing
<1> QED
  BY <1>1, <1>4, <1>5, <1>6, <1>7

\* The action BeginPass preserves the invariant.
LEMMA BeginPassStep ==
    ASSUME IInv, NEW w \in Workers, BeginPass(w)
    PROVE  IInv'
<1> USE DEF IInv
<1>1. w \in Sessions /\ "ask" \in Phases /\ WorkList \in SUBSET Payments
  BY DEF Sessions, Phases, WorkList, Pending
<1>2. passes' \in 0..Window /\ faults' \in 0..MaxFaults
  BY SettlementAssumption DEF BeginPass, TypeOK
<1> QED
  BY <1>1, <1>2, SessionMoves DEF BeginPass

\* The action BeginReport preserves the invariant.
LEMMA BeginReportStep ==
    ASSUME IInv, NEW c \in Callbacks, NEW p \in Payments, BeginReport(c, p)
    PROVE  IInv'
<1> USE DEF IInv
<1>1. c \in Sessions /\ "read" \in Phases /\ {p} \in SUBSET Payments
  BY DEF Sessions, Phases
<1>2. \A q \in Payments : Oldest(q, {p}) => rail[q] = "returned"
  BY DEF BeginReport, Oldest
<1>3. passes' \in 0..Window /\ faults' \in 0..MaxFaults
  BY DEF BeginReport, world, TypeOK
<1> QED
  BY <1>1, <1>2, <1>3, SessionMoves DEF BeginReport, world

\* Skipping a payment returns to the next question.
LEMMA SkipStep ==
    ASSUME IInv, NEW s \in Sessions, NEW p \in Payments, Skip(s, p),
           UNCHANGED <<world, reversed, done, holder>>, faults' \in 0..MaxFaults
    PROVE  IInv'
<1> USE DEF IInv
<1>1. "ask" \in Phases /\ todo[s] \ {p} \in SUBSET Payments
  BY DEF Phases, TypeOK
<1>2. todo' = [todo EXCEPT ![s] = todo[s] \ {p}] /\ pc' = [pc EXCEPT ![s] = "ask"]
  BY DEF Skip, TypeOK
<1>3. passes' \in 0..Window
  BY DEF world, TypeOK
<1> QED
  BY <1>1, <1>2, <1>3, SessionMoves DEF world

\* The action Ask preserves the invariant.
LEMMA AskStep ==
    ASSUME IInv, NEW w \in Workers, NEW p \in Payments,
           NothingToReverse(w, p) \/ Unreachable(w, p) \/ Returned(w, p)
    PROVE  IInv'
<1> USE DEF IInv
<1>1. w \in Sessions
  BY DEF Sessions
<1>2. CASE NothingToReverse(w, p)
  <2>1. faults' \in 0..MaxFaults
    BY <1>2 DEF NothingToReverse, TypeOK
  <2> QED
    BY <1>1, <1>2, <2>1, SkipStep DEF NothingToReverse
<1>3. CASE Unreachable(w, p)
  <2>1. faults' \in 0..MaxFaults
    BY <1>3, SettlementAssumption DEF Unreachable, TypeOK
  <2> QED
    BY <1>1, <1>3, <2>1, SkipStep DEF Unreachable, LeftForLater
<1>4. CASE Returned(w, p)
  <2>1. \A q \in Payments : Oldest(q, todo[w]) => rail[q] = "returned"
    BY <1>1, <1>4, TurnUnique DEF Returned, Turn
  <2>2. "read" \in Phases /\ todo[w] \in SUBSET Payments
    BY <1>1 DEF Phases, TypeOK
  <2>3. todo' = [todo EXCEPT ![w] = todo[w]]
    BY <1>1, <1>4 DEF Returned, TypeOK
  <2>4. passes' \in 0..Window /\ faults' \in 0..MaxFaults
    BY <1>4 DEF Returned, world, TypeOK
  <2>5. pc' = [pc EXCEPT ![w] = "read"] /\ UNCHANGED <<rail, confirmed, reversed, aged, done, holder>>
    BY <1>4 DEF Returned, world
  <2> QED
    BY <1>1, <2>1, <2>2, <2>3, <2>4, <2>5, SessionMoves
<1> QED
  BY <1>2, <1>3, <1>4

\* The action Read preserves the invariant.
LEMMA ReadStep ==
    ASSUME IInv, NEW s \in Sessions, NEW p \in Payments,
           AlreadyReversed(s, p) \/ ReadContext(s, p)
    PROVE  IInv'
<1> USE DEF IInv
<1>1. CASE AlreadyReversed(s, p)
  <2>1. faults' \in 0..MaxFaults
    BY <1>1 DEF AlreadyReversed, TypeOK
  <2> QED
    BY <1>1, <2>1, SkipStep DEF AlreadyReversed
<1>2. CASE ReadContext(s, p)
  <2>1. \A q \in Payments : Oldest(q, todo[s]) => q = p
    BY <1>2, TurnUnique DEF ReadContext, Turn
  <2>2. rail[p] = "returned" /\ p \notin reversed
    BY <1>2 DEF ReadContext, RecordsReturned
  <2>3. "write" \in Phases /\ todo[s] \in SUBSET Payments
    BY DEF Phases, TypeOK
  <2>4. todo' = [todo EXCEPT ![s] = todo[s]]
    BY <1>2 DEF ReadContext, TypeOK
  <2>5. passes' \in 0..Window /\ faults' \in 0..MaxFaults
    BY <1>2 DEF ReadContext, world, TypeOK
  <2> QED
    BY <1>2, <2>1, <2>2, <2>3, <2>4, <2>5, SessionMoves DEF ReadContext, world
<1> QED
  BY <1>1, <1>2

-------------------------------------------------------------------------------
\* The action Reverse preserves the invariant.
LEMMA ReverseStep ==
    ASSUME IInv, NEW s \in Sessions, NEW p \in Payments, Reverse(s, p)
    PROVE  IInv'
<1> USE DEF IInv
<1>1. /\ done' = [done EXCEPT ![s] = done[s] \cup {p}]
      /\ holder' = s /\ holder \in {Nobody, s}
      /\ pc' = [pc EXCEPT ![s] = "ask"]
      /\ todo' = [todo EXCEPT ![s] = todo[s] \ {p}]
      /\ UNCHANGED <<rail, confirmed, passes, aged, reversed, faults>>
  BY DEF Reverse, LockAfterAppend, LockFree, Skip, world, TypeOK
<1>2. TypeOK'
  BY <1>1 DEF TypeOK, Phases
<1>3. done'[s] # {} /\ \A t \in Sessions \ {s} : done'[t] = done[t] /\ done[t] = {}
  BY <1>1, NobodyIsNoSession DEF HolderAppended, TypeOK
<1>4. HolderAppended'
  BY <1>1, <1>3 DEF HolderAppended
<1>5. \A t \in Sessions, q \in Payments :
          pc'[t] \in {"read", "write"} => t # s /\ pc'[t] = pc[t] /\ (Turn(t, q)' <=> Turn(t, q))
  BY <1>1 DEF TypeOK, Turn, Oldest
<1>6. RecordsReturned'
  BY <1>1, <1>5 DEF RecordsReturned
<1>7. rail[p] = "returned"
  BY DEF Reverse, RecordsReturned
<1>8. ReversedReturned' /\ DoneReturned'
  BY <1>1, <1>7 DEF ReversedReturned, DoneReturned, TypeOK
<1>9. LoserHasNothing'
  BY <1>3, <1>5 DEF LoserHasNothing
<1> QED
  BY <1>2, <1>4, <1>6, <1>8, <1>9

\* A transaction that ends without committing takes only its own with it.
LEMMA UndoStep ==
    ASSUME IInv, NEW s \in Sessions, Undo(s),
           UNCHANGED <<world, reversed>>, faults' \in 0..MaxFaults
    PROVE  IInv'
<1> USE DEF IInv
<1>1. /\ pc' = [pc EXCEPT ![s] = "idle"]
      /\ todo' = [todo EXCEPT ![s] = {}]
      /\ done' = [done EXCEPT ![s] = {}]
      /\ holder' = IF holder = s THEN Nobody ELSE holder
      /\ UNCHANGED <<rail, confirmed, passes, aged, reversed>>
  BY DEF Undo, AfterException, LockAfterEnd, world
<1>2. TypeOK'
  BY <1>1 DEF TypeOK, Phases
<1>3. done'[s] = {} /\ \A t \in Sessions \ {s} : done'[t] = done[t]
  BY <1>1 DEF TypeOK
<1>4. HolderAppended'
  BY <1>1, <1>3, NobodyIsNoSession DEF HolderAppended
<1>5. \A t \in Sessions, q \in Payments :
          pc'[t] \in {"read", "write"} => t # s /\ pc'[t] = pc[t] /\ (Turn(t, q)' <=> Turn(t, q))
  BY <1>1 DEF TypeOK, Turn, Oldest
<1>6. RecordsReturned'
  BY <1>1, <1>5 DEF RecordsReturned
<1>7. ReversedReturned' /\ DoneReturned'
  BY <1>1, <1>3 DEF ReversedReturned, DoneReturned
<1>8. LoserHasNothing'
  BY <1>1, <1>3, <1>5 DEF LoserHasNothing
<1> QED
  BY <1>2, <1>4, <1>6, <1>7, <1>8

\* The action Refused preserves the invariant.
LEMMA RefusedStep ==
    ASSUME IInv, NEW s \in Sessions, NEW p \in Payments, Refused(s, p)
    PROVE  IInv'
<1>1. faults' \in 0..MaxFaults
  BY DEF Refused, IInv, TypeOK
<1> QED
  BY <1>1, UndoStep DEF Refused

\* The action Abort preserves the invariant.
LEMMA AbortStep ==
    ASSUME IInv, NEW s \in Sessions, Abort(s)
    PROVE  IInv'
<1>1. faults' \in 0..MaxFaults
  BY SettlementAssumption DEF Abort, IInv, TypeOK
<1> QED
  BY <1>1, UndoStep DEF Abort

\* The action Commit preserves the invariant.
LEMMA CommitStep ==
    ASSUME IInv, NEW s \in Sessions, Commit(s)
    PROVE  IInv'
<1> USE DEF IInv
<1>1. /\ reversed' = reversed \cup done[s]
      /\ pc' = [pc EXCEPT ![s] = "idle"]
      /\ done' = [done EXCEPT ![s] = {}]
      /\ holder' = IF holder = s THEN Nobody ELSE holder
      /\ UNCHANGED <<rail, confirmed, passes, aged, todo, faults>>
  BY DEF Commit, LockAfterEnd, world
<1>2. TypeOK'
  BY <1>1 DEF TypeOK, Phases
<1>3. done'[s] = {} /\ \A t \in Sessions \ {s} : done'[t] = done[t]
  BY <1>1 DEF TypeOK
<1>4. HolderAppended'
  BY <1>1, <1>3, NobodyIsNoSession DEF HolderAppended
<1>5. \A t \in Sessions, q \in Payments :
          pc'[t] \in {"read", "write"} => t # s /\ pc'[t] = pc[t] /\ (Turn(t, q)' <=> Turn(t, q))
  BY <1>1 DEF TypeOK, Turn, Oldest
<1>6. RecordsReturned'
  BY <1>1, <1>5 DEF RecordsReturned
<1>7. ReversedReturned' /\ DoneReturned'
  BY <1>1, <1>3 DEF ReversedReturned, DoneReturned
<1>8. LoserHasNothing'
  <2> SUFFICES ASSUME NEW t \in Sessions, NEW q \in Payments,
                      pc'[t] = "write", Turn(t, q)', q \in reversed'
               PROVE  done'[t] = {}
    BY DEF LoserHasNothing
  <2>1. t # s /\ pc[t] = "write" /\ Turn(t, q) /\ done'[t] = done[t]
    BY <1>3, <1>5
  <2>2. CASE q \in reversed
    BY <2>1, <2>2 DEF LoserHasNothing
  <2>3. CASE q \in done[s]
    BY <2>1, <2>3 DEF HolderAppended
  <2> QED
    BY <1>1, <2>2, <2>3
<1> QED
  BY <1>2, <1>4, <1>6, <1>7, <1>8

\* A stuttering step changes nothing the invariant speaks of.
LEMMA StutterStep == ASSUME IInv, UNCHANGED vars PROVE IInv'
<1>1. TypeOK'
  BY DEF IInv, TypeOK, vars
<1> QED
  BY <1>1, SessionsFrame DEF IInv, vars

-------------------------------------------------------------------------------
\* record_reversal preserves the invariant, whichever way it ends.
LEMMA RecordStep ==
    ASSUME IInv, NEW s \in Sessions, Record(s)
    PROVE  IInv'
<1>1. PICK p \in todo[s] :
          AlreadyReversed(s, p) \/ ReadContext(s, p) \/ Reverse(s, p) \/ Refused(s, p)
  BY DEF Record
<1>2. p \in Payments
  BY DEF IInv, TypeOK
<1> QED
  BY <1>1, <1>2, ReadStep, ReverseStep, RefusedStep

\* Every step of a worker's pass preserves the invariant.
LEMMA WorkStep ==
    ASSUME IInv, NEW w \in Workers, Work(w)
    PROVE  IInv'
<1>1. w \in Sessions
  BY DEF Sessions
<1>2. CASE Ask(w)
  <2>1. PICK p \in todo[w] : NothingToReverse(w, p) \/ Unreachable(w, p) \/ Returned(w, p)
    BY <1>2 DEF Ask
  <2>2. p \in Payments
    BY <1>1 DEF IInv, TypeOK
  <2> QED
    BY <2>1, <2>2, AskStep
<1> QED
  BY <1>1, <1>2, BeginPassStep, RecordStep, CommitStep DEF Work

\* Every step keeps the invariant.
LEMMA NextIInv == IInv /\ [Next]_vars => IInv'
<1> SUFFICES ASSUME IInv, [Next]_vars PROVE IInv'
  OBVIOUS
<1>1. ASSUME NEW p \in Payments, RailSettles(p) \/ Confirm(p) \/ Age(p) PROVE IInv'
  BY <1>1, WorldStep
<1>2. ASSUME NEW c \in Callbacks, NEW p \in Payments, BeginReport(c, p) PROVE IInv'
  BY <1>2, BeginReportStep
<1>3. ASSUME NEW w \in Workers, Work(w) PROVE IInv'
  BY <1>3, WorkStep
<1>4. ASSUME NEW c \in Callbacks, Report(c) PROVE IInv'
  BY <1>4, RecordStep, CommitStep DEF Report, Sessions
<1>5. ASSUME NEW s \in Sessions, Abort(s) PROVE IInv'
  BY <1>5, AbortStep
<1>6. CASE UNCHANGED vars
  BY <1>6, StutterStep
<1> QED
  BY <1>1, <1>2, <1>3, <1>4, <1>5, <1>6 DEF Next

-------------------------------------------------------------------------------
\* The inductive invariant holds in every behaviour, fair or not.
THEOREM Invariance == Spec => []IInv
<1>1. Init => IInv
  BY InitIInv
<1>2. IInv /\ [Next]_vars => IInv'
  BY NextIInv
<1> QED
  BY <1>1, <1>2, PTL DEF Spec

\* Only what the rail returned comes off the books, however passes, callbacks
\* and outages interleave.
THEOREM OnlyTheReturnedIsReversed == Spec => []OnlyReturnedIsReversed
<1>1. IInv => OnlyReturnedIsReversed
  BY DEF IInv, ReversedReturned, DoneReturned, OnlyReturnedIsReversed
<1> QED
  BY <1>1, Invariance, PTL

\* A transaction about to be refused has no reversal to lose.
THEOREM RefusalCostsNoReversal == Spec => []LoserHasNothing
<1>1. IInv => LoserHasNothing
  BY DEF IInv
<1> QED
  BY <1>1, Invariance, PTL

\* Type correctness.
THEOREM TypeCorrect == Spec => []TypeOK
<1>1. IInv => TypeOK
  BY DEF IInv
<1> QED
  BY <1>1, Invariance, PTL

-------------------------------------------------------------------------------
\* A transaction's open reversals are new, and end with it.
OpenIsNew ==
    \A s \in Sessions :
        /\ done[s] \cap reversed = {}
        /\ pc[s] = "idle" => done[s] = {}

\* Reverse takes payments not yet reversed, and nobody else commits meanwhile.
LEMMA OpenIsNewStep == IInv /\ OpenIsNew /\ [Next]_vars => OpenIsNew'
<1> SUFFICES ASSUME IInv, OpenIsNew, [Next]_vars PROVE OpenIsNew'
  OBVIOUS
<1>0. TypeOK /\ HolderAppended
  BY DEF IInv
<1>1. ASSUME NEW s \in Sessions, NEW p \in Payments, Reverse(s, p) PROVE OpenIsNew'
  BY <1>0, <1>1 DEF Reverse, Skip, OpenIsNew, TypeOK
<1>2. ASSUME NEW s \in Sessions, Commit(s) PROVE OpenIsNew'
  <2>1. CASE done[s] = {}
    BY <1>0, <1>2, <2>1 DEF Commit, OpenIsNew, TypeOK
  <2>2. CASE done[s] # {}
    <3>1. \A t \in Sessions : t # s => done[t] = {}
      BY <1>0, <2>2 DEF HolderAppended
    <3> QED BY <1>0, <1>2, <3>1 DEF Commit, OpenIsNew, TypeOK
  <2> QED BY <2>1, <2>2
<1>3. ASSUME NEW s \in Sessions, Undo(s), UNCHANGED reversed PROVE OpenIsNew'
  BY <1>0, <1>3 DEF Undo, OpenIsNew, TypeOK
<1>4. ASSUME NEW s \in Sessions, NEW phase \in {"ask", "read", "write"},
             pc' = [pc EXCEPT ![s] = phase], UNCHANGED <<reversed, done>>
      PROVE  OpenIsNew'
  BY <1>0, <1>4 DEF OpenIsNew, TypeOK
<1>5. CASE UNCHANGED <<reversed, pc, done>>
  BY <1>5 DEF OpenIsNew
<1>6. ASSUME NEW p \in Payments, RailSettles(p) \/ Confirm(p) \/ Age(p) PROVE OpenIsNew'
  BY <1>5, <1>6 DEF RailSettles, Confirm, Age
<1>7. ASSUME NEW s \in Sessions, Record(s) PROVE OpenIsNew'
  <2>1. PICK p \in todo[s] :
          AlreadyReversed(s, p) \/ ReadContext(s, p) \/ Reverse(s, p) \/ Refused(s, p)
    BY <1>7 DEF Record
  <2>2. p \in Payments
    BY <1>0 DEF TypeOK
  <2> QED BY <1>1, <1>3, <1>4, <2>1, <2>2 DEF AlreadyReversed, ReadContext, Refused, Skip
<1>8. ASSUME NEW w \in Workers, BeginPass(w) \/ Ask(w) PROVE OpenIsNew'
  BY <1>4, <1>8 DEF BeginPass, Ask, NothingToReverse, Unreachable, Returned, Skip,
     LeftForLater, Sessions
<1>9. ASSUME NEW c \in Callbacks, NEW p \in Payments, BeginReport(c, p) PROVE OpenIsNew'
  BY <1>4, <1>9 DEF BeginReport, Sessions
<1>10. ASSUME NEW s \in Sessions, Abort(s) PROVE OpenIsNew'
  BY <1>3, <1>10 DEF Abort
<1>11. Workers \subseteq Sessions /\ Callbacks \subseteq Sessions
  BY DEF Sessions
<1> QED
  BY <1>2, <1>5, <1>6, <1>7, <1>8, <1>9, <1>10, <1>11 DEF Next, Work, Report, vars

\* What is reversed and not yet committed is new, and under the lock of a
\* transaction that is still going on.
THEOREM OpenReversalsUnderLock == Spec => []OpenReversalsAreHeld
<1>1. Init => OpenIsNew
  BY DEF Init, OpenIsNew
<1>2. IInv /\ OpenIsNew => OpenReversalsAreHeld
  BY DEF IInv, HolderAppended, OpenIsNew, OpenReversalsAreHeld
<1> QED
  BY <1>1, <1>2, OpenIsNewStep, Invariance, PTL DEF Spec
===============================================================================
