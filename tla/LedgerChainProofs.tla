-------------------------- MODULE LedgerChainProofs --------------------------
(***************************************************************************)
(* Proofs about LedgerChain, for any number of writers, any retry ceiling  *)
(* and any number of entries per transaction.                              *)
(*                                                                         *)
(* The argument: the number a writer holds is above the tail it read, and  *)
(* the tail it read is still the tail when its row goes in, so a row is    *)
(* above everything visible.  Only the lock holder has uncommitted rows,   *)
(* so what it commits is above everything committed meanwhile.             *)
(*                                                                         *)
(* And about Anchors, for any number of releases, replicas and days and    *)
(* any faults.  The argument: entries that may still be committed belong   *)
(* to yesterday or today, so the days before are complete when a run lists *)
(* its work; a run works forward, so that below the day it is on it sees a *)
(* row for every day that has entries; and two runs never hold one date.   *)
(* So no published anchor has a hole before it, and what comes after it is *)
(* all that can still be published: the anchors are an append-only log.    *)
(*                                                                         *)
(* And about AuditChain, for any number of requests.  The argument: under  *)
(* the lock an entry names the greatest number there is, so the log is one *)
(* chain as long as no smaller number follows.  One that does names a      *)
(* greater number than its own, which stays on record and shows.           *)
(***************************************************************************)
EXTENDS LedgerChain, Anchors, AuditChain, FiniteSetTheorems, TLAPS

(* Every number in use was drawn from the identity sequence.               *)
SeqsDrawn ==
    /\ \A r \in entries : r.seq <= lastSeq
    /\ \A w \in Writers : \A r \in mine[w] : r.seq <= lastSeq
    /\ \A w \in Writers : seq[w] <= lastSeq /\ tail[w] <= lastSeq

(* Uncommitted rows exist only under the advisory lock, and a transaction  *)
(* ready to commit has some.                                               *)
LockGuardsRows ==
    \A w \in Writers :
        /\ mine[w] # {} \/ pc[w] = "check" => holder = w
        /\ pc[w] = "open" => mine[w] # {}

(* An INSERT in flight carries a number above the tail it was based on.    *)
SeqAboveTail ==
    \A w \in Writers : pc[w] \in {"lock", "check"} => tail[w] < seq[w]

(* Uncommitted rows come after everything committed.                       *)
MineAbove ==
    \A w \in Writers : \A r \in mine[w], q \in entries : q.seq < r.seq

(* Each transaction sees one chain.                                        *)
VisibleLinear == \A w \in Writers : Linear(Visible(w))

(* The reader's next page starts right after an entry it has.              *)
CursorAfterEntry == cursor = 0 \/ \E r \in entries : cursor = r.seq + 1

IInv ==
    /\ TypeOK
    /\ SeqsDrawn
    /\ LockGuardsRows
    /\ SeqAboveTail
    /\ MineAbove
    /\ NoFork
    /\ VisibleLinear
    /\ ReaderMissesNothing
    /\ CursorAfterEntry

-----------------------------------------------------------------------------
(* Adding an entry that names the tail, under a number above it, extends   *)
(* the chain.                                                              *)
LEMMA LinearExtend ==
    ASSUME NEW S \in SUBSET Entry, NEW t \in Nat, NEW s \in Nat,
           Linear(S), IsTail(t, S), t < s
    PROVE  /\ [seq |-> s, prev |-> t] \in Entry
           /\ \A q \in S : q.seq < s
           /\ Linear(S \union {[seq |-> s, prev |-> t]})
<1> DEFINE new == [seq |-> s, prev |-> t]
           T == S \union {new}
<1>1. new \in Entry
  BY DEF Entry, Genesis
<1>2. \A q \in S : q.seq < s
  BY DEF IsTail, Entry
<1>3. \A q \in S : q.seq \in Nat
  BY DEF Entry
<1>4. Before(new, T) = S
  BY <1>2, <1>3 DEF Before
<1>5. \A r \in S : Before(r, T) = Before(r, S)
  BY <1>2, <1>3 DEF Before
<1>6. \A r, q \in T : r.seq = q.seq => r = q
  BY <1>2, <1>3 DEF Linear
<1>7. \A r \in T : IsTail(r.prev, Before(r, T))
  <2> TAKE r \in T
  <2>1. CASE r = new
    BY <2>1, <1>4
  <2>2. CASE r \in S
    BY <2>2, <1>5 DEF Linear
  <2> QED
    BY <2>1, <2>2
<1> QED
  BY <1>1, <1>2, <1>6, <1>7 DEF Linear

-----------------------------------------------------------------------------
\* The invariant holds to begin with.
LEMMA InitIInv == Init => IInv
<1> SUFFICES ASSUME Init PROVE IInv
  OBVIOUS
<1> USE ChainAssumption DEF Init, LogInit, Genesis
<1>1. TypeOK
  BY DEF TypeOK, Phases
<1>2. Linear({})
  BY DEF Linear
<1> QED
  BY <1>1, <1>2 DEF IInv, SeqsDrawn, LockGuardsRows, SeqAboveTail, MineAbove,
     NoFork, VisibleLinear, Visible, ReaderMissesNothing, CursorAfterEntry

(* Types are preserved by every step of a state of IInv (the row inserted  *)
(* is an entry because its number is above a tail).                        *)
LEMMA TypeStep == IInv /\ [Next]_vars => TypeOK'
<1> SUFFICES ASSUME IInv, [Next]_vars PROVE TypeOK'
  OBVIOUS
<1> USE ChainAssumption DEF IInv, TypeOK, writerVars, history, readerVars,
        Phases, InTransaction, LockReleased, HolderAfterSavepoint, ResumeAt, AttemptsLeft
<1>1. ASSUME NEW w \in Writers, BeginAppend(w) PROVE TypeOK'
  BY <1>1 DEF BeginAppend
<1>2. ASSUME NEW w \in Writers, ReadTail(w) PROVE TypeOK'
  BY <1>2 DEF ReadTail
<1>3. ASSUME NEW w \in Writers, DrawSeq(w) PROVE TypeOK'
  BY <1>3 DEF DrawSeq
<1>4. ASSUME NEW w \in Writers, TakeLock(w) PROVE TypeOK'
  BY <1>4 DEF TakeLock
<1>5. ASSUME NEW w \in Writers, InsertRow(w) PROVE TypeOK'
  <2>1. [seq |-> seq[w], prev |-> tail[w]] \in Entry
    BY <1>5 DEF InsertRow, SeqAboveTail, Entry, Genesis
  <2> QED
    BY <1>5, <2>1 DEF InsertRow
<1>6. ASSUME NEW w \in Writers, ChainBreak(w) PROVE TypeOK'
  BY <1>6 DEF ChainBreak
<1>7. ASSUME NEW w \in Writers, AppendFailed(w) PROVE TypeOK'
  BY <1>7 DEF AppendFailed, Forget, Genesis
<1>8. ASSUME NEW w \in Writers, Commit(w) PROVE TypeOK'
  BY <1>8 DEF Commit, Forget, Genesis
<1>9. ASSUME NEW w \in Writers, Rollback(w) PROVE TypeOK'
  BY <1>9 DEF Rollback, Forget, Genesis
<1>10. ASSUME ReadPage PROVE TypeOK'
  <2> PICK r \in entries :
        /\ seen' = seen \union {q \in entries : q.seq >= cursor /\ q.seq <= r.seq}
        /\ cursor' = r.seq + 1
        /\ UNCHANGED <<entries, mine, lastSeq, holder, writerVars, history>>
    BY <1>10 DEF ReadPage
  <2> QED
    BY DEF Entry
<1>11. CASE UNCHANGED vars
  BY <1>11 DEF vars
<1> QED
  BY <1>1, <1>2, <1>3, <1>4, <1>5, <1>6, <1>7, <1>8, <1>9, <1>10, <1>11
  DEF Next, Advance, AllAnswered

-----------------------------------------------------------------------------
(* Everything but the types: one step per action.                          *)
ChainInv ==
    /\ SeqsDrawn
    /\ LockGuardsRows
    /\ SeqAboveTail
    /\ MineAbove
    /\ NoFork
    /\ VisibleLinear

ReaderInv ==
    /\ ReaderMissesNothing
    /\ CursorAfterEntry

(* The rows of every transaction and the published entries stay as they    *)
(* are, or a transaction loses its rows: no row is added.                  *)
NoRowAdded ==
    /\ entries' = entries
    /\ \A w \in Writers : mine'[w] = mine[w] \/ mine'[w] = {}

\* Steps that add no row keep what is said about rows.
LEMMA NoRowAddedKeeps ==
    ASSUME IInv, TypeOK', NoRowAdded
    PROVE  /\ \A r \in entries' : r.seq <= lastSeq
           /\ \A w \in Writers : \A r \in mine'[w] : r.seq <= lastSeq
           /\ MineAbove'
           /\ NoFork'
           /\ VisibleLinear'
<1> USE DEF IInv, NoRowAdded
<1>1. \A w \in Writers : Linear(Visible(w))'
  <2> TAKE w \in Writers
  <2>1. CASE mine'[w] = mine[w]
    BY <2>1 DEF VisibleLinear, Visible
  <2>2. CASE mine'[w] = {}
    BY <2>2 DEF NoFork, Visible
  <2> QED
    BY <2>1, <2>2
<1> QED
  BY <1>1 DEF SeqsDrawn, MineAbove, NoFork, VisibleLinear

\* Every step keeps the chain linear for each transaction and complete for
\* the reader.
LEMMA ChainStep == IInv /\ [Next]_vars => ChainInv'
<1> SUFFICES ASSUME IInv, [Next]_vars PROVE ChainInv'
  OBVIOUS
<1>0. TypeOK /\ TypeOK' /\ ChainInv
  BY TypeStep DEF IInv, ChainInv
<1> USE <1>0, ChainAssumption DEF ChainInv, SeqsDrawn, LockGuardsRows, SeqAboveTail
<1>1. ASSUME NEW w \in Writers, BeginAppend(w) PROVE ChainInv'
  <2>1. NoRowAdded
    BY <1>1 DEF BeginAppend, NoRowAdded
  <2> QED
    BY <1>1, <2>1, NoRowAddedKeeps DEF BeginAppend, TypeOK
<1>2. ASSUME NEW w \in Writers, ReadTail(w) PROVE ChainInv'
  <2>1. NoRowAdded
    BY <1>2 DEF ReadTail, NoRowAdded
  <2> QED
    BY <1>2, <2>1, NoRowAddedKeeps DEF ReadTail, TypeOK
<1>3. ASSUME NEW w \in Writers, DrawSeq(w) PROVE ChainInv'
  <2>1. NoRowAdded
    BY <1>3 DEF DrawSeq, NoRowAdded
  <2>2. lastSeq' = lastSeq + 1 /\ \A r \in entries' : r.seq \in Nat
    BY <1>3 DEF DrawSeq, TypeOK, Entry
  <2>3. \A v \in Writers : \A r \in mine'[v] : r.seq \in Nat
    BY DEF TypeOK, Entry
  <2> QED
    BY <1>3, <2>1, <2>2, <2>3, NoRowAddedKeeps DEF DrawSeq, TypeOK
<1>4. ASSUME NEW w \in Writers, TakeLock(w) PROVE ChainInv'
  <2>1. NoRowAdded
    BY <1>4 DEF TakeLock, NoRowAdded
  <2> QED
    BY <1>4, <2>1, NoRowAddedKeeps DEF TakeLock, LockFree, TypeOK
<1>5. ASSUME NEW w \in Writers, InsertRow(w) PROVE ChainInv'
  <2> DEFINE new == [seq |-> seq[w], prev |-> tail[w]]
  <2>1. /\ mine' = [mine EXCEPT ![w] = @ \union {new}]
        /\ UNCHANGED <<entries, lastSeq, holder, tail, seq>>
        /\ pc[w] = "check" /\ pc' = [pc EXCEPT ![w] = "open"]
        /\ IsTail(tail[w], Visible(w))
    BY <1>5 DEF InsertRow, TailUnmoved
  <2>2. Visible(w) \in SUBSET Entry /\ tail[w] \in Nat /\ seq[w] \in Nat /\ tail[w] < seq[w]
    BY <2>1 DEF TypeOK, Visible
  <2>3. /\ new \in Entry
        /\ \A q \in Visible(w) : q.seq < seq[w]
        /\ Linear(Visible(w) \union {new})
    BY <2>1, <2>2, LinearExtend DEF VisibleLinear
  <2>4. Visible(w)' = Visible(w) \union {new}
    BY <2>1 DEF Visible, TypeOK
  <2>5. holder = w /\ \A v \in Writers : v # w => mine'[v] = mine[v] /\ mine[v] = {}
    BY <2>1 DEF TypeOK
  <2>6. VisibleLinear'
    <3> SUFFICES ASSUME NEW v \in Writers PROVE Linear(Visible(v))'
      BY DEF VisibleLinear
    <3>1. CASE v = w
      BY <2>3, <2>4, <3>1
    <3>2. CASE v # w
      BY <2>1, <2>5, <3>2 DEF Visible, VisibleLinear
    <3> QED
      BY <3>1, <3>2
  <2>7. MineAbove'
    BY <2>1, <2>3, <2>5 DEF MineAbove, Visible, TypeOK
  <2>8. NoFork'
    BY <2>1 DEF NoFork
  <2>9. SeqsDrawn'
    BY <2>1 DEF TypeOK
  <2> QED
    BY <2>1, <2>5, <2>6, <2>7, <2>8, <2>9 DEF TypeOK
<1>6. ASSUME NEW w \in Writers, ChainBreak(w) PROVE ChainInv'
  <2>1. NoRowAdded
    BY <1>6 DEF ChainBreak, NoRowAdded
  <2> QED
    BY <1>6, <2>1, NoRowAddedKeeps DEF ChainBreak, HolderAfterSavepoint, ResumeAt, TypeOK
<1>7. ASSUME NEW w \in Writers, AppendFailed(w) PROVE ChainInv'
  <2>1. NoRowAdded
    BY <1>7 DEF AppendFailed, Forget, NoRowAdded, TypeOK
  <2> QED
    BY <1>7, <2>1, NoRowAddedKeeps DEF AppendFailed, Forget, Genesis, TypeOK
<1>8. ASSUME NEW w \in Writers, Commit(w) PROVE ChainInv'
  <2>1. /\ entries' = entries \union mine[w]
        /\ mine' = [mine EXCEPT ![w] = {}]
        /\ tail' = [tail EXCEPT ![w] = Genesis]
        /\ seq' = [seq EXCEPT ![w] = Genesis]
        /\ UNCHANGED lastSeq
        /\ pc' = [pc EXCEPT ![w] = "done"]
        /\ holder' = Nobody
    BY <1>8 DEF Commit, Forget, LockReleased
  <2>2. mine[w] # {} /\ holder = w
    BY <1>8 DEF Commit, Forget
  <2>3. \A v \in Writers : mine'[v] = {} /\ pc'[v] # "check"
    BY <2>1, <2>2 DEF TypeOK
  <2>4. \A v \in Writers : pc'[v] # "open"
    BY <1>8, <2>1, <2>2 DEF TypeOK
  <2>5. NoFork' /\ entries' = Visible(w)
    BY <2>1 DEF NoFork, VisibleLinear, Visible
  <2>6. VisibleLinear'
    BY <2>3, <2>5 DEF VisibleLinear, NoFork, Visible
  <2> QED
    BY <2>1, <2>3, <2>4, <2>5, <2>6 DEF MineAbove, Genesis, TypeOK
<1>9. ASSUME NEW w \in Writers, Rollback(w) PROVE ChainInv'
  <2>1. NoRowAdded
    BY <1>9 DEF Rollback, Forget, NoRowAdded, TypeOK
  <2> QED
    BY <1>9, <2>1, NoRowAddedKeeps DEF Rollback, Forget, Genesis, TypeOK
<1>10. CASE UNCHANGED <<entries, mine, lastSeq, holder, writerVars>>
  BY <1>10 DEF writerVars, MineAbove, NoFork, VisibleLinear, Visible
<1> QED
  BY <1>1, <1>2, <1>3, <1>4, <1>5, <1>6, <1>7, <1>8, <1>9, <1>10
  DEF Next, Advance, AllAnswered, ReadPage, vars

-----------------------------------------------------------------------------
(* A step that publishes nothing and fetches nothing leaves the reader as  *)
(* complete as it was; a commit publishes only beyond the cursor.          *)
LEMMA ReaderStep == IInv /\ [Next]_vars => ReaderInv'
<1> SUFFICES ASSUME IInv, [Next]_vars PROVE ReaderInv'
  OBVIOUS
<1> USE DEF ReaderInv, ReaderMissesNothing, CursorAfterEntry
<1>1. CASE UNCHANGED <<entries, readerVars>>
  BY <1>1 DEF IInv, readerVars
<1>2. ASSUME NEW w \in Writers, Commit(w) PROVE ReaderInv'
  <2>1. /\ entries' = entries \union mine[w]
        /\ UNCHANGED <<seen, cursor>>
    BY <1>2 DEF Commit, Forget, readerVars
  <2>2. \A r \in mine[w] : r.seq \in Nat /\ cursor <= r.seq
    BY DEF IInv, MineAbove, TypeOK, Entry
  <2>3. {r \in entries' : r.seq < cursor} = {r \in entries : r.seq < cursor}
    BY <2>1, <2>2 DEF IInv, TypeOK
  <2> QED
    BY <2>1, <2>3 DEF IInv
<1>3. CASE ReadPage
  <2>1. PICK r \in entries :
        /\ r.seq >= cursor
        /\ seen' = seen \union {q \in entries : q.seq >= cursor /\ q.seq <= r.seq}
        /\ cursor' = r.seq + 1
        /\ entries' = entries
    BY <1>3 DEF ReadPage
  <2>2. cursor \in Nat /\ \A q \in entries : q.seq \in Nat
    BY DEF IInv, TypeOK, Entry
  <2>3. seen = {q \in entries : q.seq < cursor}
    BY DEF IInv
  <2> QED
    BY <2>1, <2>2, <2>3
<1> QED
  BY <1>1, <1>2, <1>3
  DEF Next, vars, AllAnswered, Advance, BeginAppend, ReadTail, DrawSeq, TakeLock,
      InsertRow, ChainBreak, AppendFailed, Rollback

\* The inductive invariant holds in every state.
THEOREM Invariance == Spec => []IInv
<1>1. Init => IInv
  BY InitIInv
<1>2. IInv /\ [Next]_vars => IInv'
  BY TypeStep, ChainStep, ReaderStep DEF IInv, ChainInv, ReaderInv
<1> QED
  BY <1>1, <1>2, PTL DEF Spec

(* LedgerChain keeps its types.                                            *)
THEOREM TypeCorrect == Spec => []TypeOK
BY Invariance, PTL DEF IInv

(* The published chain never forks and never has a gap.                    *)
THEOREM ChainNeverForks == Spec => []NoFork
BY Invariance, PTL DEF IInv

(* A verifier paging by seq is never overtaken by an older number.         *)
THEOREM ReaderComplete == Spec => []ReaderMissesNothing
BY Invariance, PTL DEF IInv

-----------------------------------------------------------------------------
(* Every step publishes nothing, or is one Publish of the abstract log.    *)
LEMMA PublishStep == IInv /\ [Next]_vars => [Publish]_entries
<1> SUFFICES ASSUME IInv, [Next]_vars, entries' # entries PROVE Publish
  OBVIOUS
<1>1. PICK w \in Writers : Commit(w)
  BY DEF Next, vars, AllAnswered, Advance, BeginAppend, ReadTail, DrawSeq, TakeLock,
     InsertRow, ChainBreak, AppendFailed, Rollback, ReadPage
<1>2. entries' = entries \union mine[w]
  BY <1>1 DEF Commit, Forget
<1>3. Linear(entries')
  BY ChainStep DEF ChainInv, NoFork
<1>4. entries' \subseteq Entry
  BY TypeStep DEF TypeOK
<1> QED
  BY <1>2, <1>3, <1>4 DEF Publish, IInv, MineAbove

(* What the writers, the trigger and the transactions do together is what  *)
(* AppendLog promises.                                                     *)
THEOREM ChainImplementsLog == Spec => Published
<1>1. Init => LogInit
  BY DEF Init
<1> QED
  BY <1>1, PublishStep, Invariance, PTL DEF Spec, Published, LogSpec

-----------------------------------------------------------------------------
(* The retry's accounting: as long as nobody has committed since the tail  *)
(* was read, it is still the tail, so a lost attempt uses up a commit.     *)
RaceInv ==
    \A w \in Writers :
        /\ pc[w] \in InTransaction =>
              began[w] <= commits /\ attempt[w] - 1 <= commits - began[w]
        /\ pc[w] \in {"insert", "lock", "check"} =>
              /\ readAt[w] <= commits
              /\ attempt[w] - 1 <= readAt[w] - began[w]
              /\ readAt[w] = commits => IsTail(tail[w], Visible(w))

(* A step of w that keeps everybody's rows and history leaves the other    *)
(* writers' accounts alone.                                                *)
LEMMA RaceFrame ==
    ASSUME RaceInv, TypeOK, TypeOK', NEW w \in Writers,
           entries' = entries, commits' = commits,
           \A v \in Writers : v # w =>
              /\ pc'[v] = pc[v] /\ mine'[v] = mine[v] /\ tail'[v] = tail[v]
              /\ attempt'[v] = attempt[v] /\ began'[v] = began[v] /\ readAt'[v] = readAt[v]
    PROVE  \A v \in Writers : v # w =>
              /\ pc'[v] \in InTransaction =>
                    began'[v] <= commits' /\ attempt'[v] - 1 <= commits' - began'[v]
              /\ pc'[v] \in {"insert", "lock", "check"} =>
                    /\ readAt'[v] <= commits'
                    /\ attempt'[v] - 1 <= readAt'[v] - began'[v]
                    /\ readAt'[v] = commits' => IsTail(tail'[v], entries' \union mine'[v])
BY DEF RaceInv, Visible

\* Every step keeps a lost race paid for by somebody's commit.
LEMMA RaceStep == IInv /\ RaceInv /\ [Next]_vars => RaceInv'
<1> SUFFICES ASSUME IInv, RaceInv, [Next]_vars PROVE RaceInv'
  OBVIOUS
<1>0. TypeOK /\ TypeOK' /\ LockGuardsRows
  BY TypeStep DEF IInv
<1> USE <1>0, ChainAssumption DEF InTransaction
<1>1. ASSUME NEW w \in Writers, BeginAppend(w) PROVE RaceInv'
  <2>1. /\ UNCHANGED <<entries, mine, commits, tail, readAt>>
        /\ pc' = [pc EXCEPT ![w] = "tail"]
        /\ attempt' = [attempt EXCEPT ![w] = 1]
        /\ began' = [began EXCEPT ![w] = commits]
    BY <1>1 DEF BeginAppend
  <2>2. pc'[w] = "tail" /\ attempt'[w] = 1 /\ began'[w] = commits /\ commits' \in Nat
    BY <2>1 DEF TypeOK
  <2>3. \A v \in Writers : v # w =>
          pc'[v] = pc[v] /\ attempt'[v] = attempt[v] /\ began'[v] = began[v]
    BY <2>1 DEF TypeOK
  <2> QED
    BY <2>1, <2>2, <2>3, RaceFrame DEF RaceInv, Visible
<1>2. ASSUME NEW w \in Writers, ReadTail(w) PROVE RaceInv'
  <2>1. PICK s \in 0..lastSeq :
          IsTail(s, Visible(w)) /\ tail' = [tail EXCEPT ![w] = s]
    BY <1>2 DEF ReadTail
  <2>2. /\ UNCHANGED <<entries, mine, commits, attempt, began>>
        /\ pc[w] = "tail" /\ pc' = [pc EXCEPT ![w] = "insert"]
        /\ readAt' = [readAt EXCEPT ![w] = commits]
    BY <1>2 DEF ReadTail
  <2>3. pc'[w] = "insert" /\ tail'[w] = s /\ readAt'[w] = commits /\ commits \in Nat
    BY <2>1, <2>2 DEF TypeOK
  <2>4. began[w] <= commits /\ attempt[w] - 1 <= commits - began[w]
    BY <2>2 DEF RaceInv
  <2>5. \A v \in Writers : v # w =>
          pc'[v] = pc[v] /\ tail'[v] = tail[v] /\ readAt'[v] = readAt[v]
    BY <2>1, <2>2 DEF TypeOK
  <2>6. /\ readAt'[w] <= commits' /\ attempt'[w] - 1 <= readAt'[w] - began'[w]
        /\ began'[w] <= commits' /\ attempt'[w] - 1 <= commits' - began'[w]
        /\ IsTail(tail'[w], entries' \union mine'[w])
    BY <2>1, <2>2, <2>3, <2>4 DEF Visible
  <2> QED
    BY <2>2, <2>5, <2>6, RaceFrame DEF RaceInv, Visible
<1>3. ASSUME NEW w \in Writers, DrawSeq(w) PROVE RaceInv'
  BY <1>3, RaceFrame DEF DrawSeq, RaceInv, TypeOK, Visible, history
<1>4. ASSUME NEW w \in Writers, TakeLock(w) PROVE RaceInv'
  BY <1>4, RaceFrame DEF TakeLock, RaceInv, TypeOK, Visible, history
<1>5. ASSUME NEW w \in Writers, InsertRow(w) PROVE RaceInv'
  BY <1>5, RaceFrame DEF InsertRow, RaceInv, TypeOK, Visible, history
<1>6. ASSUME NEW w \in Writers, ChainBreak(w) PROVE RaceInv'
  <2>1. /\ UNCHANGED <<entries, mine, tail, commits, began, readAt>>
        /\ pc[w] = "check" /\ ~IsTail(tail[w], Visible(w))
        /\ pc' = [pc EXCEPT ![w] = "tail"]
        /\ attempt' = [attempt EXCEPT ![w] = @ + 1]
    BY <1>6 DEF ChainBreak, TailUnmoved, ResumeAt, history
  <2>2. readAt[w] < commits /\ attempt[w] - 1 <= readAt[w] - began[w] /\ began[w] <= commits
    BY <2>1 DEF RaceInv, TypeOK
  <2>3. attempt[w] - 1 < commits - began[w]
    BY <2>2 DEF TypeOK
  <2>4. pc'[w] = "tail" /\ attempt'[w] = attempt[w] + 1
    BY <2>1 DEF TypeOK
  <2>5. attempt'[w] - 1 <= commits' - began'[w]
    BY <2>1, <2>3, <2>4 DEF TypeOK
  <2>6. \A v \in Writers : v # w => pc'[v] = pc[v] /\ attempt'[v] = attempt[v]
    BY <2>1 DEF TypeOK
  <2> QED
    BY <2>1, <2>2, <2>4, <2>5, <2>6, RaceFrame DEF RaceInv, Visible
<1>7. ASSUME NEW w \in Writers, AppendFailed(w) PROVE RaceInv'
  BY <1>7, RaceFrame DEF AppendFailed, Forget, RaceInv, TypeOK, Visible, history
<1>8. ASSUME NEW w \in Writers, Commit(w) PROVE RaceInv'
  <2>1. /\ commits' = commits + 1
        /\ pc' = [pc EXCEPT ![w] = "done"]
        /\ tail' = [tail EXCEPT ![w] = Genesis]
        /\ attempt' = [attempt EXCEPT ![w] = 1]
        /\ began' = [began EXCEPT ![w] = 0]
        /\ readAt' = [readAt EXCEPT ![w] = 0]
    BY <1>8 DEF Commit, Forget
  <2>2. pc'[w] = "done" /\ \A v \in Writers \ {w} :
          /\ pc'[v] = pc[v] /\ tail'[v] = tail[v] /\ attempt'[v] = attempt[v]
          /\ began'[v] = began[v] /\ readAt'[v] = readAt[v]
    BY <2>1 DEF TypeOK
  <2> QED
    BY <2>1, <2>2 DEF RaceInv, TypeOK
<1>9. ASSUME NEW w \in Writers, Rollback(w) PROVE RaceInv'
  BY <1>9, RaceFrame DEF Rollback, Forget, RaceInv, TypeOK, Visible, history
<1>10. CASE UNCHANGED <<entries, mine, writerVars, history>>
  BY <1>10 DEF RaceInv, writerVars, history, Visible
<1> QED
  BY <1>1, <1>2, <1>3, <1>4, <1>5, <1>6, <1>7, <1>8, <1>9, <1>10
  DEF Next, Advance, AllAnswered, ReadPage, vars

(* ChainAppendFailed is never caused by writers that rolled back: every    *)
(* lost attempt is one commit by another transaction during this append.   *)
THEOREM LostRaceIsACommit == Spec => []LostRacesAreCommits
<1>1. Init => RaceInv
  BY ChainAssumption DEF Init, RaceInv, InTransaction
<1>2. RaceInv => LostRacesAreCommits
  BY DEF RaceInv, LostRacesAreCommits
<1> QED
  BY <1>1, <1>2, RaceStep, Invariance, PTL DEF Spec

\* A failed last attempt has read a tail after as many commits as it has lost
\* tries, and one more commit has moved that tail.
LEMMA FailureStep == IInv /\ RaceInv => \A w \in Writers : AppendFailed(w) => MaxAttempts <= commits - began[w]
<1> SUFFICES ASSUME IInv, RaceInv, NEW w \in Writers, AppendFailed(w)
             PROVE  MaxAttempts <= commits - began[w]
  OBVIOUS
<1>1. pc[w] = "check" /\ ~IsTail(tail[w], Visible(w)) /\ ~(attempt[w] < MaxAttempts)
  BY DEF AppendFailed, TailUnmoved, AttemptsLeft
<1>2. /\ attempt[w] \in 1..MaxAttempts /\ MaxAttempts \in Nat
      /\ commits \in Nat /\ began[w] \in Nat /\ readAt[w] \in Nat
  BY ChainAssumption DEF IInv, TypeOK
<1>3. attempt[w] = MaxAttempts
  BY <1>1, <1>2
<1>4. readAt[w] < commits /\ attempt[w] - 1 <= readAt[w] - began[w]
  BY <1>1, <1>2 DEF RaceInv
<1> QED
  BY <1>2, <1>3, <1>4

(* ChainAppendFailed answers only a writer that MaxAttempts other          *)
(* transactions committed past.                                            *)
THEOREM FailureCostsCommits == Spec => FailuresCostCommits
<1>1. Init => RaceInv
  BY ChainAssumption DEF Init, RaceInv, InTransaction
<1> QED
  BY <1>1, FailureStep, RaceStep, Invariance, PTL DEF Spec, FailuresCostCommits

-----------------------------------------------------------------------------
(* The lock and those who hold it, the other way round: a holder has a     *)
(* reason to hold it.                                                      *)
HolderIsInTransaction ==
    \A w \in Writers :
        /\ holder = w => pc[w] = "check" \/ mine[w] # {}
        /\ mine[w] # {} => pc[w] \in InTransaction

\* Whoever takes the lock goes on to check its row, and whoever leaves the
\* transaction leaves the lock.
LEMMA HolderStep == IInv /\ HolderIsInTransaction /\ [Next]_vars => HolderIsInTransaction'
<1> SUFFICES ASSUME IInv, HolderIsInTransaction, [Next]_vars PROVE HolderIsInTransaction'
  OBVIOUS
<1>0. TypeOK /\ LockGuardsRows
  BY DEF IInv
<1> USE <1>0, ChainAssumption
    DEF HolderIsInTransaction, LockGuardsRows, InTransaction, TypeOK
<1>1. ASSUME NEW w \in Writers, BeginAppend(w) PROVE HolderIsInTransaction'
  BY <1>1 DEF BeginAppend
<1>2. ASSUME NEW w \in Writers, ReadTail(w) \/ DrawSeq(w) PROVE HolderIsInTransaction'
  BY <1>2 DEF ReadTail, DrawSeq
<1>3. ASSUME NEW w \in Writers, TakeLock(w) PROVE HolderIsInTransaction'
  BY <1>3 DEF TakeLock
<1>4. ASSUME NEW w \in Writers, InsertRow(w) PROVE HolderIsInTransaction'
  BY <1>4 DEF InsertRow
<1>5. ASSUME NEW w \in Writers, ChainBreak(w) PROVE HolderIsInTransaction'
  BY <1>5 DEF ChainBreak, HolderAfterSavepoint, ResumeAt
<1>6. ASSUME NEW w \in Writers, AppendFailed(w) \/ Commit(w) PROVE HolderIsInTransaction'
  BY <1>6 DEF AppendFailed, Commit, Forget, LockReleased
<1>7. ASSUME NEW w \in Writers, Rollback(w) PROVE HolderIsInTransaction'
  BY <1>7 DEF Rollback, Forget
<1>8. CASE UNCHANGED <<entries, mine, lastSeq, holder, writerVars>>
  BY <1>8 DEF writerVars
<1> QED
  BY <1>1, <1>2, <1>3, <1>4, <1>5, <1>6, <1>7, <1>8
  DEF Next, Advance, AllAnswered, ReadPage, vars

(* No writer waits for a lock that nobody will release.                    *)
THEOREM LockHasAnOwner == Spec => []LockIsNeverOrphaned
<1>1. Init => HolderIsInTransaction
  BY ChainAssumption DEF Init, HolderIsInTransaction
<1>2. IInv /\ HolderIsInTransaction => LockIsNeverOrphaned
  BY DEF IInv, LockGuardsRows, HolderIsInTransaction, LockIsNeverOrphaned, InTransaction
<1> QED
  BY <1>1, <1>2, HolderStep, Invariance, PTL DEF Spec

-----------------------------------------------------------------------------
(* Days.  The least-number principle comes from the library's theorem that *)
(* strict inclusion of finite sets is well-founded, at intervals from 1.   *)

\* A non-empty set of days has a first one.
LEMMA FirstDay ==
    ASSUME NEW S \in SUBSET Nat, S # {}
    PROVE  Min(S) \in S /\ \A c \in S : Min(S) <= c
<1> DEFINE D == {0..d : d \in S}
<1>1. D \subseteq FiniteSubsetsOf(Nat) /\ D # {}
  <2>1. \A d \in S : 0..d \subseteq Nat /\ IsFiniteSet(0..d)
    BY FS_Interval
  <2> QED BY <2>1 DEF FiniteSubsetsOf
<1>2. PICK I \in D : \A J \in D : ~(<<J, I>> \in StrictSubsetOrdering(Nat))
  <2> HIDE DEF D
  <2> QED BY <1>1, FS_StrictSubsetOrderingWellFounded, WFMin
<1>3. PICK d \in S : I = 0..d
  OBVIOUS
<1>4. ASSUME NEW c \in S PROVE d <= c
  <2> SUFFICES ASSUME c < d PROVE FALSE
    OBVIOUS
  <2>1. 0..c \subseteq Nat /\ 0..d \subseteq Nat /\ 0..c \subseteq 0..d /\ d \in 0..d /\ d \notin 0..c
    OBVIOUS
  <2>2. 0..c # 0..d
    BY <2>1
  <2>3. <<0..c, 0..d>> \in StrictSubsetOrdering(Nat)
    BY <2>1, <2>2 DEF StrictSubsetOrdering
  <2> QED BY <2>3, <1>2, <1>3
<1>5. Min(S) \in S /\ \A c \in S : Min(S) =< c
  <2>1. \E e \in S : \A c \in S : e =< c
    BY <1>4
  <2> QED BY <2>1, Zenon DEF Min
<1> QED BY <1>5

\* And, in a calendar, a last one.
LEMMA LastDay ==
    ASSUME NEW n \in Nat, NEW S \in SUBSET (1..n), S # {}
    PROVE  Max(S) \in S /\ \A c \in S : c <= Max(S)
<1> DEFINE T == {n - c : c \in S}
<1>1. T \in SUBSET Nat /\ T # {}
  <2>1. \A c \in S : n - c \in Nat
    OBVIOUS
  <2> QED BY <2>1
<1>2. Min(T) \in T /\ \A t \in T : Min(T) <= t
  <2> HIDE DEF T
  <2> QED BY <1>1, FirstDay
<1>3. PICK d \in S : Min(T) = n - d
  BY <1>2
<1>4. ASSUME NEW c \in S PROVE d >= c
  <2>1. n - d <= n - c
    BY <1>2, <1>3
  <2> QED BY <2>1
<1>5. Max(S) \in S /\ \A c \in S : Max(S) >= c
  <2>1. \E e \in S : \A c \in S : e >= c
    BY <1>4
  <2> QED BY <2>1, Zenon DEF Max
<1> QED BY <1>5

-----------------------------------------------------------------------------
(* The invariant of the anchors.                                           *)

Steps == {"list", "day", "latest", "insert"}
Stages == {"asked", "decided", "committed", "undone"}

\* A run's variables, with anchor records from Rows.
Session(Rows) ==
    [at : Steps, when : Calendar, left : SUBSET Calendar, found : SUBSET Releases,
     latest : Rows, own : [Calendar -> Rows]]

RowsFrom(Rows) ==
    /\ anchor \in [Calendar -> Rows]
    /\ run \in [Replicas -> {Asleep, Due} \union Session(Rows)]
    /\ NoAnchor \in Rows

AnchorsTyped ==
    /\ today \in Calendar
    /\ release \in [Releases -> [at : Stages, day : Nat, on : Nat]]
    /\ \E Rows : RowsFrom(Rows)

\* A release in flight was decided today or yesterday, and a day is a day.
ReleasesAreRecent ==
    \A r \in Releases :
        /\ release[r].at = "decided" => release[r].day <= today /\ today <= release[r].day + 1
        /\ release[r].at = "committed" => release[r].on <= today

\* What a run found for a day: all that was committed before the day was over.
Covers(S, d) ==
    /\ S \subseteq EntriesOf(d)
    /\ S # {}
    /\ \A r \in EntriesOf(d) \ S : release[r].on > d

\* Every day before d that has entries has a row.
NoHoleBefore(table, d) ==
    \A c \in Calendar : c < d /\ EntriesOf(c) # {} => table[c] # NoAnchor

\* A row as it should be, in a table without holes below it.
Sound(table, d) ==
    /\ Covers(table[d].entries, d)
    /\ NoHoleBefore(table, d)
    /\ table[d].prev = NewestBefore(table, d)

PublishedIsSound ==
    \A d \in Calendar : anchor[d] # NoAnchor => d < today /\ Sound(anchor, d)

\* What a run has inserted is its own, sound as the run sees the table, and
\* before everything it still has to do.
InsertedIsSound(w) ==
    \A d \in Calendar : run[w].own[d] # NoAnchor =>
        /\ anchor[d] = NoAnchor
        /\ \A v \in Replicas : Running(v) /\ v # w => run[v].own[d] = NoAnchor
        /\ d < run[w].when
        /\ \A c \in run[w].left : d < c
        /\ Sound(View(w), d)

\* A run misses no day but yesterday, whose last entries may come late.
WorkIsListed(w) ==
    /\ \A d \in run[w].left : d < run[w].when /\ EntriesOf(d) # {}
    /\ run[w].at = "list" =>
        run[w].left = {} /\ \A d \in Calendar : run[w].own[d] = NoAnchor
    /\ run[w].at # "list" => \A c \in Calendar :
        c + 1 < run[w].when /\ c \notin run[w].left /\ EntriesOf(c) # {}
            => View(w)[c] # NoAnchor

\* What it has read for the row it is about to insert, unless another is there.
ReadIsSound(w) ==
    /\ run[w].at \in {"latest", "insert"} =>
        run[w].left # {} /\ Covers(run[w].found, CurrentDay(w))
    /\ run[w].at = "insert" /\ anchor[CurrentDay(w)] = NoAnchor =>
        run[w].latest = NewestBefore(View(w), CurrentDay(w))

RunIsSound(w) ==
    /\ run[w].when <= today /\ today <= run[w].when + 1
    /\ InsertedIsSound(w)
    /\ WorkIsListed(w)
    /\ ReadIsSound(w)

AnchorsInv ==
    /\ AnchorsTyped
    /\ ReleasesAreRecent
    /\ PublishedIsSound
    /\ \A w \in Replicas : Running(w) => RunIsSound(w)

-----------------------------------------------------------------------------
\* The newest row below a day depends on the rows below it.
LEMMA NewestSame ==
    ASSUME AnchorAssumption, NEW f, NEW g, NEW d, NEW e,
           \A c \in Calendar : c < d /\ f[c] # NoAnchor <=> c < e /\ g[c] # NoAnchor,
           \A c \in Calendar : c < d /\ f[c] # NoAnchor => f[c] = g[c]
    PROVE  NewestBefore(f, d) = NewestBefore(g, e)
<1> DEFINE S == {c \in Calendar : c < d /\ f[c] # NoAnchor}
           T == {c \in Calendar : c < e /\ g[c] # NoAnchor}
<1>1. S = T
  OBVIOUS
<1>2. S # {} => Max(S) \in S
  <2>1. Days \in Nat /\ S \in SUBSET (1..Days)
    BY DEF AnchorAssumption, Calendar
  <2> HIDE DEF S
  <2> QED BY <2>1, LastDay
<1>3. S # {} => f[Max(S)] = g[Max(S)]
  BY <1>2
<1>4. NewestBefore(f, d) = IF S = {} THEN NoAnchor ELSE f[Max(S)]
  BY DEF NewestBefore
<1>5. NewestBefore(g, e) = IF T = {} THEN NoAnchor ELSE g[Max(T)]
  BY DEF NewestBefore
<1> HIDE DEF S, T
<1> QED BY <1>1, <1>3, <1>4, <1>5

\* The day a run is on.
LEMMA CurrentIsFirst ==
    ASSUME AnchorAssumption, NEW w \in Replicas, run[w].left \in SUBSET Calendar,
           run[w].left # {}
    PROVE  /\ CurrentDay(w) \in run[w].left
           /\ \A d \in run[w].left : CurrentDay(w) <= d
<1>1. run[w].left \in SUBSET Nat
  BY DEF Calendar, AnchorAssumption
<1> QED BY <1>1, FirstDay DEF CurrentDay

\* A running replica has a session.
LEMMA RunningHasSession ==
    ASSUME NEW Rows, RowsFrom(Rows), NEW w \in Replicas
    PROVE  /\ Running(w) <=> run[w] \in Session(Rows)
           /\ run[w].at \in Steps <=> Running(w)
<1>1. run[w] \in {Asleep, Due} \union Session(Rows)
  BY DEF RowsFrom
<1>2. \A s \in Session(Rows) : s.at \in Steps
  BY DEF Session
<1>3. Asleep.at \notin Steps /\ Due.at \notin Steps
  BY DEF Asleep, Due, Steps
<1> QED BY <1>1, <1>2, <1>3 DEF Running

LEMMA DaysAreNumbers ==
    ASSUME AnchorAssumption
    PROVE  Calendar \subseteq Nat /\ \A d \in Calendar : d \in Nat
BY DEF Calendar, AnchorAssumption

\* Time passes and requests end: what was anchored stays sound, because the
\* entries that may still come belong to yesterday or today.
LEMMA TimePasses ==
    ASSUME AnchorAssumption, AnchorsInv, AnchorsTyped', ReleasesAreRecent',
           anchor' = anchor, today <= today',
           \A w \in Replicas : Running(w)' =>
                Running(w) /\ run'[w] = run[w] /\ today' <= run[w].when + 1,
           \A d \in Calendar :
                /\ \A r \in EntriesOf(d) : r \in EntriesOf(d)' /\ release'[r] = release[r]
                /\ \A r \in EntriesOf(d)' :
                    r \in EntriesOf(d) \/ (today <= d + 1 /\ today <= release'[r].on)
    PROVE  AnchorsInv'
<1> USE DaysAreNumbers
<1>1. today \in Nat /\ today' \in Nat
  BY DEF AnchorsInv, AnchorsTyped
<1>2. ASSUME NEW S, NEW d \in Calendar, d < today, Covers(S, d)
      PROVE  Covers(S, d)'
  <2>1. \A r \in EntriesOf(d)' : r \in Releases /\ release'[r].on \in Nat
    BY DEF EntriesOf, AnchorsTyped
  <2> QED BY <1>1, <1>2, <2>1 DEF Covers
<1>3. ASSUME NEW table, NEW d \in Calendar, d < today, NoHoleBefore(table, d)
      PROVE  NoHoleBefore(table, d)'
  <2> SUFFICES ASSUME NEW c \in Calendar, c < d, EntriesOf(c)' # {}
               PROVE  table[c] # NoAnchor
    BY DEF NoHoleBefore
  <2>1. ~(today <= c + 1)
    BY <1>1, <1>3
  <2>2. EntriesOf(c) # {}
    BY <2>1
  <2> QED BY <2>2, <1>3 DEF NoHoleBefore
<1>4. ASSUME NEW table, NEW d \in Calendar, d < today, Sound(table, d)
      PROVE  Covers(table[d].entries, d)' /\ NoHoleBefore(table, d)'
  BY <1>2, <1>3, <1>4 DEF Sound
<1>5. PublishedIsSound'
  <2> SUFFICES ASSUME NEW d \in Calendar, anchor[d] # NoAnchor
               PROVE  d < today' /\ Sound(anchor, d)'
    BY DEF PublishedIsSound
  <2>1. d < today /\ Sound(anchor, d)
    BY DEF AnchorsInv, PublishedIsSound
  <2> QED BY <2>1, <1>1, <1>4 DEF Sound
<1>6. ASSUME NEW w \in Replicas, Running(w)'
      PROVE  RunIsSound(w)'
  <2>1. Running(w) /\ run'[w] = run[w] /\ today' <= run[w].when + 1 /\ RunIsSound(w)
    BY <1>6 DEF AnchorsInv
  <2>2. run[w].when \in Calendar /\ run[w].left \in SUBSET Calendar
    <3>1. PICK Rows : RowsFrom(Rows)
      BY DEF AnchorsInv, AnchorsTyped
    <3>2. run[w] \in Session(Rows)
      BY <2>1, <3>1, RunningHasSession
    <3> QED BY <3>2 DEF Session
  <2>3. run[w].when <= today /\ today <= run[w].when + 1
    BY <2>1 DEF RunIsSound
  <2>4. View(w)' = View(w)
    BY <2>1 DEF View
  <2>5. InsertedIsSound(w)'
    <3> SUFFICES ASSUME NEW d \in Calendar, run[w].own[d] # NoAnchor
                 PROVE  /\ anchor[d] = NoAnchor
                        /\ \A v \in Replicas : Running(v)' /\ v # w => run'[v].own[d] = NoAnchor
                        /\ d < run[w].when
                        /\ \A c \in run[w].left : d < c
                        /\ Sound(View(w), d)'
      BY <2>1 DEF InsertedIsSound
    <3>1. /\ anchor[d] = NoAnchor
          /\ \A v \in Replicas : Running(v) /\ v # w => run[v].own[d] = NoAnchor
          /\ d < run[w].when
          /\ \A c \in run[w].left : d < c
          /\ Sound(View(w), d)
      BY <2>1 DEF RunIsSound, InsertedIsSound
    <3>2. d < today
      BY <3>1, <2>2, <2>3, <1>1
    <3>3. Sound(View(w), d)'
      BY <1>4, <3>1, <3>2, <2>4 DEF Sound
    <3> QED BY <3>1, <3>3
  <2>6. WorkIsListed(w)'
    <3>1. \A d \in run[w].left : d < run[w].when /\ EntriesOf(d)' # {}
      BY <2>1, <2>2 DEF RunIsSound, WorkIsListed
    <3>2. ASSUME NEW c \in Calendar, c + 1 < run[w].when, EntriesOf(c)' # {}
          PROVE  EntriesOf(c) # {}
      <4>1. ~(today <= c + 1)
        BY <3>2, <2>2, <2>3, <1>1
      <4> QED BY <4>1, <3>2
    <3> QED BY <2>1, <2>2, <2>4, <3>1, <3>2 DEF RunIsSound, WorkIsListed
  <2>7. ReadIsSound(w)'
    <3>1. CurrentDay(w)' = CurrentDay(w)
      BY <2>1 DEF CurrentDay
    <3>2. ASSUME run[w].at \in {"latest", "insert"}
          PROVE  run[w].left # {} /\ Covers(run[w].found, CurrentDay(w))'
      <4>1. run[w].left # {} /\ Covers(run[w].found, CurrentDay(w))
        BY <3>2, <2>1 DEF RunIsSound, ReadIsSound
      <4>2. CurrentDay(w) \in run[w].left
        BY <4>1, <2>2, CurrentIsFirst
      <4>3. CurrentDay(w) \in Calendar /\ CurrentDay(w) < today
        BY <4>2, <2>1, <2>2, <2>3, <1>1 DEF RunIsSound, WorkIsListed
      <4>4. PICK d \in Calendar, S \in {run[w].found} : d = CurrentDay(w)
        BY <4>3
      <4>5. Covers(S, d)'
        BY <4>1, <4>3, <4>4, <1>2
      <4> QED BY <4>1, <4>4, <4>5, <3>1, <2>1 DEF Covers
    <3>3. run[w].at = "insert" /\ anchor[CurrentDay(w)] = NoAnchor =>
            run[w].latest = NewestBefore(View(w), CurrentDay(w))
      BY <2>1 DEF RunIsSound, ReadIsSound
    <3> QED BY <2>1, <2>4, <3>1, <3>2, <3>3 DEF ReadIsSound, NewestBefore
  <2> QED BY <2>1, <2>2, <2>3, <2>5, <2>6, <2>7, <1>1 DEF RunIsSound
<1> QED BY <1>5, <1>6 DEF AnchorsInv

\* A step of one worker that publishes nothing: the others' runs stay sound, if
\* what it inserts was free.
LEMMA OneWorks ==
    ASSUME AnchorAssumption, AnchorsInv, AnchorsTyped',
           NEW w \in Replicas, UNCHANGED <<today, release, anchor>>,
           \A v \in Replicas : v # w => run'[v] = run[v],
           Running(w)' => RunIsSound(w)',
           Running(w)' => \A d \in Calendar : run'[w].own[d] # NoAnchor =>
                \/ Running(w) /\ run[w].own[d] # NoAnchor
                \/ \A v \in Replicas : Running(v) => run[v].own[d] = NoAnchor
    PROVE  AnchorsInv'
<1>1. \A d : EntriesOf(d)' = EntriesOf(d)
  BY DEF EntriesOf
<1>2. ReleasesAreRecent'
  BY DEF AnchorsInv, ReleasesAreRecent
<1>3. \A S, d : Covers(S, d) => Covers(S, d)'
  BY <1>1 DEF Covers
<1>4. \A table, d : NoHoleBefore(table, d) => NoHoleBefore(table, d)'
  BY <1>1 DEF NoHoleBefore
<1>5. \A table, d : Sound(table, d) => Sound(table, d)'
  BY <1>3, <1>4 DEF Sound
<1>6. PublishedIsSound'
  BY <1>5 DEF AnchorsInv, PublishedIsSound
<1>7. ASSUME NEW v \in Replicas, v # w, Running(v)'
      PROVE  RunIsSound(v)'
  <2>1. run'[v] = run[v] /\ Running(v) /\ RunIsSound(v)
    BY <1>7 DEF AnchorsInv, Running
  <2>2. View(v)' = View(v) /\ CurrentDay(v)' = CurrentDay(v)
    BY <2>1 DEF View, CurrentDay
  <2>3. InsertedIsSound(v)'
    <3> SUFFICES ASSUME NEW d \in Calendar, run[v].own[d] # NoAnchor
                 PROVE  /\ anchor[d] = NoAnchor
                        /\ \A u \in Replicas : Running(u)' /\ u # v => run'[u].own[d] = NoAnchor
                        /\ d < run[v].when
                        /\ \A c \in run[v].left : d < c
                        /\ Sound(View(v), d)'
      BY <2>1 DEF InsertedIsSound
    <3>1. /\ anchor[d] = NoAnchor
          /\ \A u \in Replicas : Running(u) /\ u # v => run[u].own[d] = NoAnchor
          /\ d < run[v].when
          /\ \A c \in run[v].left : d < c
          /\ Sound(View(v), d)
      BY <2>1 DEF RunIsSound, InsertedIsSound
    <3>2. \A u \in Replicas : Running(u)' /\ u # v => run'[u].own[d] = NoAnchor
      <4> SUFFICES ASSUME NEW u \in Replicas, Running(u)', u # v
                   PROVE  run'[u].own[d] = NoAnchor
        OBVIOUS
      <4>1. CASE u = w
        BY <4>1, <3>1, <2>1
      <4>2. CASE u # w
        BY <4>2, <3>1 DEF Running
      <4> QED BY <4>1, <4>2
    <3>3. Sound(View(v), d)'
      BY <3>1, <1>5, <2>2 DEF Sound
    <3> QED BY <3>1, <3>2, <3>3
  <2>4. WorkIsListed(v)'
    BY <1>1, <2>1, <2>2 DEF RunIsSound, WorkIsListed
  <2>5. ReadIsSound(v)'
    <3>1. run[v].at \in {"latest", "insert"} =>
            run[v].left # {} /\ Covers(run[v].found, CurrentDay(v))
      BY <2>1 DEF RunIsSound, ReadIsSound
    <3>2. Covers(run[v].found, CurrentDay(v)) => Covers(run[v].found, CurrentDay(v))'
      BY <1>1, <2>1, <2>2 DEF Covers
    <3>3. run[v].at = "insert" /\ anchor[CurrentDay(v)] = NoAnchor =>
            run[v].latest = NewestBefore(View(v), CurrentDay(v))
      BY <2>1 DEF RunIsSound, ReadIsSound
    <3> QED BY <2>1, <2>2, <3>1, <3>2, <3>3 DEF ReadIsSound, NewestBefore
  <2> QED BY <2>1, <2>3, <2>4, <2>5 DEF RunIsSound
<1> QED BY <1>2, <1>6, <1>7 DEF AnchorsInv

-----------------------------------------------------------------------------
(* The actions.                                                            *)

LEMMA DecideKeeps ==
    ASSUME AnchorAssumption, AnchorsInv, NEW r \in Releases, Decide(r)
    PROVE  AnchorsInv'
<1> USE DaysAreNumbers
<1>1. today \in Nat
  BY DEF AnchorsInv, AnchorsTyped
<1>2. release' = [release EXCEPT ![r] = [at |-> "decided", day |-> today, on |-> 0]]
      /\ UNCHANGED <<today, anchor, run>> /\ release[r].at = "asked"
  BY DEF Decide
<1>3. AnchorsTyped'
  BY <1>1, <1>2 DEF AnchorsInv, AnchorsTyped, Stages, RowsFrom, Session
<1>4. \A q \in Releases : q # r => release'[q] = release[q]
  BY <1>2 DEF AnchorsInv, AnchorsTyped
<1>5. release'[r] = [at |-> "decided", day |-> today, on |-> 0]
  BY <1>2 DEF AnchorsInv, AnchorsTyped
<1>6. ReleasesAreRecent'
  BY <1>1, <1>2, <1>4, <1>5 DEF AnchorsInv, ReleasesAreRecent
<1>7. \A d \in Calendar : EntriesOf(d)' = EntriesOf(d) /\ r \notin EntriesOf(d)
  BY <1>2, <1>4, <1>5 DEF EntriesOf
<1>8. \A d \in Calendar :
        /\ \A q \in EntriesOf(d) : q \in EntriesOf(d)' /\ release'[q] = release[q]
        /\ \A q \in EntriesOf(d)' : q \in EntriesOf(d)
  BY <1>4, <1>7 DEF EntriesOf
<1>9. \A w \in Replicas : Running(w)' =>
        Running(w) /\ run'[w] = run[w] /\ today' <= run[w].when + 1
  BY <1>2 DEF AnchorsInv, RunIsSound, Running
<1> QED BY <1>1, <1>2, <1>3, <1>6, <1>8, <1>9, TimePasses

LEMMA EndReleaseKeeps ==
    ASSUME AnchorAssumption, AnchorsInv, NEW r \in Releases, EndRelease(r)
    PROVE  AnchorsInv'
<1> USE DaysAreNumbers
<1>1. today \in Nat /\ release[r].day \in Nat
  BY DEF AnchorsInv, AnchorsTyped
<1>2. PICK end \in {"committed", "undone"} :
        release' = [release EXCEPT ![r].at = end, ![r].on = today]
  BY DEF EndRelease
<1>3. UNCHANGED <<today, anchor, run>> /\ release[r].at = "decided"
  BY DEF EndRelease
<1>4. AnchorsTyped'
  BY <1>1, <1>2, <1>3 DEF AnchorsInv, AnchorsTyped, Stages, RowsFrom, Session
<1>5. \A q \in Releases : q # r => release'[q] = release[q]
  BY <1>2 DEF AnchorsInv, AnchorsTyped
<1>6. release'[r].at = end /\ release'[r].day = release[r].day /\ release'[r].on = today
  BY <1>2 DEF AnchorsInv, AnchorsTyped
<1>7. ReleasesAreRecent'
  BY <1>1, <1>3, <1>5, <1>6 DEF AnchorsInv, ReleasesAreRecent
<1>8. \A d \in Calendar :
        /\ \A q \in EntriesOf(d) : q \in EntriesOf(d)' /\ release'[q] = release[q]
        /\ \A q \in EntriesOf(d)' :
            q \in EntriesOf(d) \/ (today <= d + 1 /\ today <= release'[q].on)
  <2>1. today <= release[r].day + 1
    BY <1>3 DEF AnchorsInv, ReleasesAreRecent
  <2> QED BY <1>1, <1>3, <1>5, <1>6, <2>1 DEF EntriesOf
<1>9. \A w \in Replicas : Running(w)' =>
        Running(w) /\ run'[w] = run[w] /\ today' <= run[w].when + 1
  BY <1>3 DEF AnchorsInv, RunIsSound, Running
<1> QED BY <1>1, <1>3, <1>4, <1>7, <1>8, <1>9, TimePasses

LEMMA MidnightKeeps ==
    ASSUME AnchorAssumption, AnchorsInv, Midnight
    PROVE  AnchorsInv'
<1> USE DaysAreNumbers
<1>1. today \in Nat /\ Days \in Nat /\ today < Days /\ today' = today + 1
  BY DEF AnchorsInv, AnchorsTyped, Midnight, AnchorAssumption
<1>2. UNCHANGED <<release, anchor>>
      /\ run' = [w \in Replicas |-> IF run[w] = Asleep THEN Due ELSE run[w]]
  BY DEF Midnight
<1>3. AnchorsTyped'
  <2>1. today' \in Calendar
    BY <1>1 DEF AnchorsInv, AnchorsTyped, Calendar
  <2>2. PICK Rows : RowsFrom(Rows)
    BY DEF AnchorsInv, AnchorsTyped
  <2>3. \A w \in Replicas : run'[w] \in {Asleep, Due} \union Session(Rows)
    BY <1>2, <2>2 DEF RowsFrom
  <2>4. RowsFrom(Rows)'
    BY <1>2, <2>2, <2>3 DEF RowsFrom, Session
  <2> QED BY <1>2, <2>1, <2>4 DEF AnchorsInv, AnchorsTyped
<1>4. ReleasesAreRecent'
  BY <1>1, <1>2 DEF AnchorsInv, AnchorsTyped, ReleasesAreRecent, Midnight
<1>5. \A w \in Replicas : Running(w)' =>
        Running(w) /\ run'[w] = run[w] /\ today' <= run[w].when + 1
  <2> SUFFICES ASSUME NEW w \in Replicas, Running(w)'
               PROVE  Running(w) /\ run'[w] = run[w] /\ today' <= run[w].when + 1
    OBVIOUS
  <2>1. Running(w) /\ run'[w] = run[w]
    BY <1>2 DEF Running
  <2>2. run[w].when = today
    BY <2>1 DEF Midnight
  <2> QED BY <1>1, <2>1, <2>2
<1>6. \A d \in Calendar : EntriesOf(d)' = EntriesOf(d)
  BY <1>2 DEF EntriesOf
<1>7. \A d \in Calendar :
        /\ \A q \in EntriesOf(d) : q \in EntriesOf(d)' /\ release'[q] = release[q]
        /\ \A q \in EntriesOf(d)' : q \in EntriesOf(d)
  BY <1>2, <1>6
<1> QED BY <1>1, <1>2, <1>3, <1>4, <1>5, <1>7, TimePasses

LEMMA BeginRunKeeps ==
    ASSUME AnchorAssumption, AnchorsInv, NEW w \in Replicas, BeginRun(w)
    PROVE  AnchorsInv'
<1> USE DaysAreNumbers
<1> DEFINE new == [at |-> "list", when |-> today, left |-> {}, found |-> {},
                   latest |-> NoAnchor, own |-> [d \in Calendar |-> NoAnchor]]
<1>1. /\ UNCHANGED <<today, release, anchor>>
      /\ run' = [run EXCEPT ![w] = new]
  BY DEF BeginRun
<1>2. PICK Rows : RowsFrom(Rows)
  BY DEF AnchorsInv, AnchorsTyped
<1>3. new \in Session(Rows)
  BY <1>2 DEF Session, RowsFrom, Steps, AnchorsInv, AnchorsTyped
<1>4. run'[w] = new /\ \A v \in Replicas : v # w => run'[v] = run[v]
  BY <1>1, <1>2 DEF RowsFrom
<1>5. RowsFrom(Rows)'
  <2>1. run' \in [Replicas -> {Asleep, Due} \union Session(Rows)]
    <3> HIDE DEF new
    <3> QED BY <1>1, <1>2, <1>3 DEF RowsFrom
  <2> QED BY <1>1, <1>2, <2>1 DEF RowsFrom, Session
<1>6. AnchorsTyped'
  BY <1>1, <1>5 DEF AnchorsInv, AnchorsTyped
<1>7. RunIsSound(w)'
  <2>1. today \in Nat
    BY DEF AnchorsInv, AnchorsTyped
  <2>2. InsertedIsSound(w)'
    BY <1>4 DEF InsertedIsSound
  <2>3. WorkIsListed(w)'
    BY <1>4 DEF WorkIsListed
  <2>4. ReadIsSound(w)'
    BY <1>4 DEF ReadIsSound
  <2> QED BY <1>1, <1>4, <2>1, <2>2, <2>3, <2>4 DEF RunIsSound
<1>8. \A d \in Calendar : run'[w].own[d] = NoAnchor
  BY <1>4
<1> QED BY <1>1, <1>4, <1>6, <1>7, <1>8, OneWorks

\* A run that is rolled back leaves nothing behind.
LEMMA RollbackKeeps ==
    ASSUME AnchorAssumption, AnchorsInv, NEW w \in Replicas, FailRun(w) \/ Restart(w)
    PROVE  AnchorsInv'
<1>1. /\ UNCHANGED <<today, release, anchor>>
      /\ \E state \in {Asleep, Due} : run' = [run EXCEPT ![w] = state]
  BY DEF FailRun, Restart
<1>2. PICK Rows : RowsFrom(Rows)
  BY DEF AnchorsInv, AnchorsTyped
<1>3. run'[w] \in {Asleep, Due} /\ \A v \in Replicas : v # w => run'[v] = run[v]
  BY <1>1, <1>2 DEF RowsFrom
<1>4. RowsFrom(Rows)'
  BY <1>1, <1>2 DEF RowsFrom, Session
<1>5. AnchorsTyped'
  BY <1>1, <1>4 DEF AnchorsInv, AnchorsTyped
<1>6. ~Running(w)'
  BY <1>3 DEF Running
<1> QED BY <1>1, <1>3, <1>5, <1>6, OneWorks

\* What a step of a running worker starts from.
LEMMA SessionFacts ==
    ASSUME AnchorAssumption, AnchorsInv, NEW w \in Replicas, run[w].at \in Steps
    PROVE  /\ Running(w)
           /\ RunIsSound(w)
           /\ run[w].when \in Calendar /\ run[w].when \in Nat
           /\ run[w].left \in SUBSET Calendar
           /\ today \in Nat
           /\ run[w].when <= today
           /\ \E Rows : RowsFrom(Rows) /\ run[w] \in Session(Rows)
<1>1. PICK Rows : RowsFrom(Rows)
  BY DEF AnchorsInv, AnchorsTyped
<1>2. Running(w) /\ run[w] \in Session(Rows)
  BY <1>1, RunningHasSession
<1>3. RunIsSound(w)
  BY <1>2 DEF AnchorsInv
<1>4. run[w].when \in Calendar /\ run[w].left \in SUBSET Calendar
  BY <1>2 DEF Session
<1>5. today \in Calendar
  BY DEF AnchorsInv, AnchorsTyped
<1> QED BY <1>1, <1>2, <1>3, <1>4, <1>5, DaysAreNumbers DEF RunIsSound

\* A step that reads: only the worker's own variables change, and no row.
LEMMA ReadingIsTyped ==
    ASSUME AnchorsInv, NEW w \in Replicas, NEW Rows, RowsFrom(Rows),
           NEW new \in Session(Rows), run' = [run EXCEPT ![w] = new],
           UNCHANGED <<today, release, anchor>>
    PROVE  /\ AnchorsTyped'
           /\ run'[w] = new
           /\ Running(w)'
           /\ \A v \in Replicas : v # w => run'[v] = run[v]
<1>1. RowsFrom(Rows)'
  BY DEF RowsFrom, Session
<1>2. AnchorsTyped'
  BY <1>1 DEF AnchorsInv, AnchorsTyped
<1>3. run'[w] = new /\ \A v \in Replicas : v # w => run'[v] = run[v]
  BY DEF RowsFrom
<1>4. new.at \in Steps
  BY DEF Session
<1>5. Running(w)'
  BY <1>3, <1>4 DEF Running, Asleep, Due, Steps
<1> QED BY <1>2, <1>3, <1>5

\* The rows a worker has inserted stay sound when nothing but its other
\* variables changes.
LEMMA InsertedStays ==
    ASSUME NEW w \in Replicas, UNCHANGED <<today, release, anchor>>,
           InsertedIsSound(w),
           run'[w].own = run[w].own, run'[w].when = run[w].when,
           \A d \in Calendar : run[w].own[d] # NoAnchor =>
                \A c \in run'[w].left : d < c,
           \A v \in Replicas : v # w => run'[v] = run[v]
    PROVE  InsertedIsSound(w)' /\ View(w)' = View(w)
<1>1. View(w)' = View(w)
  BY DEF View
<1>2. \A d : EntriesOf(d)' = EntriesOf(d)
  BY DEF EntriesOf
<1>3. \A table, d : Sound(table, d) => Sound(table, d)'
  BY <1>2 DEF Sound, Covers, NoHoleBefore
<1>4. \A v \in Replicas : v # w => (Running(v)' <=> Running(v))
  BY DEF Running
<1> SUFFICES ASSUME NEW d \in Calendar, run[w].own[d] # NoAnchor
             PROVE  /\ anchor[d] = NoAnchor
                    /\ \A v \in Replicas : Running(v)' /\ v # w => run'[v].own[d] = NoAnchor
                    /\ d < run'[w].when
                    /\ \A c \in run'[w].left : d < c
                    /\ Sound(View(w), d)'
  BY <1>1 DEF InsertedIsSound
<1>5. Sound(View(w), d)'
  BY <1>1, <1>3 DEF InsertedIsSound, Sound
<1> QED BY <1>4, <1>5 DEF InsertedIsSound

LEMMA ListDaysKeeps ==
    ASSUME AnchorAssumption, AnchorsInv, NEW w \in Replicas, ListDays(w)
    PROVE  AnchorsInv'
<1> USE DaysAreNumbers
<1>1. /\ UNCHANGED <<today, release, anchor>> /\ run[w].at = "list"
      /\ run' = [run EXCEPT ![w].at = "day", ![w].left = UnanchoredDays(w)]
  BY DEF ListDays
<1>2. /\ Running(w) /\ RunIsSound(w) /\ run[w].when \in Nat /\ today \in Nat
      /\ run[w].left \in SUBSET Calendar
      /\ \E Rows : RowsFrom(Rows) /\ run[w] \in Session(Rows)
  BY <1>1, SessionFacts DEF Steps
<1>3. PICK Rows : RowsFrom(Rows) /\ run[w] \in Session(Rows)
  BY <1>2
<1> DEFINE new == [run[w] EXCEPT !.at = "day", !.left = UnanchoredDays(w)]
<1>4. new \in Session(Rows) /\ run' = [run EXCEPT ![w] = new]
  BY <1>1, <1>3 DEF Session, Steps, UnanchoredDays, RowsFrom
<1>5. /\ new.at = "day" /\ new.left = UnanchoredDays(w) /\ new.when = run[w].when
      /\ new.own = run[w].own
  BY <1>3 DEF Session
<1> HIDE DEF new
<1>6. /\ AnchorsTyped' /\ run'[w] = new /\ Running(w)'
      /\ \A v \in Replicas : v # w => run'[v] = run[v]
  BY <1>1, <1>3, <1>4, ReadingIsTyped
<1>7. \A d \in Calendar : run[w].own[d] = NoAnchor
  BY <1>1, <1>2 DEF RunIsSound, WorkIsListed
<1>8. InsertedIsSound(w)' /\ View(w)' = View(w)
  BY <1>1, <1>2, <1>5, <1>6, <1>7, InsertedStays DEF RunIsSound
<1>9. \A d : EntriesOf(d)' = EntriesOf(d)
  BY <1>1 DEF EntriesOf
<1>10. \A c \in Calendar : View(w)[c] = anchor[c]
  BY <1>7 DEF View
<1>11. WorkIsListed(w)'
  BY <1>5, <1>6, <1>8, <1>9, <1>10, <1>2 DEF WorkIsListed, UnanchoredDays
<1>12. RunIsSound(w)'
  BY <1>1, <1>2, <1>5, <1>6, <1>8, <1>11 DEF RunIsSound, ReadIsSound
<1>13. \A d \in Calendar : run'[w].own[d] = NoAnchor
  BY <1>5, <1>6, <1>7
<1> QED BY <1>1, <1>6, <1>12, <1>13, OneWorks

LEMMA ReadEntriesKeeps ==
    ASSUME AnchorAssumption, AnchorsInv, NEW w \in Replicas, ReadEntries(w)
    PROVE  AnchorsInv'
<1> USE DaysAreNumbers
<1>1. /\ UNCHANGED <<today, release, anchor>> /\ run[w].at = "day" /\ run[w].left # {}
      /\ run' = [run EXCEPT ![w].at = "latest", ![w].found = EntriesOf(CurrentDay(w))]
  BY DEF ReadEntries
<1>2. /\ Running(w) /\ RunIsSound(w) /\ run[w].when \in Nat /\ today \in Nat
      /\ run[w].left \in SUBSET Calendar
      /\ \E Rows : RowsFrom(Rows) /\ run[w] \in Session(Rows)
  BY <1>1, SessionFacts DEF Steps
<1>3. PICK Rows : RowsFrom(Rows) /\ run[w] \in Session(Rows)
  BY <1>2
<1> DEFINE new == [run[w] EXCEPT !.at = "latest", !.found = EntriesOf(CurrentDay(w))]
<1>4. new \in Session(Rows) /\ run' = [run EXCEPT ![w] = new]
  BY <1>1, <1>3 DEF Session, Steps, EntriesOf, RowsFrom
<1>5. /\ new.at = "latest" /\ new.found = EntriesOf(CurrentDay(w))
      /\ new.left = run[w].left /\ new.when = run[w].when /\ new.own = run[w].own
  BY <1>3 DEF Session
<1> HIDE DEF new
<1>6. /\ AnchorsTyped' /\ run'[w] = new /\ Running(w)'
      /\ \A v \in Replicas : v # w => run'[v] = run[v]
  BY <1>1, <1>3, <1>4, ReadingIsTyped
<1>7. InsertedIsSound(w) /\ WorkIsListed(w)
  BY <1>2 DEF RunIsSound
<1>8. InsertedIsSound(w)' /\ View(w)' = View(w)
  BY <1>1, <1>5, <1>6, <1>7, InsertedStays DEF InsertedIsSound
<1>9. \A d : EntriesOf(d)' = EntriesOf(d)
  BY <1>1 DEF EntriesOf
<1>10. WorkIsListed(w)'
  BY <1>1, <1>5, <1>6, <1>7, <1>8, <1>9 DEF WorkIsListed
<1>11. CurrentDay(w)' = CurrentDay(w) /\ CurrentDay(w) \in run[w].left
  BY <1>1, <1>2, <1>5, <1>6, CurrentIsFirst DEF CurrentDay
<1>12. EntriesOf(CurrentDay(w)) # {}
  BY <1>7, <1>11 DEF WorkIsListed
<1>13. ReadIsSound(w)'
  BY <1>1, <1>5, <1>6, <1>9, <1>11, <1>12 DEF ReadIsSound, Covers
<1>14. RunIsSound(w)'
  BY <1>1, <1>2, <1>5, <1>6, <1>8, <1>10, <1>13 DEF RunIsSound
<1> QED BY <1>1, <1>2, <1>5, <1>6, <1>14, OneWorks

\* On a day that nobody has anchored, the newest row of all is below it: the
\* days above it cannot have been anchored over the hole.
LEMMA NewestIsBelow ==
    ASSUME AnchorAssumption, AnchorsInv, NEW w \in Replicas, run[w].at \in Steps,
           run[w].left # {}, anchor[CurrentDay(w)] = NoAnchor
    PROVE  NewestBefore(View(w), Days + 1) = NewestBefore(View(w), CurrentDay(w))
<1> USE DaysAreNumbers
<1> DEFINE d == CurrentDay(w)
<1>1. RunIsSound(w) /\ run[w].left \in SUBSET Calendar
  BY SessionFacts
<1>2. d \in run[w].left /\ d \in Calendar
  BY <1>1, CurrentIsFirst
<1>3. EntriesOf(d) # {}
  BY <1>1, <1>2 DEF RunIsSound, WorkIsListed
<1>4. ASSUME NEW c \in Calendar, View(w)[c] # NoAnchor
      PROVE  c < d
  <2>1. CASE run[w].own[c] # NoAnchor
    BY <2>1, <1>1, <1>2 DEF RunIsSound, InsertedIsSound
  <2>2. CASE run[w].own[c] = NoAnchor
    <3>1. anchor[c] # NoAnchor
      BY <2>2, <1>4 DEF View
    <3>2. NoHoleBefore(anchor, c)
      BY <3>1 DEF AnchorsInv, PublishedIsSound, Sound
    <3>3. ~(d < c) /\ c # d
      BY <3>1, <3>2, <1>2, <1>3 DEF NoHoleBefore
    <3> QED BY <3>3, <1>2
  <2> QED BY <2>1, <2>2
<1>5. \A c \in Calendar : c < Days + 1
  BY DEF Calendar, AnchorAssumption
<1> HIDE DEF d
<1>6. NewestBefore(View(w), Days + 1) = NewestBefore(View(w), d)
  BY <1>4, <1>5, NewestSame
<1> QED BY <1>6 DEF d

LEMMA ReadLatestKeeps ==
    ASSUME AnchorAssumption, AnchorsInv, NEW w \in Replicas, ReadLatest(w)
    PROVE  AnchorsInv'
<1> USE DaysAreNumbers
<1>1. /\ UNCHANGED <<today, release, anchor>> /\ run[w].at = "latest"
      /\ run' = [run EXCEPT ![w].at = "insert", ![w].latest = NewestBefore(View(w), Days + 1)]
  BY DEF ReadLatest
<1>2. /\ Running(w) /\ RunIsSound(w) /\ run[w].when \in Nat /\ today \in Nat
      /\ run[w].left \in SUBSET Calendar
      /\ \E Rows : RowsFrom(Rows) /\ run[w] \in Session(Rows)
  BY <1>1, SessionFacts DEF Steps
<1>3. PICK Rows : RowsFrom(Rows) /\ run[w] \in Session(Rows)
  BY <1>2
<1>4. NewestBefore(View(w), Days + 1) \in Rows
  <2>1. \A c \in Calendar : View(w)[c] \in Rows
    BY <1>3 DEF View, Session, RowsFrom
  <2> DEFINE S == {c \in Calendar : c < Days + 1 /\ View(w)[c] # NoAnchor}
  <2>2. S # {} => Max(S) \in S
    <3>1. Days \in Nat /\ S \in SUBSET (1..Days)
      BY DEF AnchorAssumption, Calendar
    <3> HIDE DEF S
    <3> QED BY <3>1, LastDay
  <2>3. S # {} => View(w)[Max(S)] \in Rows
    BY <2>1, <2>2
  <2>4. NewestBefore(View(w), Days + 1) = IF S = {} THEN NoAnchor ELSE View(w)[Max(S)]
    BY DEF NewestBefore
  <2> HIDE DEF S
  <2> QED BY <1>3, <2>3, <2>4 DEF RowsFrom
<1> DEFINE new == [run[w] EXCEPT !.at = "insert", !.latest = NewestBefore(View(w), Days + 1)]
<1>5. new \in Session(Rows) /\ run' = [run EXCEPT ![w] = new]
  BY <1>1, <1>3, <1>4 DEF Session, Steps, RowsFrom
<1>6. /\ new.at = "insert" /\ new.latest = NewestBefore(View(w), Days + 1)
      /\ new.found = run[w].found
      /\ new.left = run[w].left /\ new.when = run[w].when /\ new.own = run[w].own
  BY <1>3 DEF Session
<1> HIDE DEF new
<1>7. /\ AnchorsTyped' /\ run'[w] = new /\ Running(w)'
      /\ \A v \in Replicas : v # w => run'[v] = run[v]
  BY <1>1, <1>3, <1>5, ReadingIsTyped
<1>8. InsertedIsSound(w) /\ WorkIsListed(w) /\ ReadIsSound(w)
  BY <1>2 DEF RunIsSound
<1>9. InsertedIsSound(w)' /\ View(w)' = View(w)
  BY <1>1, <1>6, <1>7, <1>8, InsertedStays DEF InsertedIsSound
<1>10. \A d : EntriesOf(d)' = EntriesOf(d)
  BY <1>1 DEF EntriesOf
<1>11. WorkIsListed(w)'
  BY <1>1, <1>6, <1>7, <1>8, <1>9, <1>10 DEF WorkIsListed
<1>12. CurrentDay(w)' = CurrentDay(w)
  BY <1>6, <1>7 DEF CurrentDay
<1>13. run[w].left # {} /\ Covers(run[w].found, CurrentDay(w))
  BY <1>1, <1>8 DEF ReadIsSound
<1>14. Covers(run[w].found, CurrentDay(w))'
  BY <1>1, <1>6, <1>7, <1>10, <1>12, <1>13 DEF Covers
<1>15. anchor[CurrentDay(w)] = NoAnchor =>
            new.latest = NewestBefore(View(w), CurrentDay(w))
  BY <1>1, <1>6, <1>13, NewestIsBelow DEF Steps
<1>16. ReadIsSound(w)'
  <2>1. (run[w].left # {} /\ Covers(run[w].found, CurrentDay(w)))'
    BY <1>6, <1>7, <1>13, <1>14
  <2>2. (anchor[CurrentDay(w)] = NoAnchor =>
            run[w].latest = NewestBefore(View(w), CurrentDay(w)))'
    BY <1>1, <1>6, <1>7, <1>9, <1>12, <1>15 DEF NewestBefore
  <2> QED BY <2>1, <2>2 DEF ReadIsSound
<1>17. RunIsSound(w)'
  BY <1>1, <1>2, <1>6, <1>7, <1>9, <1>11, <1>16 DEF RunIsSound
<1> QED BY <1>1, <1>2, <1>6, <1>7, <1>17, OneWorks

LEMMA InsertAnchorKeeps ==
    ASSUME AnchorAssumption, AnchorsInv, NEW w \in Replicas, InsertAnchor(w)
    PROVE  AnchorsInv'
<1> USE DaysAreNumbers
<1> DEFINE d == CurrentDay(w)
           row == [date |-> d, entries |-> run[w].found, prev |-> run[w].latest]
           kept == IF anchor[d] # NoAnchor THEN NoAnchor ELSE row
           new == [run[w] EXCEPT !.at = "day", !.left = @ \ {d}, !.found = {},
                                 !.latest = NoAnchor, !.own[d] = kept]
<1>1. /\ UNCHANGED <<today, release, anchor>> /\ run[w].at = "insert"
      /\ \A v \in Replicas : Running(v) => run[v].own[d] = NoAnchor
      /\ run' = [run EXCEPT ![w].at = "day", ![w].left = @ \ {d}, ![w].found = {},
                            ![w].latest = NoAnchor, ![w].own[d] = kept]
  BY DEF InsertAnchor
<1>2. /\ Running(w) /\ RunIsSound(w) /\ run[w].when \in Nat /\ today \in Nat
      /\ run[w].left \in SUBSET Calendar
      /\ \E Rows : RowsFrom(Rows) /\ run[w] \in Session(Rows)
  BY <1>1, SessionFacts DEF Steps
<1>3. PICK Rows : RowsFrom(Rows) /\ run[w] \in Session(Rows)
  BY <1>2
<1>4. InsertedIsSound(w) /\ WorkIsListed(w) /\ ReadIsSound(w)
  BY <1>2 DEF RunIsSound
<1>5. run[w].left # {} /\ Covers(run[w].found, d)
  BY <1>1, <1>4 DEF ReadIsSound
<1>6. d \in run[w].left /\ d \in Calendar /\ \A c \in run[w].left : d <= c
  BY <1>2, <1>5, CurrentIsFirst
<1>7. row # NoAnchor
  <2>1. row.date = d /\ NoAnchor.date = 0 /\ d # 0
    BY <1>6 DEF NoAnchor, Calendar, AnchorAssumption
  <2> QED BY <2>1
<1>8. /\ \E More : RowsFrom(More) /\ new \in Session(More)
      /\ run' = [run EXCEPT ![w] = new]
  <2> DEFINE More == Rows \union {row}
  <2>1. RowsFrom(More)
    BY <1>3 DEF RowsFrom, Session
  <2>2. run[w] \in Session(More)
    BY <1>3 DEF Session
  <2>3. kept \in More /\ NoAnchor \in More
    BY <2>1 DEF RowsFrom
  <2> HIDE DEF row, kept, More
  <2>4. new \in Session(More)
    BY <2>2, <2>3, <1>6 DEF Session, Steps
  <2>5. run' = [run EXCEPT ![w] = new]
    BY <1>1, <2>1, <2>2 DEF RowsFrom, Session
  <2> QED BY <2>1, <2>4, <2>5
<1>9. /\ new.at = "day" /\ new.left = run[w].left \ {d} /\ new.when = run[w].when
      /\ new.own = [run[w].own EXCEPT ![d] = kept]
  <2> HIDE DEF kept, d
  <2> QED BY <1>3 DEF Session
<1>10. new.own[d] = kept /\ \A c \in Calendar : c # d => new.own[c] = run[w].own[c]
  <2> HIDE DEF kept, d
  <2> QED BY <1>3, <1>6, <1>9 DEF Session
<1> HIDE DEF new
<1>11. /\ AnchorsTyped' /\ run'[w] = new /\ Running(w)'
       /\ \A v \in Replicas : v # w => run'[v] = run[v]
  BY <1>1, <1>8, ReadingIsTyped
<1>12. \A c : EntriesOf(c)' = EntriesOf(c)
  BY <1>1 DEF EntriesOf
<1>13. /\ \A c \in Calendar : c # d => View(w)'[c] = View(w)[c]
       /\ View(w)'[d] = IF anchor[d] # NoAnchor THEN anchor[d] ELSE row
  BY <1>1, <1>6, <1>7, <1>10, <1>11 DEF View
<1>14. View(w)[d] = anchor[d]
  BY <1>1, <1>2, <1>6 DEF View
<1>15. ASSUME NEW c \in Calendar, c < d, EntriesOf(c) # {}
       PROVE  View(w)[c] # NoAnchor
  <2>1. d < run[w].when /\ c \notin run[w].left
    BY <1>4, <1>6, <1>15 DEF WorkIsListed
  <2>2. c + 1 < run[w].when
    BY <1>2, <1>6, <1>15, <2>1
  <2> QED BY <1>1, <1>4, <1>15, <2>1, <2>2 DEF WorkIsListed
<1>16. ASSUME NEW e \in Calendar, e <= d
       PROVE  /\ NewestBefore(View(w), e) = NewestBefore(View(w)', e)
              /\ \A c \in Calendar : c < e /\ EntriesOf(c) # {} => View(w)'[c] # NoAnchor
  <2>1. \A c \in Calendar : c < e => View(w)'[c] = View(w)[c]
    BY <1>13, <1>16, <1>6
  <2> DEFINE before == View(w)
             after == View(w)'
  <2>2. \A c \in Calendar : c < e => after[c] = before[c]
    BY <2>1
  <2>3. \A c \in Calendar : c < e /\ EntriesOf(c) # {} => after[c] # NoAnchor
    BY <1>6, <1>15, <1>16, <2>2
  <2> HIDE DEF before, after
  <2>4. NewestBefore(before, e) = NewestBefore(after, e)
    BY <2>2, NewestSame
  <2> QED BY <2>3, <2>4 DEF before, after
<1>17. ASSUME NEW e \in Calendar, e <= d, View(w)'[e] # NoAnchor,
              Covers(View(w)'[e].entries, e), View(w)'[e].prev = NewestBefore(View(w), e)
       PROVE  Sound(View(w), e)'
  <2>1. NoHoleBefore(View(w), e)'
    BY <1>12, <1>16, <1>17 DEF NoHoleBefore
  <2>2. Covers(View(w)[e].entries, e)'
    BY <1>1, <1>12, <1>17 DEF Covers
  <2>3. (View(w)[e].prev = NewestBefore(View(w), e))'
    BY <1>16, <1>17 DEF NewestBefore
  <2> QED BY <2>1, <2>2, <2>3 DEF Sound
<1>18. InsertedIsSound(w)'
  <2> SUFFICES ASSUME NEW e \in Calendar, new.own[e] # NoAnchor
               PROVE  /\ anchor[e] = NoAnchor
                      /\ \A v \in Replicas : Running(v)' /\ v # w => run'[v].own[e] = NoAnchor
                      /\ e < new.when
                      /\ \A c \in new.left : e < c
                      /\ Sound(View(w), e)'
    BY <1>1, <1>11 DEF InsertedIsSound
  <2>1. CASE e # d
    <3>1. run[w].own[e] # NoAnchor
      BY <1>10, <2>1
    <3>2. /\ anchor[e] = NoAnchor
          /\ \A v \in Replicas : Running(v) /\ v # w => run[v].own[e] = NoAnchor
          /\ e < run[w].when
          /\ \A c \in run[w].left : e < c
          /\ Sound(View(w), e)
      BY <1>4, <3>1 DEF InsertedIsSound
    <3>3. e < d
      BY <1>6, <3>2
    <3>4. View(w)'[e] = View(w)[e] /\ View(w)[e] # NoAnchor
      BY <1>13, <2>1, <3>1 DEF View
    <3>5. Sound(View(w), e)'
      BY <1>6, <1>17, <3>2, <3>3, <3>4 DEF Sound
    <3> QED BY <1>9, <1>11, <3>2, <3>5 DEF Running
  <2>2. CASE e = d
    <3>1. anchor[d] = NoAnchor /\ kept = row
      BY <1>10, <2>2
    <3>2. run[w].latest = NewestBefore(View(w), d)
      BY <1>1, <1>4, <3>1 DEF ReadIsSound
    <3>3. View(w)'[d] = row /\ row.entries = run[w].found /\ row.prev = run[w].latest
      BY <1>13, <3>1
    <3>4. Sound(View(w), e)'
      BY <1>5, <1>6, <1>7, <1>17, <2>2, <3>2, <3>3
    <3>5. d < run[w].when
      BY <1>4, <1>6 DEF WorkIsListed
    <3>6. \A c \in new.left : d < c
      BY <1>2, <1>6, <1>9
    <3>7. \A v \in Replicas : Running(v)' /\ v # w => run'[v].own[d] = NoAnchor
      BY <1>1, <1>11 DEF Running
    <3> QED BY <1>9, <2>2, <3>1, <3>4, <3>5, <3>6, <3>7
  <2> QED BY <2>1, <2>2
<1>19. WorkIsListed(w)'
  <2>1. \A c \in new.left : c < new.when /\ EntriesOf(c)' # {}
    BY <1>4, <1>9, <1>12 DEF WorkIsListed
  <2>2. ASSUME NEW c \in Calendar, c + 1 < new.when, c \notin new.left, EntriesOf(c)' # {}
        PROVE  View(w)'[c] # NoAnchor
    <3>1. CASE c = d
      BY <1>7, <1>13, <3>1
    <3>2. CASE c # d
      BY <1>1, <1>4, <1>9, <1>12, <1>13, <2>2, <3>2 DEF WorkIsListed
    <3> QED BY <3>1, <3>2
  <2> QED BY <1>9, <1>11, <2>1, <2>2 DEF WorkIsListed
<1>20. RunIsSound(w)'
  <2>1. ReadIsSound(w)'
    BY <1>9, <1>11 DEF ReadIsSound
  <2> QED BY <1>1, <1>2, <1>9, <1>11, <1>18, <1>19, <2>1 DEF RunIsSound
<1>21. \A c \in Calendar : run'[w].own[c] # NoAnchor =>
        \/ Running(w) /\ run[w].own[c] # NoAnchor
        \/ \A v \in Replicas : Running(v) => run[v].own[c] = NoAnchor
  BY <1>1, <1>2, <1>10, <1>11
<1> QED BY <1>1, <1>11, <1>20, <1>21, OneWorks

\* What another run's commit leaves of a run's view: everything it saw, and
\* nothing new on a day without entries.
LEMMA CommitIsSeen ==
    ASSUME AnchorsInv, NEW w \in Replicas, Running(w), anchor' = View(w),
           NEW v \in Replicas, v # w, Running(v), run'[v] = run[v],
           NEW c \in Calendar
    PROVE  /\ View(v)[c] # NoAnchor \/ EntriesOf(c) = {} => View(v)'[c] = View(v)[c]
           /\ View(v)[c] # NoAnchor => View(v)'[c] # NoAnchor
<1>1. run[w].own[c] # NoAnchor => anchor[c] = NoAnchor /\ EntriesOf(c) # {}
  <2>1. InsertedIsSound(w)
    BY DEF AnchorsInv, RunIsSound
  <2> QED BY <2>1 DEF InsertedIsSound, Sound, Covers
<1>2. View(w)[c] = IF run[w].own[c] # NoAnchor THEN run[w].own[c] ELSE anchor[c]
  BY DEF View
<1>3. View(v)[c] = IF run[v].own[c] # NoAnchor THEN run[v].own[c] ELSE anchor[c]
  BY DEF View
<1>4. View(v)'[c] = IF run[v].own[c] # NoAnchor THEN run[v].own[c] ELSE View(w)[c]
  BY DEF View
<1> QED BY <1>1, <1>2, <1>3, <1>4

LEMMA CommitRunKeeps ==
    ASSUME AnchorAssumption, AnchorsInv, NEW w \in Replicas, CommitRun(w)
    PROVE  AnchorsInv'
<1> USE DaysAreNumbers
<1>1. /\ UNCHANGED <<today, release>> /\ run[w].at = "day" /\ run[w].left = {}
      /\ anchor' = View(w) /\ run' = [run EXCEPT ![w] = Asleep]
  BY DEF CommitRun
<1>2. /\ Running(w) /\ RunIsSound(w) /\ run[w].when \in Nat /\ today \in Nat
      /\ run[w].when <= today
      /\ \E Rows : RowsFrom(Rows) /\ run[w] \in Session(Rows)
  BY <1>1, SessionFacts DEF Steps
<1>3. PICK Rows : RowsFrom(Rows) /\ run[w] \in Session(Rows)
  BY <1>2
<1>4. InsertedIsSound(w)
  BY <1>2 DEF RunIsSound
<1>5. \A v \in Replicas : v # w => run'[v] = run[v] /\ (Running(v)' <=> Running(v))
  BY <1>1, <1>3 DEF RowsFrom, Running
<1>6. ~Running(w)'
  BY <1>1, <1>3 DEF RowsFrom, Running
<1>7. \A c : EntriesOf(c)' = EntriesOf(c)
  BY <1>1 DEF EntriesOf
<1>8. AnchorsTyped'
  <2>1. View(w) \in [Calendar -> Rows]
    BY <1>3 DEF View, Session, RowsFrom
  <2>2. RowsFrom(Rows)'
    BY <1>1, <1>3, <2>1 DEF RowsFrom, Session
  <2> QED BY <1>1, <2>2 DEF AnchorsInv, AnchorsTyped
<1>9. ReleasesAreRecent'
  BY <1>1 DEF AnchorsInv, ReleasesAreRecent
<1>10. \A table, d : Sound(table, d) => Sound(table, d)'
  BY <1>1, <1>7 DEF Sound, Covers, NoHoleBefore
<1>11. PublishedIsSound'
  <2> SUFFICES ASSUME NEW d \in Calendar, View(w)[d] # NoAnchor
               PROVE  d < today /\ Sound(anchor, d)'
    BY <1>1 DEF PublishedIsSound
  <2>1. d < today /\ Sound(View(w), d)
    <3>1. CASE run[w].own[d] # NoAnchor
      BY <1>2, <1>4, <3>1 DEF InsertedIsSound
    <3>2. CASE run[w].own[d] = NoAnchor
      <4>1. View(w)[d] = anchor[d] /\ anchor[d] # NoAnchor
        BY <3>2 DEF View
      <4>2. d < today /\ Sound(anchor, d)
        BY <4>1 DEF AnchorsInv, PublishedIsSound
      <4>3. ASSUME NEW c \in Calendar, c < d
            PROVE  View(w)[c] = anchor[c]
        <5>1. run[w].own[c] # NoAnchor => anchor[c] = NoAnchor /\ EntriesOf(c) # {}
          BY <1>4 DEF InsertedIsSound, Sound, Covers
        <5>2. EntriesOf(c) # {} => anchor[c] # NoAnchor
          BY <4>2, <4>3 DEF Sound, NoHoleBefore
        <5>3. run[w].own[c] = NoAnchor
          BY <5>1, <5>2
        <5> QED BY <5>3 DEF View
      <4>4. NewestBefore(View(w), d) = NewestBefore(anchor, d)
        BY <4>3, NewestSame
      <4> QED BY <4>1, <4>2, <4>3, <4>4 DEF Sound, NoHoleBefore
    <3> QED BY <3>1, <3>2
  <2>2. Covers(anchor[d].entries, d)' /\ NoHoleBefore(anchor, d)'
    BY <1>1, <1>7, <2>1 DEF Sound, Covers, NoHoleBefore
  <2>3. (anchor[d].prev = NewestBefore(anchor, d))'
    BY <1>1, <2>1 DEF Sound, NewestBefore
  <2> QED BY <1>1, <2>1, <2>2, <2>3 DEF Sound
<1>12. ASSUME NEW v \in Replicas, Running(v)'
       PROVE  RunIsSound(v)'
  <2>1. v # w /\ run'[v] = run[v] /\ Running(v) /\ RunIsSound(v)
    BY <1>5, <1>6, <1>12 DEF AnchorsInv
  <2>2. InsertedIsSound(v) /\ WorkIsListed(v) /\ ReadIsSound(v)
    BY <2>1 DEF RunIsSound
  <2>3. run[v].when \in Nat /\ run[v].left \in SUBSET Calendar
    <3>1. run[v] \in Session(Rows)
      BY <1>3, <2>1, RunningHasSession
    <3> QED BY <3>1 DEF Session
  <2>4. \A c \in Calendar :
          /\ View(v)[c] # NoAnchor \/ EntriesOf(c) = {} => View(v)'[c] = View(v)[c]
          /\ View(v)[c] # NoAnchor => View(v)'[c] # NoAnchor
    BY <1>1, <1>2, <2>1, CommitIsSeen
  <2>5. ASSUME NEW d \in Calendar, NoHoleBefore(View(v), d)
        PROVE  NewestBefore(View(v), d) = NewestBefore(View(v)', d)
    <3> DEFINE before == View(v)
               after == View(v)'
    <3>1. \A c \in Calendar : c < d => after[c] = before[c]
      BY <2>4, <2>5 DEF NoHoleBefore
    <3> HIDE DEF before, after
    <3>2. NewestBefore(before, d) = NewestBefore(after, d)
      BY <3>1, NewestSame
    <3> QED BY <3>2 DEF before, after
  <2>6. InsertedIsSound(v)'
    <3> SUFFICES ASSUME NEW d \in Calendar, run[v].own[d] # NoAnchor
                 PROVE  /\ View(w)[d] = NoAnchor
                        /\ \A u \in Replicas : Running(u)' /\ u # v => run'[u].own[d] = NoAnchor
                        /\ d < run[v].when
                        /\ \A c \in run[v].left : d < c
                        /\ Sound(View(v), d)'
      BY <1>1, <2>1 DEF InsertedIsSound
    <3>1. /\ anchor[d] = NoAnchor
          /\ \A u \in Replicas : Running(u) /\ u # v => run[u].own[d] = NoAnchor
          /\ d < run[v].when
          /\ \A c \in run[v].left : d < c
          /\ Sound(View(v), d)
      BY <2>2 DEF InsertedIsSound
    <3>2. View(w)[d] = NoAnchor
      BY <1>2, <2>1, <3>1 DEF View
    <3>3. View(v)'[d] = View(v)[d]
      BY <2>1 DEF View
    <3>4. Covers(View(v)[d].entries, d)' /\ NoHoleBefore(View(v), d)'
      BY <1>1, <1>7, <2>4, <3>1, <3>3 DEF Sound, Covers, NoHoleBefore
    <3>5. View(v)[d].prev = NewestBefore(View(v)', d)
      BY <2>5, <3>1 DEF Sound
    <3>6. (View(v)[d].prev = NewestBefore(View(v), d))'
      BY <3>3, <3>5 DEF NewestBefore
    <3>7. Sound(View(v), d)'
      BY <3>4, <3>6 DEF Sound
    <3> QED BY <1>5, <1>6, <3>1, <3>2, <3>7
  <2>7. WorkIsListed(v)'
    BY <1>7, <2>1, <2>2, <2>4 DEF WorkIsListed
  <2>8. ReadIsSound(v)'
    <3>1. CurrentDay(v)' = CurrentDay(v)
      BY <2>1 DEF CurrentDay
    <3>2. run[v].at \in {"latest", "insert"} =>
            run[v].left # {} /\ Covers(run[v].found, CurrentDay(v))'
      BY <1>1, <1>7, <2>1, <2>2, <3>1 DEF ReadIsSound, Covers
    <3>3. ASSUME run[v].at = "insert", View(w)[CurrentDay(v)] = NoAnchor
          PROVE  run[v].latest = NewestBefore(View(v)', CurrentDay(v))
      <4>1. run[v].left # {}
        BY <2>2, <3>3 DEF ReadIsSound
      <4>2. /\ CurrentDay(v) \in run[v].left /\ CurrentDay(v) \in Calendar
            /\ \A c \in run[v].left : CurrentDay(v) <= c
        BY <2>3, <4>1, CurrentIsFirst
      <4>3. anchor[CurrentDay(v)] = NoAnchor
        BY <1>1, <1>2, <3>3, <4>2 DEF View, InsertedIsSound, RunIsSound
      <4>4. run[v].latest = NewestBefore(View(v), CurrentDay(v))
        BY <2>2, <3>3, <4>3 DEF ReadIsSound
      <4>5. NoHoleBefore(View(v), CurrentDay(v))
        <5> SUFFICES ASSUME NEW c \in Calendar, c < CurrentDay(v), EntriesOf(c) # {}
                     PROVE  View(v)[c] # NoAnchor
          BY DEF NoHoleBefore
        <5>1. CurrentDay(v) < run[v].when /\ c \notin run[v].left
          BY <2>2, <4>2 DEF WorkIsListed
        <5>2. c + 1 < run[v].when
          BY <2>3, <4>2, <5>1
        <5> QED BY <2>2, <3>3, <5>1, <5>2 DEF WorkIsListed
      <4> QED BY <2>5, <4>2, <4>4, <4>5
    <3>4. (run[v].at = "insert" /\ anchor[CurrentDay(v)] = NoAnchor =>
            run[v].latest = NewestBefore(View(v), CurrentDay(v)))'
      BY <1>1, <2>1, <3>1, <3>3 DEF NewestBefore
    <3>5. (run[v].at \in {"latest", "insert"} =>
            run[v].left # {} /\ Covers(run[v].found, CurrentDay(v)))'
      BY <2>1, <3>2
    <3> QED BY <3>4, <3>5 DEF ReadIsSound
  <2> QED BY <1>1, <2>1, <2>6, <2>7, <2>8 DEF RunIsSound
<1> QED BY <1>8, <1>9, <1>11, <1>12 DEF AnchorsInv

-----------------------------------------------------------------------------
(* The theorems.                                                           *)

LEMMA AnchorsInvInit == AnchorAssumption /\ AnchorsInit => AnchorsInv
<1> SUFFICES ASSUME AnchorAssumption, AnchorsInit PROVE AnchorsInv
  OBVIOUS
<1>1. RowsFrom({NoAnchor})
  BY DEF AnchorsInit, RowsFrom
<1>2. today \in Calendar
  BY DEF AnchorsInit, AnchorAssumption, Calendar
<1>3. release \in [Releases -> [at : Stages, day : Nat, on : Nat]]
  BY DEF AnchorsInit, Stages
<1>4. ReleasesAreRecent
  BY DEF AnchorsInit, ReleasesAreRecent
<1>5. PublishedIsSound /\ \A w \in Replicas : ~Running(w)
  BY DEF AnchorsInit, PublishedIsSound, Running
<1> QED BY <1>1, <1>2, <1>3, <1>4, <1>5 DEF AnchorsInv, AnchorsTyped

LEMMA AnchorsInvNext == AnchorAssumption /\ AnchorsInv /\ [AnchorsNext]_anchorVars => AnchorsInv'
<1> SUFFICES ASSUME AnchorAssumption, AnchorsInv, [AnchorsNext]_anchorVars
             PROVE  AnchorsInv'
  OBVIOUS
<1>1. CASE UNCHANGED anchorVars
  <2>1. UNCHANGED <<today, release, anchor, run>> /\ today \in Nat
    BY <1>1, DaysAreNumbers DEF anchorVars, AnchorsInv, AnchorsTyped
  <2>2. AnchorsTyped'
    BY <2>1 DEF AnchorsInv, AnchorsTyped, RowsFrom, Session
  <2>3. ReleasesAreRecent'
    BY <2>1 DEF AnchorsInv, ReleasesAreRecent
  <2>4. \A d : EntriesOf(d)' = EntriesOf(d)
    BY <2>1 DEF EntriesOf
  <2>5. \A w \in Replicas : Running(w)' =>
          Running(w) /\ run'[w] = run[w] /\ today' <= run[w].when + 1
    BY <2>1 DEF AnchorsInv, RunIsSound, Running
  <2> QED BY <2>1, <2>2, <2>3, <2>4, <2>5, TimePasses
<1>2. CASE \E r \in Releases : Decide(r) \/ EndRelease(r)
  BY <1>2, DecideKeeps, EndReleaseKeeps
<1>3. CASE Midnight
  BY <1>3, MidnightKeeps
<1>4. CASE \E w \in Replicas : Tick(w) \/ FailRun(w) \/ Restart(w)
  BY <1>4, BeginRunKeeps, ListDaysKeeps, ReadEntriesKeeps, ReadLatestKeeps,
     InsertAnchorKeeps, CommitRunKeeps, RollbackKeeps DEF Tick
<1> QED BY <1>1, <1>2, <1>3, <1>4 DEF AnchorsNext

\* The inductive invariant of the anchor job holds in every state.
THEOREM AnchorsInvariant == AnchorsSpec => []AnchorsInv
BY AnchorAssumption, AnchorsInvInit, AnchorsInvNext, PTL DEF AnchorsSpec

\* What an anchor misses of its day was committed after the day was over.
THEOREM OnlyLateIsMissing == AnchorsSpec => []OnlyLateEntriesAreMissing
<1>1. AnchorsInv => OnlyLateEntriesAreMissing
  BY DEF AnchorsInv, PublishedIsSound, Sound, Covers, OnlyLateEntriesAreMissing
<1> QED BY <1>1, AnchorsInvariant, PTL

\* The anchors form one chain, without a hole.
THEOREM AnchorsFormAChain == AnchorsSpec => []AnchorsAreLinked
<1>1. AnchorsInv => AnchorsAreLinked
  BY DEF AnchorsInv, PublishedIsSound, Sound, AnchorsAreLinked
<1> QED BY <1>1, AnchorsInvariant, PTL

\* Replicas never wait for each other's rows in a circle.
THEOREM AnchorWaitsGoForward == AnchorsSpec => []WaitsGoForward
<1>1. AnchorsInv => WaitsGoForward
  <2> SUFFICES ASSUME AnchorsInv, NEW w \in Replicas, NEW v \in Replicas,
                      AwaitsRow(w, v), run[v].at = "insert"
               PROVE  CurrentDay(w) < CurrentDay(v)
    BY DEF WaitsGoForward
  <2>1. RunIsSound(v) /\ run[v].left \in SUBSET Calendar
    BY AnchorAssumption, SessionFacts DEF Steps
  <2>2. CurrentDay(v) \in run[v].left
    BY AnchorAssumption, <2>1, CurrentIsFirst DEF RunIsSound, ReadIsSound
  <2>3. RunIsSound(w) /\ run[w].left \in SUBSET Calendar
    BY AnchorAssumption, SessionFacts DEF Steps, AwaitsRow
  <2>4. CurrentDay(w) \in Calendar
    BY AnchorAssumption, <2>3, CurrentIsFirst DEF AwaitsRow, RunIsSound, ReadIsSound
  <2> QED BY <2>1, <2>2, <2>4 DEF AwaitsRow, RunIsSound, InsertedIsSound
<1> QED BY <1>1, AnchorsInvariant, PTL

-----------------------------------------------------------------------------
(* The anchors as an append-only log.                                      *)

\* Rows know their day.
AnchorsAreDated ==
    \A d \in Calendar :
        /\ anchor[d] # NoAnchor => anchor[d].date = d
        /\ \A w \in Replicas : Running(w) /\ run[w].own[d] # NoAnchor => run[w].own[d].date = d

\* A run's row of a day is new in its own INSERT only.
LEMMA RowsAreInserted ==
    ASSUME AnchorAssumption, AnchorsInv, [AnchorsNext]_anchorVars,
           NEW v \in Replicas, Running(v)', NEW c \in Calendar, run'[v].own[c] # NoAnchor
    PROVE  \/ Running(v) /\ run'[v].own[c] = run[v].own[c]
           \/ run'[v].own[c].date = c
<1>1. PICK Rows : RowsFrom(Rows)
  BY DEF AnchorsInv, AnchorsTyped
<1>2. ASSUME NEW w \in Replicas, w # v, NEW new, run' = [run EXCEPT ![w] = new]
      PROVE  run'[v] = run[v]
  BY <1>1, <1>2 DEF RowsFrom
<1>3. run'[v] = run[v] => Running(v)
  BY DEF Running
<1>4. CASE UNCHANGED run
  BY <1>3, <1>4
<1>5. CASE Midnight
  <2>1. run'[v] = IF run[v] = Asleep THEN Due ELSE run[v]
    BY <1>5 DEF Midnight
  <2> QED BY <1>3, <2>1 DEF Running
<1>6. ASSUME NEW w \in Replicas, FailRun(w) \/ Restart(w) \/ CommitRun(w)
      PROVE  Running(v) /\ run'[v] = run[v]
  <2>1. \E state \in {Asleep, Due} : run' = [run EXCEPT ![w] = state]
    BY <1>6 DEF FailRun, Restart, CommitRun
  <2>2. w # v
    BY <1>1, <2>1 DEF RowsFrom, Running
  <2> QED BY <1>3, <2>1, <2>2, <1>2
<1>7. ASSUME NEW w \in Replicas, BeginRun(w) PROVE Running(v) /\ run'[v] = run[v]
  <2>1. run' = [run EXCEPT ![w] =
            [at |-> "list", when |-> today, left |-> {}, found |-> {}, latest |-> NoAnchor,
             own |-> [d \in Calendar |-> NoAnchor]]]
    BY <1>7 DEF BeginRun
  <2>2. w # v
    BY <1>1, <2>1 DEF RowsFrom
  <2> QED BY <1>3, <2>1, <2>2, <1>2
<1>8. ASSUME NEW w \in Replicas, ListDays(w) \/ ReadEntries(w) \/ ReadLatest(w)
      PROVE  Running(v) /\ run'[v].own = run[v].own
  <2>1. CASE w # v
    BY <1>1, <1>3, <1>8, <2>1 DEF ListDays, ReadEntries, ReadLatest, RowsFrom
  <2>2. CASE w = v
    <3>1. Running(w) /\ run[w] \in Session(Rows)
      BY <1>1, <1>8, RunningHasSession DEF Steps, ListDays, ReadEntries, ReadLatest
    <3> QED BY <1>1, <1>8, <2>2, <3>1
            DEF ListDays, ReadEntries, ReadLatest, RowsFrom, Session
  <2> QED BY <2>1, <2>2
<1>9. ASSUME NEW w \in Replicas, InsertAnchor(w)
      PROVE  \/ Running(v) /\ run'[v].own[c] = run[v].own[c]
             \/ run'[v].own[c].date = c
  <2> DEFINE d == CurrentDay(w)
             kept == IF anchor[d] # NoAnchor THEN NoAnchor
                     ELSE [date |-> d, entries |-> run[w].found, prev |-> run[w].latest]
  <2>1. run' = [run EXCEPT ![w].at = "day", ![w].left = @ \ {d}, ![w].found = {},
                           ![w].latest = NoAnchor, ![w].own[d] = kept]
    BY <1>9 DEF InsertAnchor
  <2>2. kept = NoAnchor \/ kept.date = d
    OBVIOUS
  <2> HIDE DEF d, kept
  <2>3. CASE w # v
    BY <1>1, <1>3, <2>1, <2>3 DEF RowsFrom
  <2>4. CASE w = v
    <3>1. Running(v) /\ run[v] \in Session(Rows)
      BY <1>1, <1>9, <2>4, RunningHasSession DEF Steps, InsertAnchor
    <3>2. run'[v].own = [run[v].own EXCEPT ![d] = kept]
      BY <1>1, <2>1, <2>4, <3>1 DEF RowsFrom, Session
    <3>3. run[v].own \in [Calendar -> Rows]
      BY <3>1 DEF Session
    <3>4. CASE c = d
      BY <2>2, <3>2, <3>3, <3>4
    <3>5. CASE c # d
      BY <3>1, <3>2, <3>3, <3>5
    <3> QED BY <3>4, <3>5
  <2> QED BY <2>3, <2>4
<1> QED BY <1>4, <1>5, <1>6, <1>7, <1>8, <1>9
        DEF AnchorsNext, anchorVars, Tick, Decide, EndRelease

\* Only a commit changes the anchors, and only where there are none.
LEMMA AnchorsStayStep ==
    ASSUME AnchorAssumption, AnchorsInv, [AnchorsNext]_anchorVars, NEW d \in Calendar
    PROVE  /\ anchor[d] # NoAnchor => anchor'[d] = anchor[d]
           /\ anchor[d] = NoAnchor /\ anchor'[d] # NoAnchor =>
                /\ EntriesOf(d) # {}
                /\ \E w \in Replicas : Running(w) /\ anchor'[d] = run[w].own[d]
<1>1. ASSUME NEW w \in Replicas, CommitRun(w)
      PROVE  /\ anchor[d] # NoAnchor => anchor'[d] = anchor[d]
             /\ anchor[d] = NoAnchor /\ anchor'[d] # NoAnchor =>
                    EntriesOf(d) # {} /\ Running(w) /\ anchor'[d] = run[w].own[d]
  <2>1. anchor'[d] = IF run[w].own[d] # NoAnchor THEN run[w].own[d] ELSE anchor[d]
    BY <1>1 DEF CommitRun, View
  <2>2. Running(w) /\ InsertedIsSound(w)
    BY <1>1, SessionFacts DEF CommitRun, Steps, RunIsSound
  <2>3. run[w].own[d] # NoAnchor => anchor[d] = NoAnchor /\ EntriesOf(d) # {}
    BY <2>2 DEF InsertedIsSound, Sound, Covers
  <2> QED BY <2>1, <2>2, <2>3
<1>2. CASE UNCHANGED anchor
  BY <1>2
<1> QED BY <1>1, <1>2
        DEF AnchorsNext, anchorVars, Tick, Decide, EndRelease, Midnight, BeginRun, ListDays,
            ReadEntries, ReadLatest, InsertAnchor, FailRun, Restart

LEMMA DatedStep ==
    AnchorAssumption /\ AnchorsInv /\ AnchorsAreDated /\ [AnchorsNext]_anchorVars => AnchorsAreDated'
<1> SUFFICES ASSUME AnchorAssumption, AnchorsInv, AnchorsAreDated, [AnchorsNext]_anchorVars,
                    NEW d \in Calendar
             PROVE  /\ anchor'[d] # NoAnchor => anchor'[d].date = d
                    /\ \A w \in Replicas :
                        Running(w)' /\ run'[w].own[d] # NoAnchor => run'[w].own[d].date = d
  BY DEF AnchorsAreDated
<1>1. anchor'[d] # NoAnchor => anchor'[d].date = d
  BY AnchorsStayStep DEF AnchorsAreDated
<1>2. ASSUME NEW w \in Replicas, Running(w)', run'[w].own[d] # NoAnchor
      PROVE  run'[w].own[d].date = d
  BY <1>2, RowsAreInserted DEF AnchorsAreDated
<1> QED BY <1>1, <1>2

\* A table whose rows name the row before them is one chain of days.
LEMMA TableIsLinear ==
    ASSUME AnchorAssumption, NEW table,
           \A d \in Calendar : table[d] # NoAnchor =>
                table[d].date = d /\ table[d].prev = NewestBefore(table, d),
           NEW S, S = {[seq |-> d, prev |-> table[d].prev.date] :
                         d \in {c \in Calendar : table[c] # NoAnchor}}
    PROVE  S \subseteq AnchorLog!Entry /\ AnchorLog!Linear(S)
<1> USE DaysAreNumbers
<1> DEFINE Dates(d) == {c \in Calendar : c < d /\ table[c] # NoAnchor}
<1>1. ASSUME NEW d \in Calendar, Dates(d) # {}
      PROVE  Max(Dates(d)) \in Dates(d) /\ \A c \in Dates(d) : c <= Max(Dates(d))
  <2>1. Days \in Nat /\ Dates(d) \in SUBSET (1..Days)
    BY DEF AnchorAssumption, Calendar
  <2> HIDE DEF Dates
  <2> QED BY <1>1, <2>1, LastDay
<1>2. ASSUME NEW d \in Calendar, table[d] # NoAnchor
      PROVE  table[d].prev.date = IF Dates(d) = {} THEN 0 ELSE Max(Dates(d))
  <2>1. table[d].prev = IF Dates(d) = {} THEN NoAnchor ELSE table[Max(Dates(d))]
    BY <1>2 DEF NewestBefore
  <2>2. Dates(d) # {} => table[Max(Dates(d))].date = Max(Dates(d))
    BY <1>1
  <2>3. NoAnchor.date = 0
    BY DEF NoAnchor
  <2> HIDE DEF Dates
  <2> QED BY <2>1, <2>2, <2>3
<1>3. \A r \in S : \E d \in Calendar :
        table[d] # NoAnchor /\ r = [seq |-> d, prev |-> table[d].prev.date]
  OBVIOUS
<1>4. S \subseteq AnchorLog!Entry
  <2> SUFFICES ASSUME NEW d \in Calendar, table[d] # NoAnchor
               PROVE  [seq |-> d, prev |-> table[d].prev.date] \in AnchorLog!Entry
    BY <1>3
  <2>1. d \in Nat /\ d # 0
    BY DEF Calendar, AnchorAssumption
  <2>2. Dates(d) # {} => Max(Dates(d)) \in Nat
    BY <1>1
  <2>3. table[d].prev.date = IF Dates(d) = {} THEN 0 ELSE Max(Dates(d))
    BY <1>2
  <2>4. table[d].prev.date \in Nat
    <3> HIDE DEF Dates
    <3> QED BY <2>2, <2>3
  <2> QED BY <2>1, <2>4 DEF AnchorLog!Entry, AnchorLog!Genesis
<1>5. \A r, q \in S : r.seq = q.seq => r = q
  BY <1>3
<1>6. ASSUME NEW r \in S PROVE AnchorLog!IsTail(r.prev, AnchorLog!Before(r, S))
  <2>1. PICK d \in Calendar :
          table[d] # NoAnchor /\ r = [seq |-> d, prev |-> table[d].prev.date]
    BY <1>3
  <2>2. ASSUME NEW c \in Dates(d) PROVE \E q \in AnchorLog!Before(r, S) : q.seq = c
    <3> DEFINE q == [seq |-> c, prev |-> table[c].prev.date]
    <3>1. q \in S /\ q.seq = c /\ c < r.seq
      BY <2>1
    <3> QED BY <3>1 DEF AnchorLog!Before
  <2>3. \A q \in AnchorLog!Before(r, S) : q.seq \in Dates(d)
    BY <1>3, <2>1 DEF AnchorLog!Before
  <2>4. r.prev = IF Dates(d) = {} THEN 0 ELSE Max(Dates(d))
    BY <1>2, <2>1
  <2>5. Dates(d) # {} => Max(Dates(d)) \in Dates(d) /\ \A c \in Dates(d) : c <= Max(Dates(d))
    BY <1>1
  <2> HIDE DEF Dates
  <2> QED BY <2>2, <2>3, <2>4, <2>5 DEF AnchorLog!IsTail, AnchorLog!Genesis
<1> QED BY <1>4, <1>5, <1>6 DEF AnchorLog!Linear

\* A day that gets its anchor is after every day that has one: these are sound
\* down to the beginning.
LEMMA AnchorPublishStep ==
    /\ AnchorAssumption /\ AnchorsInv /\ AnchorsInv' /\ AnchorsAreDated'
    /\ [AnchorsNext]_anchorVars
    => [AnchorLog!Publish]_AnchorEntries
<1> SUFFICES ASSUME AnchorAssumption, AnchorsInv, AnchorsInv', AnchorsAreDated',
                    [AnchorsNext]_anchorVars, AnchorEntries' # AnchorEntries
             PROVE  AnchorLog!Publish
  OBVIOUS
<1> USE DaysAreNumbers
<1>1. \A d \in Calendar : anchor[d] # NoAnchor => anchor'[d] = anchor[d]
  BY AnchorsStayStep
<1>2. AnchorEntries \subseteq AnchorEntries'
  BY <1>1 DEF AnchorEntries, AnchoredDays
<1>3. AnchorEntries' \subseteq AnchorLog!Entry /\ AnchorLog!Linear(AnchorEntries')
  <2>1. ASSUME NEW d \in Calendar, anchor'[d] # NoAnchor
        PROVE  anchor'[d].date = d /\ anchor'[d].prev = NewestBefore(anchor', d)
    <3>1. anchor'[d].date = d
      BY <2>1 DEF AnchorsAreDated
    <3>2. Sound(anchor, d)'
      BY <2>1 DEF AnchorsInv, PublishedIsSound
    <3>3. anchor'[d].prev = NewestBefore(anchor', d)
      BY <3>2 DEF Sound, NewestBefore
    <3> QED BY <3>1, <3>3
  <2>2. AnchorEntries' = {[seq |-> d, prev |-> anchor'[d].prev.date] :
                            d \in {c \in Calendar : anchor'[c] # NoAnchor}}
    BY DEF AnchorEntries, AnchoredDays
  <2> QED BY <2>1, <2>2, TableIsLinear
<1>4. ASSUME NEW r \in AnchorEntries' \ AnchorEntries, NEW q \in AnchorEntries
      PROVE  q.seq < r.seq
  <2>1. PICK d \in Calendar : anchor'[d] # NoAnchor /\ r = [seq |-> d, prev |-> anchor'[d].prev.date]
    BY DEF AnchorEntries, AnchoredDays
  <2>2. PICK c \in Calendar : anchor[c] # NoAnchor /\ q = [seq |-> c, prev |-> anchor[c].prev.date]
    BY DEF AnchorEntries, AnchoredDays
  <2>3. anchor[d] = NoAnchor
    <3> SUFFICES ASSUME anchor[d] # NoAnchor PROVE FALSE
      OBVIOUS
    <3>1. r = [seq |-> d, prev |-> anchor[d].prev.date]
      BY <1>1, <2>1
    <3> QED BY <1>4, <3>1 DEF AnchorEntries, AnchoredDays
  <2>4. EntriesOf(d) # {}
    BY <2>1, <2>3, AnchorsStayStep
  <2>5. NoHoleBefore(anchor, c)
    BY <2>2 DEF AnchorsInv, PublishedIsSound, Sound
  <2>6. ~(d < c) /\ d # c
    BY <2>2, <2>3, <2>4, <2>5 DEF NoHoleBefore
  <2> QED BY <2>1, <2>2, <2>6
<1> QED BY <1>2, <1>3, <1>4 DEF AnchorLog!Publish

\* What replicas, midnights, failures and restarts do together is what AppendLog
\* promises: the anchors, too, are published one batch after the other.
THEOREM AnchorsAreALog == AnchorsSpec => AnchorsImplementLog
<1>1. AnchorAssumption /\ AnchorsInit => AnchorsAreDated
  BY DEF AnchorsInit, AnchorsAreDated, Running
<1>2. AnchorsInit => AnchorLog!LogInit
  BY DEF AnchorsInit, AnchorLog!LogInit, AnchorEntries, AnchoredDays
<1> QED BY <1>1, <1>2, AnchorAssumption, DatedStep, AnchorPublishStep, AnchorsInvariant, PTL
        DEF AnchorsSpec, AnchorsImplementLog, AnchorLog!LogSpec

\* Nobody ever sees a published anchor change.
THEOREM AnchorsAreFinal == AnchorsSpec => AnchorsStay
<1>1. AnchorAssumption /\ AnchorsInv /\ [AnchorsNext]_anchorVars =>
        [\A d \in Calendar : anchor[d] # NoAnchor => anchor'[d] = anchor[d]]_anchorVars
  BY AnchorsStayStep
<1> QED BY <1>1, AnchorAssumption, AnchorsInvariant, PTL DEF AnchorsSpec, AnchorsStay

-----------------------------------------------------------------------------
\* AuditChain: what holds as long as nothing has been overtaken.
AuditTyped ==
    /\ drawn \in Nat
    /\ entries \subseteq Entry
    /\ \A r \in entries : r.seq <= drawn
    /\ insert \in [Inserts -> [at : {"asked", "lock", "link", "open", "done", "lost"},
                               seq : Nat, prev : Nat]]
    /\ \A i \in Inserts :
        insert[i].at \in {"lock", "link", "open"} => insert[i].seq \in 1..drawn
    /\ \/ check.at \in {"none", "intact", "divergence"}
       \/ check \in [at : {"anchor", "range"}, from : Nat, to : Nat, anchor : Nat,
                     ahead : BOOLEAN]

\* One request at a time is between its lock and its commit, and names the tail.
TailIsHeld ==
    /\ \A i, j \in Inserts : Holds(i) /\ Holds(j) => i = j
    /\ \A i \in Inserts : insert[i].at = "open" => IsTail(insert[i].prev, entries)

\* Numbers still in flight are not in the log.
NumbersAreOwn ==
    /\ \A i \in Inserts, r \in entries :
        insert[i].at \in {"lock", "link", "open"} => r.seq # insert[i].seq
    /\ \A i, j \in Inserts :
        insert[i].at \in {"lock", "link", "open"} /\ insert[j].at \in {"lock", "link", "open"}
            /\ insert[i].seq = insert[j].seq => i = j

\* A check whose range began within the log has the right anchor.
CheckIsSound ==
    /\ check.at \in {"anchor", "range"} /\ ~check.ahead =>
        \E r \in entries : check.from <= r.seq
    /\ check.at = "range" /\ ~check.ahead =>
        IsTail(check.anchor, {r \in entries : r.seq < check.from})

AuditInv ==
    /\ AuditTyped
    /\ TailIsHeld
    /\ NumbersAreOwn
    /\ late = {} => Linear(entries) /\ CheckIsSound /\ (check.at = "divergence" => check.ahead)

LEMMA AuditInvInit == AuditInit => AuditInv
BY DEF AuditInit, LogInit, AuditInv, AuditTyped, TailIsHeld, NumbersAreOwn, CheckIsSound,
       Linear, Holds, Genesis

\* A tail is unique, and a new row above the tail keeps the log one chain.
LEMMA OneTail ==
    ASSUME NEW S, S \subseteq Entry, NEW s, NEW t, IsTail(s, S), IsTail(t, S)
    PROVE  s = t
BY DEF IsTail, Entry, Genesis

LEMMA ChainGrows ==
    ASSUME NEW S, S \subseteq Entry, Linear(S), NEW n \in Nat, NEW p \in Nat,
           IsTail(p, S), \A r \in S : r.seq < n
    PROVE  Linear(S \union {[seq |-> n, prev |-> p]})
<1> DEFINE new == [seq |-> n, prev |-> p]
           T == S \union {new}
<1>1. \A r \in S : r.seq \in Nat /\ r.prev \in Nat
  BY DEF Entry
<1>2. \A r, q \in T : r.seq = q.seq => r = q
  BY <1>1 DEF Linear
<1>3. \A r \in S : Before(r, T) = Before(r, S)
  BY <1>1 DEF Before
<1>4. Before(new, T) = S
  BY <1>1 DEF Before
<1>5. \A r \in T : IsTail(r.prev, Before(r, T))
  BY <1>3, <1>4 DEF Linear
<1> QED BY <1>2, <1>5 DEF Linear

\* Steps of a request before its commit leave the log alone.
LEMMA RequestStep ==
    ASSUME AuditInv, NEW i \in Inserts,
           DrawNumber(i) \/ Lock(i) \/ Link(i) \/ LoseEntry(i)
    PROVE  AuditInv'
<1> USE DEF AuditInv
<1>1. UNCHANGED <<entries, late, check>> /\ drawn <= drawn' /\ drawn' \in Nat
  BY DEF DrawNumber, Lock, Link, LoseEntry, AuditTyped
<1>2. AuditTyped'
  <2>1. CASE DrawNumber(i)
    <3>1. drawn' = drawn + 1 /\ drawn \in Nat
      BY <2>1 DEF DrawNumber, AuditTyped
    <3>2. \A r \in entries : r.seq \in Nat /\ r.seq <= drawn
      BY DEF AuditTyped, Entry
    <3>3. insert' = [insert EXCEPT ![i] = [at |-> "lock", seq |-> drawn + 1, prev |-> 0]]
      BY <2>1 DEF DrawNumber, Genesis
    <3>4. insert' \in [Inserts -> [at : {"asked", "lock", "link", "open", "done", "lost"},
                                  seq : Nat, prev : Nat]]
      BY <3>1, <3>3 DEF AuditTyped
    <3>5. \A j \in Inserts :
            insert'[j].at \in {"lock", "link", "open"} => insert'[j].seq \in 1..drawn'
      <4>1. insert'[i].seq = drawn + 1
        BY <3>3 DEF AuditTyped
      <4>2. \A j \in Inserts : j # i => insert'[j] = insert[j]
        BY <3>3 DEF AuditTyped
      <4>3. drawn + 1 \in 1..drawn' /\ \A n \in 1..drawn : n \in 1..drawn'
        BY <3>1
      <4> QED BY <4>1, <4>2, <4>3 DEF AuditTyped
    <3> QED BY <1>1, <3>1, <3>2, <3>4, <3>5 DEF AuditTyped
  <2>2. CASE Lock(i)
    BY <1>1, <2>2 DEF AuditTyped, Lock
  <2>3. CASE Link(i)
    <3>1. PICK s \in 0..drawn : insert' = [insert EXCEPT ![i].at = "open", ![i].prev = s]
      BY <2>3 DEF Link
    <3>2. insert[i].at = "link" /\ drawn' = drawn
      BY <2>3 DEF Link
    <3>3. s \in Nat
      BY <3>1 DEF AuditTyped
    <3> QED BY <1>1, <3>1, <3>2, <3>3 DEF AuditTyped
  <2>4. CASE LoseEntry(i)
    BY <1>1, <2>4 DEF AuditTyped, LoseEntry
  <2> QED BY <2>1, <2>2, <2>3, <2>4
<1>3. TailIsHeld'
  <2>1. CASE DrawNumber(i) \/ LoseEntry(i)
    BY <1>1, <2>1 DEF TailIsHeld, Holds, AuditTyped, DrawNumber, LoseEntry, IsTail
  <2>2. CASE Lock(i)
    BY <1>1, <2>2 DEF TailIsHeld, Holds, AuditTyped, Lock, IsTail
  <2>3. CASE Link(i)
    <3>1. PICK s \in 0..drawn : IsTail(s, entries)
                  /\ insert' = [insert EXCEPT ![i].at = "open", ![i].prev = s]
      BY <2>3 DEF Link
    <3>2. \A j \in Inserts : Holds(j)' <=> Holds(j)
      BY <2>3, <3>1 DEF Holds, AuditTyped, Link
    <3>3. \A j \in Inserts : insert'[j].at = "open" => j = i \/ insert'[j] = insert[j]
      BY <3>1 DEF AuditTyped
    <3>4. insert'[i].prev = s
      BY <3>1 DEF AuditTyped
    <3>5. \A j \in Inserts : insert'[j].at = "open" => IsTail(insert'[j].prev, entries)
      BY <3>1, <3>3, <3>4 DEF TailIsHeld
    <3>6. \A j \in Inserts : insert'[j].at = "open" => IsTail(insert'[j].prev, entries')
      BY <1>1, <3>5 DEF IsTail
    <3>7. \A j, k \in Inserts : Holds(j)' /\ Holds(k)' => j = k
      BY <3>2 DEF TailIsHeld
    <3> QED BY <3>6, <3>7 DEF TailIsHeld, IsTail
  <2> QED BY <2>1, <2>2, <2>3
<1>4. NumbersAreOwn'
  <2>1. CASE DrawNumber(i)
    BY <2>1 DEF NumbersAreOwn, AuditTyped, DrawNumber, Entry
  <2>2. CASE Lock(i) \/ Link(i) \/ LoseEntry(i)
    BY <2>2 DEF NumbersAreOwn, AuditTyped, Lock, Link, LoseEntry
  <2> QED BY <2>1, <2>2
<1>5. Linear(entries) => Linear(entries)'
  BY <1>1 DEF Linear, IsTail, Before
<1>6. CheckIsSound => CheckIsSound'
  BY <1>1 DEF CheckIsSound, IsTail
<1> QED BY <1>1, <1>2, <1>3, <1>4, <1>5, <1>6

\* A commit that overtakes nothing extends the chain above every check.
LEMMA CommitEntryStep ==
    ASSUME AuditInv, NEW i \in Inserts, CommitEntry(i)
    PROVE  AuditInv'
<1> USE DEF AuditInv
<1> DEFINE new == [seq |-> insert[i].seq, prev |-> insert[i].prev]
<1>1. insert[i].at = "open" /\ new.seq \in 1..drawn /\ new.prev \in Nat
  BY DEF CommitEntry, AuditTyped
<1>2. entries' = entries \union {new} /\ new \in Entry /\ UNCHANGED <<drawn, check>>
  BY <1>1 DEF CommitEntry, AuditTyped, Entry, Genesis
<1>3. AuditTyped'
  BY <1>1, <1>2 DEF AuditTyped, CommitEntry
<1>4. Holds(i) /\ IsTail(insert[i].prev, entries)
  BY <1>1 DEF Holds, TailIsHeld
<1>5. TailIsHeld'
  BY <1>4 DEF TailIsHeld, Holds, CommitEntry, AuditTyped
<1>6. NumbersAreOwn'
  BY <1>1, <1>2 DEF NumbersAreOwn, CommitEntry, AuditTyped
<1>7. ASSUME late' = {}
      PROVE  Linear(entries)' /\ CheckIsSound' /\ (check.at = "divergence" => check.ahead)'
  <2>1. late = {} /\ \A r \in entries : ~(r.seq > insert[i].seq)
    BY <1>7 DEF CommitEntry
  <2>2. \A r \in entries : r.seq \in Nat /\ r.seq < new.seq
    <3>1. \A r \in entries : r.seq \in Nat
      BY DEF AuditTyped, Entry
    <3>2. \A r \in entries : r.seq # insert[i].seq
      BY <1>1 DEF NumbersAreOwn
    <3>3. insert[i].seq \in Nat /\ drawn \in Nat
      BY <1>1 DEF AuditTyped
    <3>4. new.seq = insert[i].seq
      OBVIOUS
    <3> HIDE DEF new
    <3>5. ASSUME NEW r \in entries PROVE r.seq < insert[i].seq
      <4>1. r.seq \in Nat /\ r.seq # insert[i].seq /\ ~(r.seq > insert[i].seq)
        BY <2>1, <3>1, <3>2
      <4> HIDE DEF AuditInv
      <4> QED BY <3>3, <4>1
    <3> QED BY <3>1, <3>4, <3>5
  <2>3. Linear(entries')
    BY <1>1, <1>2, <1>4, <2>1, <2>2, ChainGrows DEF AuditTyped
  <2>4. ASSUME check.at \in {"anchor", "range"}, ~check.ahead
        PROVE  {r \in entries' : r.seq < check.from} = {r \in entries : r.seq < check.from}
    <3>1. PICK r \in entries : check.from <= r.seq
      BY <2>1, <2>4 DEF CheckIsSound
    <3>2. check.from \in Nat
      BY <2>4 DEF AuditTyped
    <3> QED BY <1>1, <1>2, <2>2, <3>1, <3>2
  <2>5. CheckIsSound'
    BY <1>2, <2>1, <2>4 DEF CheckIsSound
  <2> QED BY <1>2, <2>1, <2>3, <2>5
<1> QED BY <1>3, <1>5, <1>6, <1>7

LEMMA CheckStep ==
    ASSUME AuditInv, CheckNothing \/ BeginCheck \/ ReadAnchor
    PROVE  AuditInv'
<1> USE DEF AuditInv
<1>1. UNCHANGED <<entries, drawn, insert, late>>
  BY DEF CheckNothing, BeginCheck, ReadAnchor
<1>2. AuditTyped'
  <2>1. CASE CheckNothing
    BY <1>1, <2>1 DEF AuditTyped, CheckNothing
  <2>2. CASE BeginCheck
    BY <1>1, <2>2 DEF AuditTyped, BeginCheck, Genesis
  <2>3. CASE ReadAnchor
    <3>1. check \in [at : {"anchor", "range"}, from : Nat, to : Nat, anchor : Nat,
                     ahead : BOOLEAN]
      BY <2>3 DEF AuditTyped, ReadAnchor
    <3>2. PICK s \in 0..drawn : check' = [check EXCEPT !.at = "range", !.anchor = s]
      BY <2>3 DEF ReadAnchor
    <3>3. check' \in [at : {"anchor", "range"}, from : Nat, to : Nat, anchor : Nat,
                      ahead : BOOLEAN]
      <4>1. s \in Nat
        BY <3>2 DEF AuditTyped
      <4> QED BY <3>1, <3>2, <4>1
    <3> QED BY <1>1, <3>3 DEF AuditTyped
  <2> QED BY <2>1, <2>2, <2>3
<1>3. TailIsHeld' /\ NumbersAreOwn'
  BY <1>1 DEF TailIsHeld, NumbersAreOwn, Holds, IsTail
<1>4. Linear(entries) => Linear(entries)'
  BY <1>1 DEF Linear, IsTail, Before
<1>5. CheckIsSound => CheckIsSound' /\ check'.at # "divergence"
  <2>1. CASE CheckNothing
    BY <2>1 DEF CheckNothing, CheckIsSound
  <2>2. CASE BeginCheck
    <3>1. PICK from \in 1..(drawn + 1), to \in 1..(drawn + 1) :
            check' = [at |-> "anchor", from |-> from, to |-> to, anchor |-> Genesis,
                      ahead |-> \A r \in entries : r.seq < from]
      BY <2>2 DEF BeginCheck
    <3>2. check'.at = "anchor" /\ check'.from = from
          /\ (check'.ahead <=> \A r \in entries : r.seq < from)
      BY <3>1
    <3>3. \A r \in entries : r.seq \in Nat
      BY DEF AuditTyped, Entry
    <3> QED BY <1>1, <3>2, <3>3 DEF CheckIsSound
  <2>3. CASE ReadAnchor
    <3>1. PICK s \in 0..drawn :
            /\ IsTail(s, {r \in entries : r.seq < check.from})
            /\ check' = [check EXCEPT !.at = "range", !.anchor = s]
      BY <2>3 DEF ReadAnchor
    <3>2. /\ check'.at = "range" /\ check'.from = check.from
          /\ check'.ahead = check.ahead /\ check'.anchor = s
      BY <2>3, <3>1 DEF AuditTyped, ReadAnchor
    <3>3. check.at = "anchor"
      BY <2>3 DEF ReadAnchor
    <3> QED BY <1>1, <3>1, <3>2, <3>3 DEF CheckIsSound, IsTail
  <2> QED BY <2>1, <2>2, <2>3
<1> QED BY <1>1, <1>2, <1>3, <1>4, <1>5

\* Under the right anchor every link of an unforked log agrees.
LEMMA LinksOfAChainAgree ==
    ASSUME AuditInv, check.at = "range", late = {}, ~check.ahead
    PROVE  LinksAgree
<1> USE DEF AuditInv
<1>1. SUFFICES ASSUME NEW r \in InRange
      PROVE  IF Before(r, InRange) = {} THEN r.prev = check.anchor
                                       ELSE IsTail(r.prev, Before(r, InRange))
  BY DEF LinksAgree
<1>2. \A q \in entries : q \in Entry /\ q.seq \in Nat
  BY DEF AuditTyped, Entry
<1>3. check.from \in Nat /\ check.to \in Nat
  BY DEF AuditTyped
<1>4. r \in entries /\ check.from <= r.seq /\ r.seq <= check.to
  BY DEF InRange
<1>5. IsTail(r.prev, Before(r, entries))
  BY <1>4 DEF Linear
<1>6. CASE Before(r, InRange) = {}
  <2>1. Before(r, entries) = {q \in entries : q.seq < check.from}
    BY <1>2, <1>3, <1>4, <1>6 DEF Before, InRange
  <2>2. IsTail(check.anchor, {q \in entries : q.seq < check.from})
    BY DEF CheckIsSound
  <2>3. Before(r, entries) \subseteq Entry
    BY <1>2 DEF Before
  <2>4. r.prev = check.anchor
    BY <1>5, <2>1, <2>2, <2>3, OneTail
  <2> QED BY <1>6, <2>4
<1>7. CASE Before(r, InRange) # {}
  <2>1. PICK q \in entries : check.from <= q.seq /\ q.seq < r.seq
    BY <1>7 DEF Before, InRange
  <2>2. PICK t \in Before(r, entries) : t.seq = r.prev
    BY <1>5, <2>1 DEF IsTail, Before
  <2>3. \A u \in Before(r, entries) : u.seq <= r.prev
    BY <1>5, <2>1 DEF IsTail, Before
  <2>4. t \in entries /\ t.seq < r.seq /\ q.seq <= t.seq
    BY <2>1, <2>2, <2>3 DEF Before
  <2>5. t \in Before(r, InRange)
    BY <1>2, <1>3, <1>4, <2>1, <2>4 DEF Before, InRange
  <2>6. Before(r, InRange) \subseteq Before(r, entries)
    BY DEF Before, InRange
  <2>7. IsTail(r.prev, Before(r, InRange))
    BY <2>2, <2>3, <2>5, <2>6 DEF IsTail
  <2> QED BY <1>7, <2>7
<1> QED BY <1>6, <1>7

LEMMA ReadRangeStep ==
    ASSUME AuditInv, ReadRange
    PROVE  AuditInv'
<1> USE DEF AuditInv
<1>1. UNCHANGED <<entries, drawn, insert, late>> /\ check.at = "range"
  BY DEF ReadRange
<1>2. check'.at = (IF LinksAgree THEN "intact" ELSE "divergence") /\ check'.ahead = check.ahead
  BY <1>1 DEF ReadRange, AuditTyped
<1>3. AuditTyped'
  BY <1>1, <1>2 DEF AuditTyped
<1>4. TailIsHeld' /\ NumbersAreOwn'
  BY <1>1 DEF TailIsHeld, NumbersAreOwn, Holds, IsTail
<1>5. Linear(entries) => Linear(entries)'
  BY <1>1 DEF Linear, IsTail, Before
<1>6. CheckIsSound'
  BY <1>2 DEF CheckIsSound
<1>7. late = {} /\ ~check.ahead => LinksAgree
  BY <1>1, LinksOfAChainAgree
<1> QED BY <1>1, <1>2, <1>3, <1>4, <1>5, <1>6, <1>7

LEMMA AuditInvNext == AuditInv /\ [AuditNext]_auditVars => AuditInv'
<1> SUFFICES ASSUME AuditInv, [AuditNext]_auditVars PROVE AuditInv'
  OBVIOUS
<1>1. CASE UNCHANGED auditVars
  BY <1>1 DEF auditVars, AuditInv, AuditTyped, TailIsHeld, NumbersAreOwn, CheckIsSound,
              Linear, IsTail, Before, Holds
<1>2. CASE \E i \in Inserts : CommitEntry(i)
  BY <1>2, CommitEntryStep
<1>3. CASE \E i \in Inserts : DrawNumber(i) \/ Lock(i) \/ Link(i) \/ LoseEntry(i)
  BY <1>3, RequestStep
<1>4. CASE CheckNothing \/ BeginCheck \/ ReadAnchor \/ ReadRange
  BY <1>4, CheckStep, ReadRangeStep
<1> QED BY <1>1, <1>2, <1>3, <1>4 DEF AuditNext

\* A check of an untouched audit log reports a divergence only of an entry that
\* was overtaken on its way to the log, or about a range ahead of the log.
THEOREM FalseAlarmsAreOvertakes == AuditSpec => []DivergenceNeedsAnOvertake
<1>1. AuditInv => DivergenceNeedsAnOvertake
  BY DEF AuditInv, DivergenceNeedsAnOvertake
<1> QED BY <1>1, AuditInvInit, AuditInvNext, PTL DEF AuditSpec

\* The invariant of the audit log holds in every state.
THEOREM AuditInvariant == AuditSpec => []AuditInv
BY AuditInvInit, AuditInvNext, PTL DEF AuditSpec

-----------------------------------------------------------------------------
(* What an overtaken entry leaves: it names a greater number than its own. *)
LateShows == \A n \in late : \E r \in entries : r.seq = n /\ n < r.prev

\* A check reads no anchor from within its range.
AnchorIsBefore ==
    /\ check.at \in {"anchor", "range"} => 1 <= check.from
    /\ check.at = "range" => check.anchor < check.from

LEMMA LateShowsStep == AuditInv /\ LateShows /\ [AuditNext]_auditVars => LateShows'
<1> SUFFICES ASSUME AuditInv, LateShows, [AuditNext]_auditVars PROVE LateShows'
  OBVIOUS
<1>1. ASSUME NEW i \in Inserts, CommitEntry(i) PROVE LateShows'
  <2> DEFINE new == [seq |-> insert[i].seq, prev |-> insert[i].prev]
  <2>1. /\ insert[i].at = "open" /\ entries' = entries \union {new}
        /\ late' = IF \E r \in entries : r.seq > insert[i].seq
                     THEN late \union {insert[i].seq} ELSE late
    BY <1>1 DEF CommitEntry
  <2>2. IsTail(insert[i].prev, entries)
    BY <2>1 DEF AuditInv, TailIsHeld
  <2>3. ASSUME NEW r \in entries, r.seq > insert[i].seq
        PROVE  insert[i].seq < insert[i].prev
    <3>1. r.seq \in Nat /\ insert[i].seq \in Nat /\ insert[i].prev \in Nat
      <4>1. r \in Entry /\ insert[i] \in [at : {"asked", "lock", "link", "open", "done", "lost"},
                                           seq : Nat, prev : Nat]
        BY DEF AuditInv, AuditTyped
      <4> QED BY <4>1 DEF Entry
    <3>2. r.seq <= insert[i].prev
      BY <2>2 DEF IsTail
    <3> QED BY <2>3, <3>1, <3>2
  <2>4. ASSUME NEW n \in late' PROVE \E r \in entries' : r.seq = n /\ n < r.prev
    <3>1. CASE n \in late
      BY <2>1, <3>1 DEF LateShows
    <3>2. CASE n \notin late
      <4>1. n = insert[i].seq /\ \E r \in entries : r.seq > insert[i].seq
        BY <2>1, <2>4, <3>2
      <4>2. new \in entries' /\ new.seq = n /\ new.prev = insert[i].prev
        BY <2>1, <4>1
      <4> QED BY <2>3, <4>1, <4>2
    <3> QED BY <3>1, <3>2
  <2> QED BY <2>4 DEF LateShows
<1>2. CASE UNCHANGED <<entries, late>>
  BY <1>2 DEF LateShows
<1> QED BY <1>1, <1>2
        DEF AuditNext, auditVars, DrawNumber, Lock, Link, LoseEntry, CheckNothing,
            BeginCheck, ReadAnchor, ReadRange

LEMMA AnchorIsBeforeStep ==
    AuditInv /\ AnchorIsBefore /\ [AuditNext]_auditVars => AnchorIsBefore'
<1> SUFFICES ASSUME AuditInv, AnchorIsBefore, [AuditNext]_auditVars PROVE AnchorIsBefore'
  OBVIOUS
<1>1. CASE BeginCheck
  <2>1. PICK from \in 1..(drawn + 1), to \in 1..(drawn + 1) :
          check' = [at |-> "anchor", from |-> from, to |-> to, anchor |-> Genesis,
                    ahead |-> \A r \in entries : r.seq < from]
    BY <1>1 DEF BeginCheck
  <2>2. check'.at = "anchor" /\ check'.from = from /\ 1 <= from
    BY <2>1
  <2> QED BY <2>2 DEF AnchorIsBefore
<1>2. CASE ReadAnchor
  <2>1. PICK s \in 0..drawn :
          /\ IsTail(s, {r \in entries : r.seq < check.from})
          /\ check' = [check EXCEPT !.at = "range", !.anchor = s]
    BY <1>2 DEF ReadAnchor
  <2>2. check \in [at : {"anchor", "range"}, from : Nat, to : Nat, anchor : Nat,
                   ahead : BOOLEAN] /\ check.at = "anchor"
    BY <1>2 DEF ReadAnchor, AuditInv, AuditTyped
  <2>3. check'.at = "range" /\ check'.from = check.from /\ check'.anchor = s
    BY <2>1, <2>2
  <2>4. s < check.from
    BY <2>1, <2>2 DEF IsTail, AnchorIsBefore, Genesis
  <2> QED BY <2>2, <2>3, <2>4 DEF AnchorIsBefore
<1>3. CASE CheckNothing \/ ReadRange
  <2>1. check'.at \in {"intact", "divergence"}
    <3>1. CASE CheckNothing
      BY <3>1 DEF CheckNothing
    <3>2. CASE ReadRange
      <4>1. check \in [at : {"anchor", "range"}, from : Nat, to : Nat, anchor : Nat,
                       ahead : BOOLEAN]
        BY <3>2 DEF ReadRange, AuditInv, AuditTyped
      <4> QED BY <3>2, <4>1 DEF ReadRange
    <3> QED BY <1>3, <3>1, <3>2
  <2> QED BY <2>1 DEF AnchorIsBefore
<1>4. CASE UNCHANGED check
  BY <1>4 DEF AnchorIsBefore
<1> QED BY <1>1, <1>2, <1>3, <1>4
        DEF AuditNext, auditVars, DrawNumber, Lock, Link, LoseEntry, CommitEntry

\* A log with an overtaken entry in it is no chain any more.
THEOREM OvertakenIsBroken == AuditSpec => []InOrderIsLinear
<1>1. AuditInit => LateShows
  BY DEF AuditInit, LateShows
<1>2. AuditInv /\ LateShows => InOrderIsLinear
  <2> SUFFICES ASSUME AuditInv, LateShows, Linear(entries), late # {} PROVE FALSE
    BY DEF AuditInv, InOrderIsLinear
  <2>1. PICK r \in entries : r.seq < r.prev
    BY DEF LateShows
  <2>2. r \in Entry /\ \A q \in Before(r, entries) : q.seq < r.seq
    BY DEF AuditInv, AuditTyped, Before
  <2>3. IsTail(r.prev, Before(r, entries))
    BY DEF Linear
  <2> QED BY <2>1, <2>2, <2>3 DEF IsTail, Entry, Genesis
<1> QED BY <1>1, <1>2, LateShowsStep, AuditInvariant, PTL DEF AuditSpec

\* The link of an overtaken entry agrees with nothing that is before it.
LEMMA OvertakeStep ==
    AuditInv /\ LateShows /\ AnchorIsBefore /\ ReadRange =>
        /\ (\E r \in InRange : r.seq \in late) => check'.at = "divergence"
        /\ late = {} /\ ~check.ahead => check'.at = "intact"
<1> SUFFICES ASSUME AuditInv, LateShows, AnchorIsBefore, ReadRange
             PROVE  /\ (\E r \in InRange : r.seq \in late) => check'.at = "divergence"
                    /\ late = {} /\ ~check.ahead => check'.at = "intact"
  OBVIOUS
<1>0. check'.at = IF LinksAgree THEN "intact" ELSE "divergence"
  <2>1. check \in [at : {"anchor", "range"}, from : Nat, to : Nat, anchor : Nat,
                   ahead : BOOLEAN]
    BY DEF ReadRange, AuditInv, AuditTyped
  <2> QED BY <2>1 DEF ReadRange
<1>1. ASSUME NEW r \in InRange, r.seq \in late PROVE ~LinksAgree
  <2>1. PICK q \in entries : q.seq = r.seq /\ q.seq < q.prev
    BY <1>1 DEF LateShows
  <2>2. q \in InRange /\ check.from <= q.seq
    BY <2>1 DEF InRange
  <2>3. check.anchor < check.from /\ check.from \in Nat /\ check.anchor \in Nat
    BY DEF ReadRange, AnchorIsBefore, AuditInv, AuditTyped
  <2>4. q.seq \in Nat /\ q.prev \in Nat
    BY DEF AuditInv, AuditTyped, Entry
  <2>5. q.prev # check.anchor
    BY <2>1, <2>2, <2>3, <2>4
  <2>6. Before(q, InRange) # {} => ~IsTail(q.prev, Before(q, InRange))
    <3>1. \A t \in Before(q, InRange) : t.seq < q.seq /\ t.seq \in Nat
      BY DEF Before, InRange, AuditInv, AuditTyped, Entry
    <3> QED BY <2>1, <2>4, <3>1 DEF IsTail
  <2> QED BY <2>2, <2>5, <2>6 DEF LinksAgree
<1>2. ASSUME late = {}, ~check.ahead PROVE LinksAgree
  BY <1>2, LinksOfAChainAgree DEF ReadRange
<1> QED BY <1>0, <1>1, <1>2

\* /audit/verify finds an overtaken entry whenever it is asked about it, and
\* finds fault with nothing else.
THEOREM OvertakesAreFound == AuditSpec => OvertakeAlwaysShows
<1>1. AuditInit => LateShows /\ AnchorIsBefore
  BY DEF AuditInit, LateShows, AnchorIsBefore
<1> QED BY <1>1, OvertakeStep, LateShowsStep, AnchorIsBeforeStep, AuditInvariant, PTL
        DEF AuditSpec, OvertakeAlwaysShows

\* A commit that overtakes nothing publishes its entry after all others.
LEMMA InOrderStep ==
    AuditInv /\ AuditInv' /\ [AuditNext]_auditVars => [late' = {} => Publish]_entries
<1> SUFFICES ASSUME AuditInv, AuditInv', [AuditNext]_auditVars, entries' # entries, late' = {}
             PROVE  Publish
  OBVIOUS
<1>1. PICK i \in Inserts : CommitEntry(i)
  BY DEF AuditNext, auditVars, DrawNumber, Lock, Link, LoseEntry, CheckNothing,
         BeginCheck, ReadAnchor, ReadRange
<1>2. entries' = entries \union {[seq |-> insert[i].seq, prev |-> insert[i].prev]}
  BY <1>1 DEF CommitEntry
<1>3. entries' \subseteq Entry /\ Linear(entries')
  BY DEF AuditInv, AuditTyped, Linear, IsTail, Before
<1>4. insert[i].at = "open" /\ \A r \in entries : ~(r.seq > insert[i].seq)
  BY <1>1 DEF CommitEntry
<1>5. ASSUME NEW q \in entries PROVE q.seq < insert[i].seq
  <2>1. q.seq # insert[i].seq
    BY <1>4 DEF AuditInv, NumbersAreOwn
  <2>2. q.seq \in Nat /\ insert[i].seq \in Nat
    <3>1. insert[i].seq \in 1..drawn /\ drawn \in Nat /\ q \in Entry
      BY <1>4 DEF AuditInv, AuditTyped
    <3> QED BY <3>1 DEF Entry
  <2>3. ~(q.seq > insert[i].seq)
    BY <1>4
  <2> QED BY <2>1, <2>2, <2>3
<1> QED BY <1>2, <1>3, <1>5 DEF Publish

\* The audit log keeps the ledger's promise until its first overtaken entry.
THEOREM AuditIsALogInOrder == AuditSpec => InOrderPublishes
BY InOrderStep, AuditInvariant, PTL DEF AuditSpec, InOrderPublishes
==============================================================================
