----------------------------- MODULE LedgerChain -----------------------------
(***************************************************************************)
(* Appending to one of ledger-svc's published hash chains (aid.approval,   *)
(* aid.disbursement, aid.disbursement_reversal).                           *)
(*                                                                         *)
(* A writer is one database transaction: an API request, or one pass of    *)
(* the settlement worker, which appends several entries in one             *)
(* transaction.  chain_writer.append reads the tail, computes the entry    *)
(* hash against it and inserts; the insert draws `seq` from the table's    *)
(* identity sequence, then the hash_chain trigger takes a transaction-     *)
(* scoped advisory lock, reads the tail again and refuses an entry whose   *)
(* prev_hash is not that tail.  A refusal rolls the savepoint back and     *)
(* the append starts over, at most MaxAttempts times.                      *)
(*                                                                         *)
(* Transactions run READ COMMITTED: each statement, the trigger's own      *)
(* SELECT included, sees what is committed when it starts and the          *)
(* transaction's own rows.                                                 *)
(***************************************************************************)
EXTENDS AppendLog

CONSTANTS
    Writers,        \* transactions that may append
    MaxAttempts,    \* chain_writer.MAX_ATTEMPTS
    MaxBatch,       \* bound: entries one transaction appends
    Nobody          \* the advisory lock when no transaction holds it

ASSUME ChainAssumption ==
    /\ MaxAttempts \in Nat \ {0}
    /\ MaxBatch \in Nat \ {0}
    /\ Nobody \notin Writers

VARIABLES
    mine,       \* entries a transaction inserted and has not committed
    lastSeq,    \* the identity sequence; never rolled back
    holder,     \* who holds the table's advisory lock
    pc,         \* where each writer stands
    tail,       \* the tail hash its last read returned
    seq,        \* the sequence number its last INSERT drew
    attempt,    \* the attempt its current append is on
    appended,   \* entries its current transaction has appended
    commits,    \* history: transactions that committed an entry
    began,      \* history: commits when the current append started
    readAt,     \* history: commits when its tail was read
    seen,       \* entries a reader has fetched
    cursor      \* the from_seq of the reader's next page

writerVars == <<pc, tail, seq, attempt, appended>>
history == <<commits, began, readAt>>
readerVars == <<seen, cursor>>
vars == <<entries, mine, lastSeq, holder, writerVars, history, readerVars>>

Phases == {"ready", "tail", "insert", "lock", "check", "open", "done", "failed"}
InTransaction == {"tail", "insert", "lock", "check", "open"}

(* What a statement of w's transaction sees.                               *)
Visible(w) == entries \union mine[w]

Init ==
    /\ LogInit
    /\ mine = [w \in Writers |-> {}]
    /\ lastSeq = Genesis
    /\ holder = Nobody
    /\ pc = [w \in Writers |-> "ready"]
    /\ tail = [w \in Writers |-> Genesis]
    /\ seq = [w \in Writers |-> Genesis]
    /\ attempt = [w \in Writers |-> 1]
    /\ appended = [w \in Writers |-> 0]
    /\ commits = 0
    /\ began = [w \in Writers |-> 0]
    /\ readAt = [w \in Writers |-> 0]
    /\ seen = {}
    /\ cursor = 0

-----------------------------------------------------------------------------
(* append(): enter the loop, for the first entry of a transaction or for   *)
(* a further one (a settlement pass records one reversal per payment).     *)
BeginAppend(w) ==
    /\ \/ pc[w] = "ready"
       \/ pc[w] = "open" /\ appended[w] < MaxBatch
    /\ pc' = [pc EXCEPT ![w] = "tail"]
    /\ attempt' = [attempt EXCEPT ![w] = 1]
    /\ began' = [began EXCEPT ![w] = commits]
    /\ UNCHANGED <<entries, mine, lastSeq, holder, tail, seq, appended,
                   commits, readAt, readerVars>>

(* current_tail(), outside any lock.                                       *)
ReadTail(w) ==
    /\ pc[w] = "tail"
    /\ \E s \in 0..lastSeq :
        /\ IsTail(s, Visible(w))
        /\ tail' = [tail EXCEPT ![w] = s]
    /\ pc' = [pc EXCEPT ![w] = "insert"]
    /\ readAt' = [readAt EXCEPT ![w] = commits]
    /\ UNCHANGED <<entries, mine, lastSeq, holder, seq, attempt, appended,
                   commits, began, readerVars>>

(* The INSERT computes its column defaults, seq among them, before its     *)
(* BEFORE triggers run: a number drawn here may be older than the numbers  *)
(* committed while this transaction waits for the lock.                    *)
DrawSeq(w) ==
    /\ pc[w] = "insert"
    /\ lastSeq' = lastSeq + 1
    /\ seq' = [seq EXCEPT ![w] = lastSeq + 1]
    /\ pc' = [pc EXCEPT ![w] = "lock"]
    /\ UNCHANGED <<entries, mine, holder, tail, attempt, appended, history,
                   readerVars>>

(* Mutated form: the trigger takes no lock.                                *)
LockUnused(w) == TRUE

(* pg_advisory_xact_lock: granted when free, and re-entrant.               *)
LockFree(w) == holder \in {Nobody, w}

TakeLock(w) ==
    /\ pc[w] = "lock"
    /\ LockFree(w)
    /\ holder' = w
    /\ pc' = [pc EXCEPT ![w] = "check"]
    /\ UNCHANGED <<entries, mine, lastSeq, tail, seq, attempt, appended,
                   history, readerVars>>

(* Mutated forms: the trigger trusts the caller's prev_hash; and it expects *)
(* numbers without holes, which rolled-back writers leave.                 *)
TailTrusted(w) == TRUE
TailConsecutive(w) == IsTail(tail[w], Visible(w)) /\ seq[w] = tail[w] + 1

(* The trigger's own read of the tail, under the lock, finds prev_hash.    *)
TailUnmoved(w) == IsTail(tail[w], Visible(w))

(* prev_hash is the tail the trigger reads: the row goes in, the savepoint *)
(* is released and the lock stays with the transaction.                    *)
InsertRow(w) ==
    /\ pc[w] = "check"
    /\ TailUnmoved(w)
    /\ mine' = [mine EXCEPT ![w] = @ \union {[seq |-> seq[w], prev |-> tail[w]]}]
    /\ appended' = [appended EXCEPT ![w] = @ + 1]
    /\ pc' = [pc EXCEPT ![w] = "open"]
    /\ UNCHANGED <<entries, lastSeq, holder, tail, seq, attempt, history,
                   readerVars>>

(* Rolling back to the savepoint gives up a lock taken since it, so only a *)
(* transaction that had appended before keeps the lock.                    *)
HolderAfterSavepoint(w) == IF mine[w] = {} THEN Nobody ELSE holder

(* Where a lost attempt resumes, and whether there is another one.         *)
ResumeAt == "tail"
AttemptsLeft(w) == attempt[w] < MaxAttempts

(* "hash chain break": another writer appended first.  Go round again.     *)
ChainBreak(w) ==
    /\ pc[w] = "check"
    /\ ~TailUnmoved(w)
    /\ AttemptsLeft(w)
    /\ attempt' = [attempt EXCEPT ![w] = @ + 1]
    /\ holder' = HolderAfterSavepoint(w)
    /\ pc' = [pc EXCEPT ![w] = ResumeAt]
    /\ UNCHANGED <<entries, mine, lastSeq, tail, seq, appended, history,
                   readerVars>>

(* A transaction that has ended leaves nothing of its own behind.          *)
Forget(w) ==
    /\ mine' = [mine EXCEPT ![w] = {}]
    /\ tail' = [tail EXCEPT ![w] = Genesis]
    /\ seq' = [seq EXCEPT ![w] = Genesis]
    /\ attempt' = [attempt EXCEPT ![w] = 1]
    /\ appended' = [appended EXCEPT ![w] = 0]
    /\ began' = [began EXCEPT ![w] = 0]
    /\ readAt' = [readAt EXCEPT ![w] = 0]

(* The last attempt lost as well: ChainAppendFailed leaves the request,    *)
(* and the whole transaction is rolled back.                               *)
AppendFailed(w) ==
    /\ pc[w] = "check"
    /\ ~TailUnmoved(w)
    /\ ~AttemptsLeft(w)
    /\ Forget(w)
    /\ holder' = Nobody
    /\ pc' = [pc EXCEPT ![w] = "failed"]
    /\ UNCHANGED <<entries, lastSeq, commits, readerVars>>

(* Mutated form: a session-level lock survives the transaction.            *)
LockKept == holder

(* The transaction-scoped lock goes with the transaction.                  *)
LockReleased == Nobody

(* get_session(): commit makes the rows visible, then the lock goes.       *)
Commit(w) ==
    /\ pc[w] = "open"
    /\ entries' = entries \union mine[w]
    /\ Forget(w)
    /\ holder' = LockReleased
    /\ commits' = commits + 1
    /\ pc' = [pc EXCEPT ![w] = "done"]
    /\ UNCHANGED <<lastSeq, readerVars>>

(* get_session(): any other refused constraint, any exception after the    *)
(* append, a lost connection - everything the transaction did is undone,   *)
(* except the sequence numbers it drew.                                    *)
Rollback(w) ==
    /\ pc[w] \in InTransaction
    /\ Forget(w)
    /\ holder' = IF holder = w THEN Nobody ELSE holder
    /\ pc' = [pc EXCEPT ![w] = "failed"]
    /\ UNCHANGED <<entries, lastSeq, commits, readerVars>>

(* A verifier pages through the public ledger: rows with seq >= from_seq,  *)
(* in seq order, up to a limit; the next page starts past the last row.    *)
ReadPage ==
    \E r \in entries :
        /\ r.seq >= cursor
        /\ seen' = seen \union {q \in entries : q.seq >= cursor /\ q.seq <= r.seq}
        /\ cursor' = r.seq + 1
        /\ UNCHANGED <<entries, mine, lastSeq, holder, writerVars, history>>

(* Every request has been answered.                                        *)
AllAnswered ==
    /\ \A w \in Writers : pc[w] \in {"done", "failed"}
    /\ UNCHANGED vars

Advance(w) ==
    \/ ReadTail(w) \/ DrawSeq(w)
    \/ InsertRow(w) \/ ChainBreak(w) \/ AppendFailed(w) \/ Commit(w)

Next ==
    \/ \E w \in Writers : BeginAppend(w) \/ Advance(w) \/ TakeLock(w) \/ Rollback(w)
    \/ ReadPage
    \/ AllAnswered

(* A request keeps executing, and PostgreSQL hands an advisory lock to its *)
(* waiters in arrival order, so no waiter is overtaken for ever.           *)
Fairness == \A w \in Writers : WF_vars(Advance(w)) /\ SF_vars(TakeLock(w))

Spec == Init /\ [][Next]_vars /\ Fairness

-----------------------------------------------------------------------------
TypeOK ==
    /\ entries \subseteq Entry
    /\ mine \in [Writers -> SUBSET Entry]
    /\ lastSeq \in Nat
    /\ holder \in Writers \union {Nobody}
    /\ pc \in [Writers -> Phases]
    /\ tail \in [Writers -> Nat]
    /\ seq \in [Writers -> Nat]
    /\ attempt \in [Writers -> 1..MaxAttempts]
    /\ appended \in [Writers -> Nat]
    /\ commits \in Nat
    /\ began \in [Writers -> Nat]
    /\ readAt \in [Writers -> Nat]
    /\ seen \subseteq Entry
    /\ cursor \in Nat

(* The chain never forks and has no gap, whatever writers race or abort:   *)
(* what repo/chain_writer.py calls "the entire reason the chain cannot     *)
(* silently fork".                                                         *)
NoFork == Linear(entries)

(* A reader that pages by seq has every entry below its cursor.  Numbers   *)
(* are drawn before the lock is taken, so it is the tail comparison that   *)
(* keeps an older number from being committed behind a reader.             *)
ReaderMissesNothing == seen = {r \in entries : r.seq < cursor}

(* A lost attempt is always some other writer's commit during this append: *)
(* writers that roll back cost nobody an attempt, and ChainAppendFailed    *)
(* needs MaxAttempts commits by others.                                    *)
LostRacesAreCommits ==
    \A w \in Writers :
        pc[w] \in InTransaction => attempt[w] - 1 <= commits - began[w]

(* The advisory lock always belongs to somebody who will give it up: a     *)
(* transaction that is still open and is checking its row or has inserted  *)
(* one.  A rolled-back savepoint or transaction leaves no lock behind.     *)
LockIsNeverOrphaned ==
    \A w \in Writers :
        /\ holder = w <=> pc[w] = "check" \/ mine[w] # {}
        /\ holder = w => pc[w] \in InTransaction

(* The retry gives up only on a chain that is moving: when an append ends  *)
(* in ChainAppendFailed, at least MaxAttempts transactions have committed  *)
(* since it began.                                                         *)
FailuresCostCommits ==
    [][\A w \in Writers : AppendFailed(w) => MaxAttempts <= commits - began[w]]_vars

(* Every append that starts is answered: the bounded retry ends, and a     *)
(* queue of writers on the lock drains.                                    *)
EveryAppendAnswered ==
    \A w \in Writers : pc[w] \in InTransaction ~> pc[w] \in {"done", "failed"}

(* The published chain is the abstract append-only log.                    *)
Published == LogSpec
==============================================================================
