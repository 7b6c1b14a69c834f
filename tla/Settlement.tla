------------------------------ MODULE Settlement ------------------------------
(***************************************************************************)
(* What becomes of released payments (ledger-svc, workers/settlement.py    *)
(* and api/internal/reversals.py).                                         *)
(*                                                                         *)
(* The rail accepts a transfer at once and settles it, or returns it,      *)
(* later.  Every replica of the service runs a settlement worker: a pass   *)
(* takes the oldest payments of unknown outcome, asks the rail about them  *)
(* one by one, and reverses the returned ones, all in ONE transaction that *)
(* commits at the end of the pass.  The rail's callback reverses a single  *)
(* payment in a transaction of its own.  Meanwhile households confirm that *)
(* the money arrived.                                                      *)
(*                                                                         *)
(* A reversal is one entry of the hash chain aid.disbursement_reversal:    *)
(* its INSERT takes the chain's advisory lock, which the transaction keeps *)
(* to its end (LedgerChain models the append itself).                      *)
(***************************************************************************)
EXTENDS Naturals, FiniteSets

CONSTANTS
    MaxPayment,    \* bound: payments, numbered in the order of their release
    Workers,       \* settlement workers, one per replica
    Callbacks,     \* requests of the rail's callback
    Limit,         \* payments one pass asks about
    Window,        \* passes that fit between an outcome and WINDOW_DAYS
    MaxFaults,     \* bound: unanswered questions and aborted transactions
    Nobody         \* the advisory lock when no transaction holds it

Payments == 1..MaxPayment
Sessions == Workers \cup Callbacks

ASSUME SettlementAssumption ==
    /\ MaxPayment \in Nat
    /\ Limit \in Nat \ {0}
    /\ Window \in Nat
    /\ MaxFaults \in Nat
    /\ Workers \cap Callbacks = {}
    /\ Nobody \notin Sessions

VARIABLES
    rail,       \* what the rail would answer about each payment
    confirmed,  \* payments whose household said the money arrived
    reversed,   \* payments with a committed reversal
    passes,     \* passes begun since the rail last decided a payment
    aged,       \* payments older than WINDOW_DAYS
    pc,         \* where each transaction stands
    todo,       \* payments it has still to look at
    done,       \* reversals it has inserted and not committed
    holder,     \* who holds the chain's advisory lock
    faults      \* unanswered questions and aborted transactions so far

vars == <<rail, confirmed, reversed, passes, aged, pc, todo, done, holder, faults>>
world == <<rail, confirmed, passes, aged>>

\* RETURNED and FAILED mean the same to the code; "unknown" is a reference the
\* rail has never heard of.
Answers == {"accepted", "settled", "returned", "unknown"}
Phases == {"idle", "ask", "read", "write"}

\* The oldest of a set of payments.
Oldest(p, S) == p \in S /\ \A q \in S : p <= q

Init ==
    /\ rail \in [Payments -> {"accepted", "unknown"}]
    /\ confirmed = {}
    /\ reversed = {}
    /\ passes = 0
    /\ aged = {}
    /\ pc = [s \in Sessions |-> "idle"]
    /\ todo = [s \in Sessions |-> {}]
    /\ done = [s \in Sessions |-> {}]
    /\ holder = Nobody
    /\ faults = 0

-------------------------------------------------------------------------------
(* The world around the ledger.                                            *)

\* An accepted transfer reaches its final state.
RailSettles(p) ==
    /\ rail[p] = "accepted"
    /\ \E outcome \in {"settled", "returned"} : rail' = [rail EXCEPT ![p] = outcome]
    /\ passes' = 0
    /\ UNCHANGED <<confirmed, reversed, aged, pc, todo, done, holder, faults>>

\* The household answers YES, by message or in the app: one guarded UPDATE,
\* which waits for a reversal of that payment in flight.
Confirm(p) ==
    /\ p \notin confirmed
    /\ \A s \in Sessions : p \notin done[s]
    /\ confirmed' = confirmed \cup {p}
    /\ UNCHANGED <<rail, reversed, passes, aged, pc, todo, done, holder, faults>>

\* Time passes: rails decide within hours, so by the time a payment leaves the
\* window of 30 days many passes have begun since.
Age(p) ==
    /\ Oldest(p, Payments \ aged)
    /\ rail[p] # "accepted"
    /\ passes = Window
    /\ aged' = aged \cup {p}
    /\ UNCHANGED <<rail, confirmed, reversed, passes, pc, todo, done, holder, faults>>

-------------------------------------------------------------------------------
(* A transaction begins.                                                   *)

\* _PENDING_SETTLEMENT: not reversed, not confirmed, inside the window, oldest
\* first, up to the limit.
Pending == Payments \ (reversed \cup confirmed \cup aged)
WorkList == {p \in Pending : Cardinality({q \in Pending : q < p}) < Limit}

\* run_once, from the worker's timer.
BeginPass(w) ==
    /\ pc[w] = "idle"
    /\ Pending # {}
    /\ pc' = [pc EXCEPT ![w] = "ask"]
    /\ todo' = [todo EXCEPT ![w] = WorkList]
    /\ passes' = IF passes < Window THEN passes + 1 ELSE passes
    /\ UNCHANGED <<rail, confirmed, reversed, aged, done, holder, faults>>

\* The rail's callback reports a returned transfer.
BeginReport(c, p) ==
    /\ pc[c] = "idle"
    /\ rail[p] = "returned"
    /\ p \notin reversed
    /\ pc' = [pc EXCEPT ![c] = "read"]
    /\ todo' = [todo EXCEPT ![c] = {p}]
    /\ UNCHANGED <<world, reversed, done, holder, faults>>

-------------------------------------------------------------------------------
(* A pass asks the rail about its next payment.                            *)

Turn(s, p) == Oldest(p, todo[s])

Skip(s, p) ==
    /\ pc' = [pc EXCEPT ![s] = "ask"]
    /\ todo' = [todo EXCEPT ![s] = @ \ {p}]

\* Still in flight, arrived, or a reference the rail does not know: nothing is
\* concluded.
NothingToReverse(w, p) ==
    /\ pc[w] = "ask"
    /\ Turn(w, p)
    /\ rail[p] # "returned"
    /\ Skip(w, p)
    /\ UNCHANGED <<world, reversed, done, holder, faults>>

\* GovUpstreamError: leave the payment alone and ask again next pass.
LeftForLater(w, p) == Skip(w, p)

Unreachable(w, p) ==
    /\ pc[w] = "ask"
    /\ Turn(w, p)
    /\ faults < MaxFaults
    /\ faults' = faults + 1
    /\ LeftForLater(w, p)
    /\ UNCHANGED <<world, reversed, done, holder>>

Returned(w, p) ==
    /\ pc[w] = "ask"
    /\ Turn(w, p)
    /\ rail[p] = "returned"
    /\ pc' = [pc EXCEPT ![w] = "read"]
    /\ UNCHANGED <<world, reversed, todo, done, holder, faults>>

-------------------------------------------------------------------------------
(* record_reversal, by a pass or by the callback.                          *)

\* reversal_context_row finds the payment reversed already.
AlreadyReversed(s, p) ==
    /\ pc[s] = "read"
    /\ Turn(s, p)
    /\ p \in reversed
    /\ Skip(s, p)
    /\ UNCHANGED <<world, reversed, done, holder, faults>>

ReadContext(s, p) ==
    /\ pc[s] = "read"
    /\ Turn(s, p)
    /\ p \notin reversed
    /\ pc' = [pc EXCEPT ![s] = "write"]
    /\ UNCHANGED <<world, reversed, todo, done, holder, faults>>

\* A mistake: the lock goes with the savepoint of each append.
LockOfSavepoint(s) == Nobody

\* The advisory lock once s has appended.
LockAfterAppend(s) == s

LockFree(s) == holder \in {Nobody, s}

\* The case, the chained entry, the stamp on the payment and the entitlement's
\* status: visible to others when the transaction commits.
Reverse(s, p) ==
    /\ pc[s] = "write"
    /\ Turn(s, p)
    /\ LockFree(s)
    /\ p \notin reversed
    /\ done' = [done EXCEPT ![s] = @ \cup {p}]
    /\ holder' = LockAfterAppend(s)
    /\ Skip(s, p)
    /\ UNCHANGED <<world, reversed, faults>>

\* A mistake: the lock outlives the transaction.
LockKept(s) == holder

LockAfterEnd(s) == IF holder = s THEN Nobody ELSE holder

\* A mistake: the exception ends the worker's loop.
LoopEnds == "stopped"

\* _tick logs the exception and the loop goes on.
AfterException == "idle"

Undo(s) ==
    /\ pc' = [pc EXCEPT ![s] = AfterException]
    /\ todo' = [todo EXCEPT ![s] = {}]
    /\ done' = [done EXCEPT ![s] = {}]
    /\ holder' = LockAfterEnd(s)

\* uq_reversal_disbursement: another transaction reversed the payment first.
\* The whole pass is rolled back with it.
Refused(s, p) ==
    /\ pc[s] = "write"
    /\ Turn(s, p)
    /\ LockFree(s)
    /\ p \in reversed
    /\ Undo(s)
    /\ UNCHANGED <<world, reversed, faults>>

Commit(s) ==
    /\ pc[s] = "ask"
    /\ todo[s] = {}
    /\ reversed' = reversed \cup done[s]
    /\ pc' = [pc EXCEPT ![s] = "idle"]
    /\ done' = [done EXCEPT ![s] = {}]
    /\ holder' = LockAfterEnd(s)
    /\ UNCHANGED <<world, todo, faults>>

\* An append that lost every attempt, a lost connection, a crash.
Abort(s) ==
    /\ pc[s] # "idle"
    /\ faults < MaxFaults
    /\ faults' = faults + 1
    /\ Undo(s)
    /\ UNCHANGED <<world, reversed>>

-------------------------------------------------------------------------------
Ask(w) ==
    \E p \in todo[w] : NothingToReverse(w, p) \/ Unreachable(w, p) \/ Returned(w, p)

Record(s) ==
    \E p \in todo[s] :
        AlreadyReversed(s, p) \/ ReadContext(s, p) \/ Reverse(s, p) \/ Refused(s, p)

Work(w) == BeginPass(w) \/ Ask(w) \/ Record(w) \/ Commit(w)
Report(c) == Record(c) \/ Commit(c)

Next ==
    \/ \E p \in Payments : RailSettles(p) \/ Confirm(p) \/ Age(p)
    \/ \E c \in Callbacks, p \in Payments : BeginReport(c, p)
    \/ \E w \in Workers : Work(w)
    \/ \E c \in Callbacks : Report(c)
    \/ \E s \in Sessions : Abort(s)

\* The worker's loop polls for ever, a transaction that is running goes on, and
\* PostgreSQL grants a lock that stays free.  Nothing is assumed of the rail,
\* the callback or the households.
Fairness ==
    /\ \A w \in Workers : WF_vars(Work(w))
    /\ \A c \in Callbacks : WF_vars(Report(c))

Spec == Init /\ [][Next]_vars /\ Fairness

-------------------------------------------------------------------------------
(* Properties.                                                             *)

TypeOK ==
    /\ rail \in [Payments -> Answers]
    /\ confirmed \subseteq Payments
    /\ reversed \subseteq Payments
    /\ passes \in 0..Window
    /\ aged \subseteq Payments
    /\ pc \in [Sessions -> Phases]
    /\ todo \in [Sessions -> SUBSET Payments]
    /\ done \in [Sessions -> SUBSET Payments]
    /\ holder \in Sessions \cup {Nobody}
    /\ faults \in 0..MaxFaults

\* "A rail that is down is not a failed payment", and neither is one still in
\* flight or one the rail does not know: only what the rail returned comes off
\* the books, or is about to.
OnlyReturnedIsReversed ==
    \A p \in reversed \cup UNION {done[s] : s \in Sessions} : rail[p] = "returned"

\* A pass that loses the race for one payment to another replica or to the
\* callback is rolled back as a whole, and yet costs no earlier payment of the
\* pass its reversal: whoever has appended holds the chain's lock, and nobody
\* reverses under it.  "Never raises for one payment" (run_once) needs this.
LoserHasNothing ==
    \A s \in Sessions, p \in Payments :
        (pc[s] = "write" /\ Turn(s, p) /\ p \in reversed) => done[s] = {}

\* The reversals nobody can see yet belong to one transaction that is still
\* going on, which holds the chain's lock for as long as it has them, and no
\* payment among them is on the books already: nothing is reversed twice, and no
\* pass waits for a lock whose holder has ended.
OpenReversalsAreHeld ==
    \A s \in Sessions :
        /\ done[s] \cap reversed = {}
        /\ holder = s <=> done[s] # {}
        /\ holder = s => pc[s] # "idle"

\* "Nothing else in the platform would ever find out": a payment the rail
\* returned is reversed while it is still in the window, whatever replicas,
\* callbacks and outages do, unless its household says it arrived.
ReturnedIsReversed ==
    \A p \in Payments : rail[p] = "returned" ~> p \in reversed \cup confirmed

\* A report of the rail's callback is answered although a pass holds the chain
\* across its questions to the rail.
ReportIsAnswered ==
    \A c \in Callbacks : pc[c] = "write" ~> pc[c] = "idle"
===============================================================================
