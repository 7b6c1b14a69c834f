----------------------------- MODULE AuditChain -----------------------------
(***************************************************************************)
(* The audit log of core-api: entries chained by the database trigger      *)
(* sarana_hash_chain, and the check an auditor asks for at /audit/verify.  *)
(*                                                                         *)
(* It differs from the ledger's chain (module LedgerChain) in one thing.   *)
(* There a writer names the tail and is refused when it has moved; here    *)
(* the trigger fills in whatever the tail is.  The identity number is      *)
(* drawn by the INSERT, before the trigger waits for the lock, so that a   *)
(* number may be linked, and committed, after greater ones.                *)
(*                                                                         *)
(* Each entry is a transaction of its own (api/internal/audit.py), READ    *)
(* COMMITTED.  A hash is the number of the entry it covers.                *)
(***************************************************************************)
EXTENDS AppendLog

CONSTANT Inserts    \* requests that write an entry

VARIABLES
    drawn,          \* the identity sequence; never rolled back
    insert,         \* how far each request is, with its seq and prev_hash
    late,           \* history: numbers committed after a greater one
    check           \* the verification in progress, or what the last one said

auditVars == <<entries, drawn, insert, late, check>>

\* The trigger's advisory lock is held from its grant to the transaction's end.
Holds(i) == insert[i].at \in {"link", "open"}

AuditInit ==
    /\ LogInit
    /\ drawn = Genesis
    /\ insert = [i \in Inserts |-> [at |-> "asked", seq |-> Genesis, prev |-> Genesis]]
    /\ late = {}
    /\ check = [at |-> "none"]

-----------------------------------------------------------------------------
\* The INSERT computes its defaults first.
DrawNumber(i) ==
    /\ insert[i].at = "asked"
    /\ drawn' = drawn + 1
    /\ insert' = [insert EXCEPT ![i] = [at |-> "lock", seq |-> drawn + 1, prev |-> Genesis]]
    /\ UNCHANGED <<entries, late, check>>

\* pg_advisory_xact_lock
Lock(i) ==
    /\ insert[i].at = "lock"
    /\ \A j \in Inserts : ~Holds(j)
    /\ insert' = [insert EXCEPT ![i].at = "link"]
    /\ UNCHANGED <<entries, drawn, late, check>>

\* The trigger's SELECT sees what is committed by now; nobody supplies prev_hash.
Link(i) ==
    /\ insert[i].at = "link"
    /\ \E s \in 0..drawn :
        /\ IsTail(s, entries)
        /\ insert' = [insert EXCEPT ![i].at = "open", ![i].prev = s]
    /\ UNCHANGED <<entries, drawn, late, check>>

CommitEntry(i) ==
    /\ insert[i].at = "open"
    /\ entries' = entries \union {[seq |-> insert[i].seq, prev |-> insert[i].prev]}
    /\ late' = IF \E r \in entries : r.seq > insert[i].seq
                 THEN late \union {insert[i].seq} ELSE late
    /\ insert' = [insert EXCEPT ![i].at = "done"]
    /\ UNCHANGED <<drawn, check>>

\* Any exception or crash before the commit; the number stays drawn.
LoseEntry(i) ==
    /\ insert[i].at \in {"lock", "link", "open"}
    /\ insert' = [insert EXCEPT ![i].at = "lost"]
    /\ UNCHANGED <<entries, drawn, late, check>>

-----------------------------------------------------------------------------
\* verify_chain answers for an empty log at once.
CheckNothing ==
    /\ check.at \in {"none", "intact", "divergence"}
    /\ entries = {}
    /\ check' = [at |-> "intact"]
    /\ UNCHANGED <<entries, drawn, insert, late>>

\* chain_bounds, and a range: everything, or what is asked for, which may begin
\* past the highest number (one past all that were drawn stands for any further).
BeginCheck ==
    /\ check.at \in {"none", "intact", "divergence"}
    /\ entries # {}
    /\ \E from, to \in 1..(drawn + 1) :
        /\ from <= to
        /\ check' = [at |-> "anchor", from |-> from, to |-> to, anchor |-> Genesis,
                     ahead |-> \A r \in entries : r.seq < from]
    /\ UNCHANGED <<entries, drawn, insert, late>>

\* The entry before the range, or the start of the chain.
ReadAnchor ==
    /\ check.at = "anchor"
    /\ \E s \in 0..drawn :
        /\ IsTail(s, {r \in entries : r.seq < check.from})
        /\ check' = [check EXCEPT !.at = "range", !.anchor = s]
    /\ UNCHANGED <<entries, drawn, insert, late>>

InRange == {r \in entries : check.from <= r.seq /\ r.seq <= check.to}

\* In the order of seq, every row names the row before it.  (A row's own hash is
\* right: nobody edits anything here.)
LinksAgree ==
    \A r \in InRange :
        IF Before(r, InRange) = {} THEN r.prev = check.anchor
                                   ELSE IsTail(r.prev, Before(r, InRange))

\* verify_range
ReadRange ==
    /\ check.at = "range"
    /\ check' = [check EXCEPT !.at = IF LinksAgree THEN "intact" ELSE "divergence"]
    /\ UNCHANGED <<entries, drawn, insert, late>>

AuditNext ==
    \/ \E i \in Inserts :
        DrawNumber(i) \/ Lock(i) \/ Link(i) \/ CommitEntry(i) \/ LoseEntry(i)
    \/ CheckNothing \/ BeginCheck \/ ReadAnchor \/ ReadRange

AuditSpec == AuditInit /\ [][AuditNext]_auditVars

-----------------------------------------------------------------------------
\* No check of a log that nobody has touched reports a divergence: it answers
\* "has this record been edited since it was written" (api/v1/audit.py:121), and
\* the trigger's lock is there so that concurrent inserts do not break the chain.
HonestLogVerifies == check.at # "divergence"

\* What the code does give: a divergence needs an entry that was overtaken, its
\* number committed after a greater one, or a range that was asked for beyond
\* the log's end and was written while the check ran.
DivergenceNeedsAnOvertake ==
    check.at = "divergence" => late # {} \/ check.ahead

\* One overtaken entry is enough to break the log for good, and nothing else is.
InOrderIsLinear == Linear(entries) <=> late = {}

\* And the check tells: whoever asks for a range with an overtaken entry in it is
\* told of a divergence, every time; whoever checks a log without one never is.
OvertakeAlwaysShows ==
    [][ReadRange =>
        /\ (\E r \in InRange : r.seq \in late) => check'.at = "divergence"
        /\ late = {} /\ ~check.ahead => check'.at = "intact"]_auditVars

\* As long as nothing is overtaken the audit log, too, is the append-only log.
InOrderPublishes == [][late' = {} => Publish]_entries
==============================================================================
