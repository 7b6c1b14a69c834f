------------------------------ MODULE Alerting ------------------------------
(***************************************************************************)
(* Alerts in alerting-svc (api/v1/alerts.py, repo/queries.py,              *)
(* domain/delivery.py): drafted from a template, signed off when they      *)
(* carry free text, dispatched over every channel at once, cancelled, and  *)
(* counted afterwards from the stored receipts.                            *)
(*                                                                         *)
(* A request is one transaction, READ COMMITTED.  A dispatch reads the     *)
(* alert, resolves its households, updates the alert's row (which holds    *)
(* the row until the transaction ends), hands the messages to every        *)
(* channel, and only then stores what the channels said and commits: what  *)
(* is rolled back in the database has been sent all the same.              *)
(*                                                                         *)
(* Left out: wording, languages, the CAP document (whose refusal is one of *)
(* Resolve's), templates and their review.                                 *)
(***************************************************************************)
EXTENDS Naturals, FiniteSets

CONSTANTS
    Alerts,         \* bound on how many alerts are drafted
    Requests,       \* bound on how many dispatches are asked for
    Households,     \* those the directory knows in the alert's area
    PhoneOf,        \* the phone of each household, or NoPhone
    Verdicts,       \* [channel -> statuses its adapter may report for a message]
    MaxAborts,      \* bound on processes that die in the middle of a request
    NoPhone, Raised, None

Channels == DOMAIN Verdicts

\* Statuses that count as reached.  _summarise_rows takes READ for one as well,
\* which no adapter reports.
Confirming == {"SENT", "DELIVERED"}
Statuses == Confirming \cup {"FAILED", "QUEUED", "UNKNOWN", "NO_CHANNEL"}

\* A row of alerting.alert, as it is committed.
AlertRow ==
    [status : {"PENDING_SIGNOFF", "DRAFT", "DISPATCHED", "CANCELLED"},
     freeText : BOOLEAN, gated : BOOLEAN, signed : BOOLEAN]

ASSUME AlertingAssumption ==
    /\ DOMAIN PhoneOf = Households
    /\ IsFiniteSet(Households)
    /\ \A h \in Households : PhoneOf[h] \notin Households
    /\ Channels # {}
    /\ \A c \in Channels : Verdicts[c] \subseteq Statuses
    /\ MaxAborts \in Nat
    /\ None \notin Requests \cup AlertRow

VARIABLES
    alert,      \* committed rows of alerting.alert
    proof,      \* committed dispatch rows and receipts of each alert
    request,    \* POST /alerts/{id}/dispatch: where each handler stands
    holder,     \* the open transaction that has updated the alert's row
    sent,       \* how often each channel was handed each alert's messages
    undone,     \* dispatches rolled back after they had begun to send
    aborts

alertingVars == <<alert, proof, request, holder, sent, undone, aborts>>

Drafted(a) == alert[a] # None
Working == {"asked", "resolving", "ready", "sending"}
Answers == {"stored", "refused", "failed"}

---------------------------------------------------------------------------
(* Whom an alert is for, and what is made of the channels' receipts.       *)

\* Two households on one phone are one target; one without a phone is its own.
TargetOf(h) == IF PhoneOf[h] = NoPhone THEN h ELSE PhoneOf[h]
Targets == {TargetOf(h) : h \in Households}

\* What a channel may say: a status for every target, or that it raised.
Results(c) == [Targets -> Verdicts[c]] \cup {Raised}

ASSUME ResultsAssumption ==
    /\ \A c \in Channels : Raised \notin [Targets -> Verdicts[c]]
    /\ None \notin [Channels -> UNION {Results(c) : c \in Channels}]

\* The targets some channel gave one of these statuses.
ReportedAs(results, statuses) ==
    {t \in Targets : \E c \in DOMAIN results :
        results[c] # Raised /\ results[c][t] \in statuses}

\* A target counts once, under the best thing any channel said of it.
Buckets(results) ==
    LET confirmed == ReportedAs(results, Confirming)
        failed == ReportedAs(results, {"FAILED"}) \ confirmed
        unknown == ReportedAs(results, {"QUEUED", "UNKNOWN"}) \ confirmed
        none == ReportedAs(results, {"NO_CHANNEL"}) \ (confirmed \cup failed \cup unknown)
    IN  [confirmed |-> confirmed, unconfirmed |-> unknown, failed |-> failed, no_channel |-> none]

\* delivery.summarise: the answer to the dispatcher, who knows the targets.
Summary(results) ==
    LET b == Buckets(results)
        attempted == b.confirmed \cup b.unconfirmed \cup b.failed \cup b.no_channel
    IN  [targeted |-> Targets, buckets |-> [b EXCEPT !.no_channel = @ \cup (Targets \ attempted)]]

\* Mutant of StoredSummary: a target one channel failed stays failed, although
\* another reached it.
FailedAnywhere(a) ==
    LET b == Buckets(proof[a])
    IN  [targeted |-> b.confirmed \cup b.unconfirmed \cup b.failed \cup b.no_channel,
         buckets |-> [b EXCEPT !.failed = ReportedAs(proof[a], {"FAILED"})]]

\* _summarise_rows: GET /alerts/{id}/delivery, from the stored receipts alone.
StoredSummary(a) ==
    LET b == Buckets(proof[a])
    IN  [targeted |-> b.confirmed \cup b.unconfirmed \cup b.failed \cup b.no_channel,
         buckets |-> b]

---------------------------------------------------------------------------
AlertingInit ==
    /\ alert = [a \in Alerts |-> None]
    /\ proof = [a \in Alerts |-> None]
    /\ request = [q \in Requests |-> [at |-> "idle"]]
    /\ holder = [a \in Alerts |-> None]
    /\ sent = [a \in Alerts |-> [c \in Channels |-> 0]]
    /\ undone = [a \in Alerts |-> 0]
    /\ aborts = 0

\* Mutant: an alert built from a template never waits, whatever is added to it.
TemplatesNeverWait(freeText) == FALSE

\* Free text, and nothing else, is what waits for a person.
RequiresSignoff(freeText) == freeText

\* POST /alerts
Draft(a, freeText) ==
    /\ ~Drafted(a)
    /\ alert' = [alert EXCEPT ![a] =
            [status |-> IF RequiresSignoff(freeText) THEN "PENDING_SIGNOFF" ELSE "DRAFT",
             freeText |-> freeText, gated |-> RequiresSignoff(freeText), signed |-> FALSE]]
    /\ UNCHANGED <<proof, request, holder, sent, undone, aborts>>

\* POST /alerts/{id}/signoff: one guarded UPDATE, which waits for the row.
SignOff(a) ==
    /\ Drafted(a)
    /\ holder[a] = None
    /\ alert[a].status = "PENDING_SIGNOFF" /\ ~alert[a].signed
    /\ alert' = [alert EXCEPT ![a].signed = TRUE]
    /\ UNCHANGED <<proof, request, holder, sent, undone, aborts>>

\* POST /alerts/{id}/cancel: an UPDATE by id, whatever the status.
Cancel(a) ==
    /\ Drafted(a)
    /\ holder[a] = None
    /\ alert' = [alert EXCEPT ![a].status = "CANCELLED"]
    /\ UNCHANGED <<proof, request, holder, sent, undone, aborts>>

Ask(q, a) ==
    /\ request[q].at = "idle"
    /\ Drafted(a)
    /\ request' = [request EXCEPT ![q] = [at |-> "asked", alert |-> a]]
    /\ UNCHANGED <<alert, proof, holder, sent, undone, aborts>>

Go(q, at) == request' = [request EXCEPT ![q].at = at]
End(q, answer) == request' = [request EXCEPT ![q] = [at |-> answer, alert |-> @.alert]]

MayBeSent(row) ==
    /\ row.status \notin {"DISPATCHING", "DISPATCHED", "CANCELLED"}
    /\ row.gated => row.signed

\* get_alert and the two conflicts it may end in.
Read(q) ==
    /\ request[q].at = "asked"
    /\ Go(q, IF MayBeSent(alert[request[q].alert]) THEN "resolving" ELSE "refused")
    /\ UNCHANGED <<alert, proof, holder, sent, undone, aborts>>

\* The households, or a refusal: an invalid CAP document, no directory, a dry
\* run, too many targets.
Resolve(q) ==
    /\ request[q].at = "resolving"
    /\ \E next \in {"ready", "refused"} : Go(q, next)
    /\ UNCHANGED <<alert, proof, holder, sent, undone, aborts>>

\* Mutant: DISPATCHING is committed before the messages go out.
StartSendingCommitted(q) ==
    LET a == request[q].alert IN
    /\ request[q].at = "ready"
    /\ holder[a] = None
    /\ alert[a].gated => alert[a].signed
    /\ request' = [request EXCEPT ![q] = [at |-> "sending", alert |-> a, results |-> <<>>]]
    /\ holder' = [holder EXCEPT ![a] = q]
    /\ alert' = [alert EXCEPT ![a].status = "DISPATCHING"]
    /\ UNCHANGED <<proof, sent, undone, aborts>>

\* The UPDATE to DISPATCHING, seen by nobody else before the commit.  The table
\* takes it on any row but free text nobody signed.
StartSending(q) ==
    LET a == request[q].alert IN
    /\ request[q].at = "ready"
    /\ holder[a] = None
    /\ alert[a].gated => alert[a].signed
    /\ request' = [request EXCEPT ![q] = [at |-> "sending", alert |-> a, results |-> <<>>]]
    /\ holder' = [holder EXCEPT ![a] = q]
    /\ UNCHANGED <<alert, proof, sent, undone, aborts>>

\* The channels run at once and answer in any order; one that raises is noted
\* and disturbs no other.
Send(q, c) ==
    LET a == request[q].alert IN
    /\ request[q].at = "sending"
    /\ c \notin DOMAIN request[q].results
    /\ \E r \in Results(c) :
         request' = [request EXCEPT ![q].results =
            [x \in DOMAIN @ \cup {c} |-> IF x = c THEN r ELSE @[x]]]
    /\ sent' = [sent EXCEPT ![a][c] = @ + 1]
    /\ UNCHANGED <<alert, proof, holder, undone, aborts>>

\* Mutant: a request that dies leaves its transaction open.
RollBackLater(q) ==
    LET a == request[q].alert IN
    /\ End(q, "failed")
    /\ undone' = [undone EXCEPT ![a] = IF request[q].at = "sending" THEN @ + 1 ELSE @]
    /\ UNCHANGED holder

\* A rollback releases the row; nothing of the request is left but what was sent.
RollBack(q) ==
    LET a == request[q].alert IN
    /\ End(q, "failed")
    /\ holder' = [holder EXCEPT ![a] = IF @ = q THEN None ELSE @]
    /\ undone' = [undone EXCEPT ![a] = IF request[q].at = "sending" THEN @ + 1 ELSE @]

\* Mutant: no such constraint.
NeverRefused(a) == FALSE

\* uq_alert_dispatch_channel: one dispatch of an alert over a channel.
AlreadyStored(a) == proof[a] # None

\* The rows of every channel, DISPATCHED, and the commit; or the refusal.
Store(q) ==
    LET a == request[q].alert IN
    /\ request[q].at = "sending"
    /\ DOMAIN request[q].results = Channels
    /\ IF AlreadyStored(a)
         THEN RollBack(q) /\ UNCHANGED <<alert, proof>>
         ELSE /\ proof' = [proof EXCEPT ![a] = request[q].results]
              /\ alert' = [alert EXCEPT ![a].status = "DISPATCHED"]
              /\ Go(q, "stored")
              /\ holder' = [holder EXCEPT ![a] = None]
              /\ UNCHANGED undone
    /\ UNCHANGED <<sent, aborts>>

Abort(q) ==
    /\ request[q].at \in Working
    /\ aborts < MaxAborts
    /\ aborts' = aborts + 1
    /\ RollBack(q)
    /\ UNCHANGED <<alert, proof, sent>>

Work(q) == Read(q) \/ Resolve(q) \/ StartSending(q) \/ Store(q) \/ \E c \in Channels : Send(q, c)

\* What operators do at the console.
Operate ==
    \E a \in Alerts :
        \/ \E freeText \in BOOLEAN : Draft(a, freeText)
        \/ SignOff(a)
        \/ Cancel(a)
        \/ \E q \in Requests : Ask(q, a)

AlertingNext ==
    \/ Operate
    \/ \E q \in Requests : Work(q) \/ Abort(q)

\* A handler that is running goes on running, and channels answer.
AlertingSpec ==
    /\ AlertingInit
    /\ [][AlertingNext]_alertingVars
    /\ \A q \in Requests : WF_alertingVars(Work(q))

---------------------------------------------------------------------------
\* Nobody is warned twice by one alert, except by a dispatch that was rolled
\* back after it had begun: everything else that was sent is on record.
RepeatsWereRolledBack ==
    \A a \in Alerts, c \in Channels :
        sent[a][c] <= undone[a] + (IF proof[a] # None THEN 1 ELSE 0)
                        + (IF holder[a] # None THEN 1 ELSE 0)

\* An alert nobody can dispatch any more was cancelled, or has a row and
\* receipts for every channel: a crash never leaves one that is closed to
\* operators without its proof of delivery.
ClosedIsProved ==
    \A a \in Alerts : Drafted(a) /\ ~MayBeSent([alert[a] EXCEPT !.signed = TRUE]) =>
        \/ alert[a].status = "CANCELLED"
        \/ proof[a] # None /\ DOMAIN proof[a] = Channels

\* What the dispatcher was told and what anybody reads afterwards are the same
\* figures over the same people, as long as one channel answered.
FiguresAgree ==
    \A q \in Requests : request[q].at = "stored" =>
        LET told == request[q].results IN
        (\E c \in Channels : told[c] # Raised)
            => /\ Summary(told) = StoredSummary(request[q].alert)
               /\ Cardinality(Summary(told).targeted)
                    = Cardinality({PhoneOf[h] : h \in Households} \ {NoPhone})
                        + Cardinality({h \in Households : PhoneOf[h] = NoPhone})

\* An alert whose text somebody typed reaches nobody before a person signed it
\* off: not by a handler that read the row before, nor by one that is rolled back.
NothingUnsignedIsSent ==
    \A a \in Alerts, c \in Channels : sent[a][c] > 0
        => Drafted(a) /\ (alert[a].gated => alert[a].signed)

\* Two dispatches of one alert are never both told that it was dispatched.
OneDispatchIsTold ==
    \A p, q \in Requests :
        /\ request[p].at = "stored" /\ request[q].at = "stored"
        /\ request[p].alert = request[q].alert
        => p = q

\* A receipt is never rewritten, and a row keeps its text and its signature,
\* whatever is cancelled, dispatched again or rolled back.
RecordsStay ==
    [][\A a \in Alerts :
        /\ proof[a] # None => proof'[a] = proof[a]
        /\ Drafted(a) =>
             /\ Drafted(a)' /\ alert'[a].freeText = alert[a].freeText
             /\ alert[a].signed => alert'[a].signed]_alertingVars

\* Every dispatch that is asked for ends, also behind one that crashed.
EveryDispatchEnds ==
    \A q \in Requests : request[q].at = "asked" ~> request[q].at \in Answers
============================================================================
