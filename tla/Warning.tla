------------------------------- MODULE Warning -------------------------------
(***************************************************************************)
(* The warning agent (agent-svc, agents/warning/graph.py) and the alerts   *)
(* it drafts and dispatches in alerting-svc (module Alerting).             *)
(*                                                                         *)
(* One subject is one LangGraph thread: a checkpoint of the node to run    *)
(* next and of the values the nodes have written.  POST /agents/.../runs   *)
(* starts a run unless the thread has somewhere left to go, POST           *)
(* /threads/.../resume answers the question a run has paused on; both look *)
(* at the checkpoint and then execute the graph on a copy of its values,   *)
(* writing the checkpoint after every node.  Two executions of one thread  *)
(* do not know of each other.  The values outlive a run: starting another  *)
(* resets the runtime's own keys and none of the agent's.                  *)
(*                                                                         *)
(* The dispatch node drafts an alert and asks alerting-svc to dispatch it, *)
(* in two requests with a timeout.  Forecasts, wording, households and the *)
(* channel plan are choices; the observations and the audit entry a run    *)
(* ends with are left out.                                                 *)
(***************************************************************************)
EXTENDS Alerting

CONSTANTS
    Threads,        \* subjects
    Executions,     \* bound on starts and resumes; each drafts its own alert
    MaxFailures     \* bound on nodes that raise, time out or die

ASSUME WarningAssumption ==
    /\ Executions \subseteq Alerts
    /\ Executions \subseteq Requests
    /\ IsFiniteSet(Executions)
    /\ MaxFailures \in Nat

VARIABLES
    next,           \* per thread: the node the checkpoint would run, or Finished
    saved,          \* per thread: the checkpointed values
    execution,      \* what each start or resume is doing
    drafted,        \* per run: the alerts drafted for it
    refused,        \* per run: where those who refused it found it at rest
    taken,          \* per run: the answers its gate took
    failures,       \* per run: executions that ended in an exception
    overlaps        \* per run: executions that began beside another

agentVars == <<next, saved, execution, drafted, refused, taken, failures, overlaps>>
warningVars == <<alertingVars, agentVars>>

Nodes == {"decide", "select", "plan", "validate", "signoff", "dispatch", "report"}
Finished == "finished"
Active == Nodes \cup {"answering", "post", "wait"}

\* How a validation ended - its problems, and whether a person must sign - and
\* the run it was made in.
Verdict(run, problems, signoff) ==
    [of |-> run, problems |-> problems, signoff |-> signoff,
     dispatchable |-> run # None /\ ~problems /\ ~signoff]
Unvalidated == Verdict(None, FALSE, FALSE)
Validated(values) == values.validation # Unvalidated

\* A thread nobody has started: no value has been written.
NoValues ==
    [run |-> None, free |-> FALSE, needed |-> FALSE, review |-> FALSE, decision |-> "none",
     chose |-> FALSE, selection |-> "none", validation |-> Unvalidated, dispatched |-> None]

WarningInit ==
    /\ AlertingInit
    /\ next = [t \in Threads |-> Finished]
    /\ saved = [t \in Threads |-> NoValues]
    /\ execution = [e \in Executions |-> [at |-> "idle"]]
    /\ drafted = [e \in Executions |-> {}]
    /\ refused = [e \in Executions |-> {}]
    /\ taken = [e \in Executions |-> {}]
    /\ failures = [e \in Executions |-> 0]
    /\ overlaps = [e \in Executions |-> 0]

At(e, node) == execution[e].at = node
Values(e) == execution[e].values
ActiveOn(t) == {e \in Executions : execution[e].at \in Active /\ execution[e].thread = t}
Over == [at |-> "over"]

---------------------------------------------------------------------------
(* Starting and resuming.                                                  *)

\* start_run looks for a run already going, and rejoins it.
LookToStart(e, t) ==
    /\ At(e, "idle")
    /\ next[t] = Finished
    /\ execution' = [execution EXCEPT ![e] = [at |-> "starting", thread |-> t]]
    /\ UNCHANGED <<alertingVars, next, saved, drafted, refused, taken, failures, overlaps>>

\* Where an answer finds a run at rest: at the gate, or stopped at another node,
\* where an execution of it raised.
Found(t) ==
    IF ActiveOn(t) # {} THEN {} ELSE IF next[t] = "signoff" THEN {"asking"} ELSE {"failed"}

\* resume_run accepts an answer to whatever has somewhere left to go.
LookToResume(e, t) ==
    /\ At(e, "idle")
    /\ next[t] # Finished
    /\ \E approved, named \in BOOLEAN :
         /\ execution' = [execution EXCEPT ![e] =
                [at |-> "resuming", thread |-> t, approved |-> approved, named |-> named]]
         /\ refused' = [refused EXCEPT ![saved[t].run] = IF approved THEN @ ELSE @ \cup Found(t)]
    /\ UNCHANGED <<alertingVars, next, saved, drafted, taken, failures, overlaps>>

\* initial_state, over the values the thread already has; output and free text
\* come from the caller.
Fresh(values, e, free) ==
    [values EXCEPT !.run = e, !.free = free, !.review = FALSE, !.decision = "none"]

\* The checkpoint and the execution move on to a node; Finished ends the run.
Goto(e, values, node) ==
    LET t == execution[e].thread IN
    /\ next' = [next EXCEPT ![t] = node]
    /\ saved' = [saved EXCEPT ![t] = values]
    /\ execution' = [execution EXCEPT ![e] =
            IF node = Finished THEN Over ELSE [at |-> node, thread |-> t, values |-> values]]

\* ainvoke(state): LangGraph enters at the top, whatever the thread was doing.
Start(e) ==
    LET t == execution[e].thread IN
    /\ At(e, "starting")
    /\ \E free \in BOOLEAN : Goto(e, Fresh(saved[t], e, free), "decide")
    /\ overlaps' = [overlaps EXCEPT ![e] = IF ActiveOn(t) # {} THEN 1 ELSE 0]
    /\ UNCHANGED <<alertingVars, drafted, refused, taken, failures>>

---------------------------------------------------------------------------
(* Routing.                                                                *)

AfterSelection(values) == IF values.review THEN "signoff" ELSE "plan"

AfterValidation(values) ==
    IF values.validation.signoff THEN "signoff"
    ELSE IF values.validation.dispatchable THEN "dispatch" ELSE Finished

AfterSignoff(values) ==
    IF values.decision # "yes" \/ values.selection = "none" THEN Finished
    ELSE IF Validated(values) THEN "dispatch"
    ELSE IF values.chose THEN "select" ELSE "plan"

---------------------------------------------------------------------------
(* The nodes.                                                              *)

\* receive_forecast and decide_alert_needed.
Decide(e) ==
    /\ At(e, "decide")
    /\ \E needed \in BOOLEAN :
         Goto(e, [Values(e) EXCEPT !.needed = needed], IF needed THEN "select" ELSE Finished)
    /\ UNCHANGED <<alertingVars, drafted, refused, taken, failures, overlaps>>

\* The one somebody named, or the matrix's; it may fit or not.
SelectTemplate(e) ==
    /\ At(e, "select")
    /\ \E fits \in BOOLEAN :
         LET values == [Values(e) EXCEPT
                !.selection = IF fits THEN "full" ELSE "none", !.review = ~fits]
         IN  Goto(e, values, AfterSelection(values))
    /\ UNCHANGED <<alertingVars, drafted, refused, taken, failures, overlaps>>

\* resolve_targets and plan_channels.
Plan(e) ==
    /\ At(e, "plan")
    /\ Goto(e, Values(e), "validate")
    /\ UNCHANGED <<alertingVars, drafted, refused, taken, failures, overlaps>>

Validate(e) ==
    /\ At(e, "validate")
    /\ \E problems \in BOOLEAN :
         LET none == Values(e).selection = "none"
             verdict == Verdict(Values(e).run, problems \/ none, Values(e).free \/ none)
             values == [Values(e) EXCEPT
                !.validation = verdict, !.review = @ \/ verdict.signoff]
         IN  Goto(e, values, AfterValidation(values))
    /\ UNCHANGED <<alertingVars, drafted, refused, taken, failures, overlaps>>

\* Mutant: the alert is drafted above the interrupt.
DraftAndAsk(e) ==
    /\ At(e, "signoff")
    /\ Draft(e, Values(e).free)
    /\ drafted' = [drafted EXCEPT ![Values(e).run] = @ \cup {e}]
    /\ execution' = [execution EXCEPT ![e] = Over]
    /\ UNCHANGED <<next, saved, refused, taken, failures, overlaps>>

\* The interrupt: the node has not run, and runs from its top when resumed.
AskAPerson(e) ==
    /\ At(e, "signoff")
    /\ execution' = [execution EXCEPT ![e] = Over]
    /\ UNCHANGED <<alertingVars, next, saved, drafted, refused, taken, failures, overlaps>>

\* Mutant: an answer is an approval.
AnyAnswer(approved) == TRUE

\* What a person who approves is taken to have approved.
Approves(approved) == approved

\* human_signoff below the interrupt.  A validation without problems becomes
\* dispatchable; a named template replaces the selection's code and no more.
Signed(values, approved, named) ==
    IF ~Approves(approved) THEN [values EXCEPT !.needed = FALSE, !.decision = "no"]
    ELSE [values EXCEPT
            !.decision = "yes", !.chose = named,
            !.selection = IF named /\ @ = "none" THEN "named" ELSE @,
            !.validation = IF Validated(values) /\ ~@.problems
                            THEN Verdict(@.of, FALSE, FALSE) ELSE @]

\* ainvoke(Command(resume)) loads the checkpoint: at the gate the node will find
\* the answer, any other node runs again and the answer is lost, and a finished
\* thread has nothing to run.
Resume(e) ==
    LET t == execution[e].thread IN
    /\ At(e, "resuming")
    /\ execution' = [execution EXCEPT ![e] =
            IF next[t] = Finished THEN Over
            ELSE IF next[t] = "signoff"
            THEN [at |-> "answering", thread |-> t, values |-> saved[t],
                  approved |-> @.approved, named |-> @.named]
            ELSE [at |-> next[t], thread |-> t, values |-> saved[t]]]
    /\ overlaps' = [overlaps EXCEPT ![saved[t].run] = IF ActiveOn(t) # {} THEN @ + 1 ELSE @]
    /\ UNCHANGED <<alertingVars, next, saved, drafted, refused, taken, failures>>

\* The gate's node with an answer, from its top.
TakeAnswer(e) ==
    LET answer == execution[e]
        values == Signed(answer.values, answer.approved, answer.named)
    IN
    /\ At(e, "answering")
    /\ Goto(e, values, AfterSignoff(values))
    /\ taken' = [taken EXCEPT ![values.run] = @ \cup {IF answer.approved THEN "yes" ELSE "no"}]
    /\ UNCHANGED <<alertingVars, drafted, refused, failures, overlaps>>

\* The dispatch node: nothing for a validation that found problems; else a
\* draft, for which free text needs the decision the gate looks for.
SkipDispatch(e) ==
    /\ At(e, "dispatch")
    /\ ~(Values(e).needed /\ Values(e).validation.dispatchable)
    /\ Goto(e, Values(e), "report")
    /\ UNCHANGED <<alertingVars, drafted, refused, taken, failures, overlaps>>

DraftAlert(e) ==
    /\ At(e, "dispatch")
    /\ Values(e).needed /\ Values(e).validation.dispatchable
    /\ Values(e).free => Values(e).decision = "yes"
    /\ Draft(e, Values(e).free)
    /\ drafted' = [drafted EXCEPT ![Values(e).run] = @ \cup {e}]
    /\ execution' = [execution EXCEPT ![e].at = "post"]
    /\ UNCHANGED <<next, saved, refused, taken, failures, overlaps>>

AskToDispatch(e) ==
    /\ At(e, "post")
    /\ Ask(e, e)
    /\ execution' = [execution EXCEPT ![e].at = "wait"]
    /\ UNCHANGED <<next, saved, drafted, refused, taken, failures, overlaps>>

\* Whether alerting-svc's answer counts as a dispatch.
Succeeded(answer) == answer = "stored"

HearDispatched(e) ==
    /\ At(e, "wait")
    /\ request[e].at \in Answers /\ Succeeded(request[e].at)
    /\ Goto(e, [Values(e) EXCEPT !.dispatched = e], "report")
    /\ UNCHANGED <<alertingVars, drafted, refused, taken, failures, overlaps>>

\* An execution that ends in an exception leaves the checkpoint where it was.
Raise(e) ==
    /\ execution' = [execution EXCEPT ![e] = Over]
    /\ failures' = [failures EXCEPT ![Values(e).run] = @ + 1]
    /\ UNCHANGED <<alertingVars, next, saved, drafted, refused, taken, overlaps>>

\* Free text is refused there until somebody signs it off at the console.
HearRefused(e) ==
    /\ At(e, "wait")
    /\ request[e].at \in Answers /\ ~Succeeded(request[e].at)
    /\ Raise(e)

\* A node that raises, a request that times out, a process that dies: what
\* alerting-svc was asked for, it does.
Fail(e) ==
    /\ execution[e].at \in Active
    /\ failures[Values(e).run] < MaxFailures
    /\ Raise(e)

\* collect_receipts, assess_gaps and record.
Report(e) ==
    /\ At(e, "report")
    /\ Goto(e, Values(e), Finished)
    /\ UNCHANGED <<alertingVars, drafted, refused, taken, failures, overlaps>>

Run(e) ==
    \/ Start(e) \/ Resume(e) \/ TakeAnswer(e)
    \/ Decide(e) \/ SelectTemplate(e) \/ Plan(e) \/ Validate(e) \/ AskAPerson(e)
    \/ SkipDispatch(e) \/ DraftAlert(e) \/ AskToDispatch(e)
    \/ HearDispatched(e) \/ HearRefused(e) \/ Report(e)

\* At the console, an operator signs off what the agent drafted.
Console ==
    /\ \E a \in Alerts : SignOff(a)
    /\ UNCHANGED agentVars

Serve(q) == Work(q) /\ UNCHANGED agentVars

WarningNext ==
    \/ \E e \in Executions :
        \/ \E t \in Threads : LookToStart(e, t) \/ LookToResume(e, t)
        \/ Run(e)
        \/ Fail(e)
    \/ Console
    \/ \E q \in Requests : Serve(q) \/ (Abort(q) /\ UNCHANGED agentVars)

WarningSpec == WarningInit /\ [][WarningNext]_warningVars

---------------------------------------------------------------------------
\* To alerting-svc the agent is one more caller: whatever its graph, its people
\* and its failures do, alerting-svc only sees steps it takes for anybody, so
\* what is proved of Alerting holds below the agent too.
AgentIsACaller == AlertingInit /\ [][AlertingNext]_alertingVars

\* A run drafts a second alert only because an execution of it failed, or ran
\* beside another: without that, one run is one alert, however often the graph
\* stops for a person and starts again.
SecondAlertNeedsAFailure ==
    \A r \in Executions : Cardinality(drafted[r]) <= 1 + failures[r] + overlaps[r]

\* Free text is drafted for dispatch only by a run whose gate took a yes, an
\* answer of an earlier run or a refusal being none.  A run refused while it
\* stood at the gate drafts nothing at all, unless the gate took somebody's yes
\* or two executions of it overlapped; and no other refusal is lost but one that
\* raced an execution of the run or found it stopped by a failure.
AnswersAreKept ==
    \A r \in Executions :
        /\ (\E a \in drafted[r] : alert[a].freeText) => "yes" \in taken[r]
        /\ overlaps[r] = 0 =>
             /\ "asking" \in refused[r] \/ "no" \in taken[r] =>
                  drafted[r] = {} \/ "yes" \in taken[r]
             /\ "failed" \in refused[r] => failures[r] > 0

\* Free text of the agent's that reached anybody was approved in its own inbox
\* and signed off in alerting-svc: neither gate stands in for the other.
TextPassedBothGates ==
    \A r \in Executions : \A a \in drafted[r] :
        alert[a].freeText /\ (\E c \in Channels : sent[a][c] > 0)
            => "yes" \in taken[r] /\ alert[a].signed

\* What a run records as dispatched has its proof of delivery in alerting-svc,
\* across timeouts, crashes on either side and cancellations.
RecordedIsProved ==
    \A t \in Threads : saved[t].dispatched # None => proof[saved[t].dispatched] # None

\* What is dispatched was validated by the run that dispatches it, in particular
\* when a person named the template: the run goes back through selection.
ValidatedThisRun ==
    \A e \in Executions : At(e, "dispatch") => Values(e).validation.of = Values(e).run
============================================================================
