------------------------------ MODULE AgentRun ------------------------------
(***************************************************************************)
(* One run of the agent: the bounded loop of model and tool calls, the     *)
(* rows it records in short transactions, the events it streams and the    *)
(* metrics it observes and counts.                                         *)
(*                                                                         *)
(* Source: services/agent/orchestrator.py with retry.py, tool_gateway.py,  *)
(* runtime_policy.py, repositories/runs.py and the /chat route.  The model *)
(* (LLM), the tools, the database's faults and the client are the          *)
(* environment.  An action is one model or tool attempt, one transaction   *)
(* or one yielded event: between two of them the task can be cancelled.    *)
(* Session state (manifest, scratchpad) is left to its own module.         *)
(***************************************************************************)
EXTENDS Integers, Sequences, FiniteSets

CONSTANTS MaxToolCalls,   \* MAX_TOOL_CALLS_PER_RUN
          MaxRetries,     \* MAX_RETRY_ATTEMPTS
          Registered,     \* names in the tool registry
          Asked,          \* tool names the model may ask for
          Tasks,          \* task types of requests
          Drills,         \* values of user_constraints.failure_drill
          Disconnects     \* the client of /chat may go away

ASSUME AgentAssumption == /\ MaxToolCalls \in Nat \ {0}
                          /\ MaxRetries \in Int
                          /\ Disconnects \in BOOLEAN

VARIABLES mode, task, drill,   \* the request: "sync" is /chat, "async" a worker's run
          status,     \* runs.status
          runText,    \* runs.final_text
          toolRows,   \* tool_calls
          transcript, \* run_transcript_events
          findings,   \* claims of findings
          gaps,       \* coverage_gaps.gap_type
          reviews,    \* human_review_items.trigger_class
          pc,         \* the next step of the generator
          attempt,    \* failed attempts of the current retry_async
          fired,      \* drill_flags that are set
          reply,      \* the last reply of the model: a tool name or "finish"
          used,       \* tool_calls_used
          output,     \* what the last tool returned
          exit,       \* tool_loop_exit
          text,       \* final_text
          stream,     \* events yielded
          outcome,    \* stream_outcome
          toolMetric, streamMetric,  \* outcome labels observed, "none" before
          kpi,        \* app_quality_kpi_total{kpi="coverage_gap"}, what the run added
          escalated,  \* app_escalation_total over all triggers, what the run added
          hurt        \* history: something other than a drill failed

request == <<mode, task, drill>>
rows    == <<status, runText, toolRows, transcript, findings, gaps, reviews>>
locals  == <<attempt, fired, reply, used, output, exit, text>>
seenBy  == <<stream, outcome, toolMetric, streamMetric>>
counted == <<kpi, escalated>>
vars    == <<request, rows, pc, locals, seenBy, counted, hurt>>

Ended   == {"completed", "failed"}
Stopped == {"done", "raised", "cancelled"}

OnceLLM       == {"transient_llm", "unknown_llm"}
OnceTool      == {"transient_tool", "validation_tool"}
PermanentLLM  == {"always_unknown_llm"}
PermanentTool == {"always_validation_tool"}

\* Where a text comes from, and after how many tool calls.
Text(origin) == [origin |-> origin, round |-> used]
NoText == [origin |-> "none", round |-> 0]

-----------------------------------------------------------------------------
(***************************************************************************)
(* The transcript.  `int(max or -1) + 1`: a maximum of 0 counts as none.   *)
(***************************************************************************)
MaxSeq(t) == CHOOSE m \in {t[i].seq : i \in DOMAIN t} : \A i \in DOMAIN t : t[i].seq <= m

NextSeq(t) == IF t = <<>> \/ MaxSeq(t) = 0 THEN 0 ELSE MaxSeq(t) + 1

AppendEvent(t, kind) == Append(t, [seq |-> NextSeq(t), kind |-> kind])

-----------------------------------------------------------------------------
Init == /\ mode \in {"sync", "async"} /\ task \in Tasks /\ drill \in Drills
        /\ status = "none" /\ transcript = <<>> /\ runText = NoText
        /\ toolRows = <<>> /\ findings = {} /\ gaps = <<>> /\ reviews = <<>>
        /\ pc = "begin"
        /\ attempt = 0 /\ fired = {} /\ reply = "finish" /\ used = 0
        /\ output = "none" /\ exit = "none" /\ text = NoText
        /\ stream = <<>> /\ outcome = "completed"
        /\ toolMetric = "none" /\ streamMetric = "none"
        /\ kpi = 0 /\ escalated = 0
        /\ hurt = FALSE

-----------------------------------------------------------------------------
(***************************************************************************)
(* Ways to go on and to stop.                                              *)
(***************************************************************************)
Continue(place) == pc' = place /\ UNCHANGED <<request, seenBy, hurt>>

\* The counters of gaps and of escalations, and how far a step gets with them.
CountNothing == UNCHANGED counted
CountGap     == kpi' = kpi + 1 /\ UNCHANGED escalated
ForgetsEscalation == kpi' = kpi + 1 /\ UNCHANGED escalated       \* seeded bug
CountBoth    == kpi' = kpi + 1 /\ escalated' = escalated + 1

\* The finally block of the generator, and that of the /chat route around it.
Observe(label) == /\ toolMetric' = label
                  /\ streamMetric' = IF mode = "async" THEN streamMetric
                                     ELSE IF label = "error" THEN "error" ELSE "completed"

RaiseUnlabelled == /\ pc' = "raised"                             \* seeded bug
                   /\ Observe(outcome)
                   /\ UNCHANGED <<request, locals, stream, outcome>>

\* An exception leaves the generator.
Raise == /\ pc' = "raised"
         /\ outcome' = "error"
         /\ Observe("error")
         /\ UNCHANGED <<request, locals, stream>>

\* A transaction does not return: it fails, or the client of /chat leaves
\* while it runs.  "effect" is what it leaves: it is rolled back, or applied
\* with its acknowledgement lost.
MayLeave == Disconnects /\ mode = "sync"

Stops(label) == \/ hurt' = TRUE /\ Raise
                \/ /\ MayLeave
                   /\ pc' = "cancelled"
                   /\ outcome' = label
                   /\ Observe(label)
                   /\ UNCHANGED <<request, locals, stream, hurt>>

TxStops(effect, label) == effect /\ Stops(label)

\* One that counts nothing.  Leaving in it is Disconnect, before or after it.
TxFails(applied) == /\ applied \/ UNCHANGED rows
                    /\ CountNothing
                    /\ hurt' = TRUE
                    /\ Raise

\* One that escalates and counts while it runs.
TxStopsCounting(applied) ==
    TxStops(\/ applied /\ CountBoth
            \/ UNCHANGED rows /\ (CountNothing \/ CountGap \/ CountBoth), outcome)

\* One whose gap is counted before it begins and the escalation after it.
TxStopsCounted(applied, label) == TxStops((applied \/ UNCHANGED rows) /\ CountGap, label)

\* Retry_async: the next attempt, or the exception once max_attempts are made.
SameAttempt == attempt                                           \* seeded bug
NextAttempt == attempt + 1

GivesUpEarly == TRUE                                             \* seeded bug
LastAttempt  == attempt + 1 >= MaxRetries

AttemptFails(isDrill, flags) ==
    /\ hurt' = IF isDrill THEN hurt ELSE TRUE
    /\ UNCHANGED <<rows, counted>>
    /\ IF LastAttempt
       THEN Raise
       ELSE /\ attempt' = NextAttempt
            /\ fired' = fired \cup flags
            /\ UNCHANGED <<request, seenBy, pc, reply, used, output, exit, text>>

-----------------------------------------------------------------------------
(***************************************************************************)
(* The first transactions.                                                 *)
(***************************************************************************)

\* POST /chat/async: the queued run and its user event.
Enqueue == /\ mode = "async" /\ status = "none"
           /\ status' = "queued"
           /\ transcript' = AppendEvent(transcript, "user")
           /\ UNCHANGED <<request, runText, toolRows, findings, gaps, reviews,
                          pc, locals, seenBy, counted, hurt>>

Opened == /\ status' = "started"
          /\ transcript' = IF mode = "sync" THEN AppendEvent(transcript, "user") ELSE transcript
          /\ UNCHANGED <<runText, toolRows, findings, gaps, reviews>>

\* POST /chat creates a started run, a worker starts a queued one.  A failure
\* here is outside the generator's try: only the route observes it.
Begin == /\ pc = "begin"
         /\ mode = "async" => status = "queued"
         /\ CountNothing
         /\ \/ Opened /\ Continue("first_call") /\ UNCHANGED locals
            \/ /\ Opened \/ UNCHANGED rows
               /\ hurt' = TRUE
               /\ pc' = "raised"
               /\ streamMetric' = IF mode = "sync" THEN "error" ELSE streamMetric
               /\ UNCHANGED <<request, locals, stream, outcome, toolMetric>>

-----------------------------------------------------------------------------
(***************************************************************************)
(* Model calls.                                                            *)
(***************************************************************************)
Replies == Asked \cup {"finish"}

DrillHitsLLM == drill \in PermanentLLM \/ (drill \in OnceLLM /\ "llm" \notin fired)

FirstCallFails == /\ pc = "first_call"
                  /\ IF DrillHitsLLM
                     THEN AttemptFails(TRUE, IF drill \in OnceLLM THEN {"llm"} ELSE {})
                     ELSE AttemptFails(FALSE, {})

FirstCall == /\ pc = "first_call" /\ ~DrillHitsLLM
             /\ reply' \in Replies
             /\ text' = Text("reply")
             /\ attempt' = 0
             /\ Continue("greet")
             /\ UNCHANGED <<rows, counted, fired, used, output, exit>>

\* The client learns of the run only after the first reply of the model.
SendStarted == /\ pc = "greet"
               /\ pc' = "loop"
               /\ stream' = Append(stream, "run_started")
               /\ UNCHANGED <<request, rows, locals, counted, outcome, toolMetric, streamMetric,
                               hurt>>

-----------------------------------------------------------------------------
(***************************************************************************)
(* The tool loop.                                                          *)
(***************************************************************************)
BudgetOffByOne == exit = "none" /\ reply # "finish" /\ used <= MaxToolCalls \* seeded bug
LoopOpen == exit = "none" /\ reply # "finish" /\ used < MaxToolCalls

\* runtime_policy: task types without an entry may use any registered tool.
Allowed(t) == task \in {"chat", "research"} => t = "search_documents"

\* A coverage gap and the review item that goes with it.
GapWithoutReview(gap, trigger) == gaps' = Append(gaps, gap) /\ UNCHANGED reviews \* seeded bug
Escalate(gap, trigger) == /\ gaps' = Append(gaps, gap)
                          /\ reviews' = Append(reviews, trigger)

\* The gateway turns the name down: the loop ends with an escalation.
TurnDown(why) ==
    LET recorded == /\ Escalate(why, why)
                    /\ UNCHANGED <<status, runText, toolRows, transcript, findings>>
    IN  \/ /\ recorded /\ CountBoth
           /\ exit' = why
           /\ text' = Text("refused")
           /\ Continue("loop")
           /\ UNCHANGED <<attempt, fired, reply, used, output>>
        \/ TxStopsCounted(recorded, outcome)

NotRegistered == /\ pc = "loop" /\ LoopOpen
                 /\ reply \notin Registered
                 /\ TurnDown("tool_not_registered")

PolicyDenies == /\ pc = "loop" /\ LoopOpen
                /\ reply \in Registered /\ ~Allowed(reply)
                /\ TurnDown("tool_policy_denied")

IgnoresPolicy == pc = "loop" /\ LoopOpen /\ reply \in Registered  \* seeded bug
MayInvoke == pc = "loop" /\ LoopOpen /\ reply \in Registered /\ Allowed(reply)

\* Arguments the schema rejects are not retried.
ArgumentsInvalid == MayInvoke /\ attempt = 0 /\ TxFails(FALSE)

DrillHitsTool == drill \in PermanentTool \/ (drill \in OnceTool /\ "tool" \notin fired)

ToolFails == /\ MayInvoke
             /\ IF DrillHitsTool
                THEN AttemptFails(TRUE, IF drill \in OnceTool THEN {"tool"} ELSE {})
                ELSE AttemptFails(FALSE, {})

\* "snippet": a document search with a match, answered without the model.
\* "matches": a result with evidence of another type.  "empty": no match,
\* or a failed search, which reads the same.
OutputsOf(t) == IF t = "search_documents" THEN {"snippet", "empty"} ELSE {"matches", "empty"}

ToolReturns == /\ MayInvoke /\ ~DrillHitsTool
               /\ output' \in OutputsOf(reply)
               /\ used' = used + 1
               /\ attempt' = 0
               /\ Continue("record")
               /\ UNCHANGED <<rows, counted, fired, reply, exit, text>>

\* The row and its transcript event, in one transaction.
RecordTool ==
    LET recorded == /\ toolRows' = Append(toolRows, [tool |-> reply, output |-> output])
                    /\ transcript' = AppendEvent(transcript, "tool_call")
                    /\ UNCHANGED <<status, runText, findings, gaps, reviews>>
    IN  /\ pc = "record"
        /\ \/ /\ recorded /\ CountNothing
              /\ Continue(IF output = "snippet" THEN "answer" ELSE "follow_call")
              /\ UNCHANGED locals
           \/ TxFails(recorded)

\* The fast path: the first match is the answer.
FastAnswer ==
    LET recorded == /\ findings' = findings \cup {Text("snippet")}
                    /\ UNCHANGED <<status, runText, toolRows, transcript, gaps, reviews>>
    IN  /\ pc = "answer"
        /\ \/ /\ recorded /\ CountNothing
              /\ text' = Text("snippet")
              /\ exit' = "fast_path"
              /\ Continue("loop")
              /\ UNCHANGED <<attempt, fired, reply, used, output>>
           \/ TxFails(recorded)

FollowCallFails == pc = "follow_call" /\ AttemptFails(FALSE, {})

FollowCall == /\ pc = "follow_call"
              /\ reply' \in Replies
              /\ text' = Text("reply")
              /\ attempt' = 0
              /\ Continue("conclude")
              /\ UNCHANGED <<rows, counted, fired, used, output, exit>>

\* The reply is recorded as a final finding even when it asks for a tool.
WithFinding == findings \cup {text}

NoGap == UNCHANGED <<gaps, reviews>>                             \* seeded bug
EvidenceGap == IF output = "empty" THEN Escalate("missing_evidence", "coverage_gap")
                                   ELSE UNCHANGED <<gaps, reviews>>

Conclude ==
    LET recorded == /\ findings' = WithFinding
                    /\ EvidenceGap
                    /\ UNCHANGED <<status, runText, toolRows, transcript>>
    IN  /\ pc = "conclude"
        /\ \/ /\ recorded
              /\ IF output = "empty" THEN CountBoth ELSE CountNothing
              /\ exit' = IF reply = "finish" THEN "llm_finish" ELSE exit
              /\ Continue("loop")
              /\ UNCHANGED <<attempt, fired, reply, used, output, text>>
           \/ IF output = "empty" THEN TxStopsCounting(recorded) ELSE TxFails(recorded)

-----------------------------------------------------------------------------
(***************************************************************************)
(* After the loop.                                                         *)
(***************************************************************************)
OutOfBudget == exit = "none" /\ reply # "finish" /\ used >= MaxToolCalls
NeverAsked  == exit = "none" /\ reply = "finish" /\ used = 0

ExhaustBudget ==
    LET recorded == /\ Escalate("tool_budget_exhausted", "tool_budget_exhausted")
                    /\ UNCHANGED <<status, runText, toolRows, transcript, findings>>
    IN  /\ pc = "loop" /\ OutOfBudget
        /\ \/ /\ recorded /\ CountBoth
              /\ text' = Text("budget")
              /\ outcome' = "budget_exhausted"
              /\ pc' = "final"
              /\ UNCHANGED <<request, attempt, fired, reply, used, output, exit,
                             stream, toolMetric, streamMetric, hurt>>
           \/ TxStopsCounted(recorded, "budget_exhausted")

AnswerWithoutTool ==
    LET forced   == drill = "coverage_gap"
        recorded == /\ findings' = WithFinding
                    /\ IF forced THEN Escalate("forced_gap", "forced_drill")
                                 ELSE UNCHANGED <<gaps, reviews>>
                    /\ UNCHANGED <<status, runText, toolRows, transcript>>
    IN  /\ pc = "loop" /\ NeverAsked
        /\ \/ /\ recorded /\ Continue("final") /\ UNCHANGED locals
              /\ IF forced THEN CountBoth ELSE CountNothing
           \/ IF forced THEN TxStopsCounting(recorded) ELSE TxFails(recorded)

LoopEnds == /\ pc = "loop" /\ ~LoopOpen /\ ~OutOfBudget /\ ~NeverAsked
            /\ Continue("final")
            /\ UNCHANGED <<rows, counted, locals>>

NoAssistantEvent == UNCHANGED transcript                         \* seeded bug
AssistantEvent == transcript' = AppendEvent(transcript, "assistant")

\* The last transaction: the assistant's message, the completed run and the
\* last transcript event.
Finalize ==
    LET recorded == /\ status' = "completed"
                    /\ runText' = text
                    /\ AssistantEvent
                    /\ UNCHANGED <<toolRows, findings, gaps, reviews>>
    IN  /\ pc = "final"
        /\ \/ recorded /\ CountNothing /\ Continue("send") /\ UNCHANGED locals
           \/ TxFails(recorded)

StreamsBeforeCommit == /\ pc = "final" /\ stream = <<"run_started">>  \* seeded bug
                       /\ stream' = Append(stream, "message")
                       /\ UNCHANGED <<request, rows, locals, counted, pc, outcome, toolMetric,
                                      streamMetric, hurt>>

SendMessage == /\ pc = "send" /\ stream = <<"run_started">>
               /\ stream' = Append(stream, "message")
               /\ UNCHANGED <<request, rows, locals, counted, pc, outcome, toolMetric,
                              streamMetric, hurt>>

SendCompleted == /\ pc = "send" /\ stream = <<"run_started", "message">>
                 /\ stream' = Append(stream, "run_completed")
                 /\ pc' = "done"
                 /\ Observe(outcome)
                 /\ UNCHANGED <<request, rows, locals, counted, outcome, hurt>>

-----------------------------------------------------------------------------
(***************************************************************************)
(* The surroundings.                                                       *)
(***************************************************************************)

\* The client of /chat goes away: the task is cancelled where it waits.
\* CancelledError is no Exception, so only the finally blocks run, with the
\* labels as they are; before the generator's try there is only the route's.
Disconnect == /\ MayLeave /\ pc \notin Stopped
              /\ pc' = "cancelled"
              /\ IF pc = "begin"
                 THEN streamMetric' = "completed" /\ UNCHANGED toolMetric
                 ELSE Observe(outcome)
              /\ UNCHANGED <<request, rows, locals, counted, stream, outcome, hurt>>

FailsEndedRun == /\ pc = "raised" /\ mode = "async" /\ status # "failed" \* seeded bug
                 /\ status' = "failed"
                 /\ UNCHANGED <<request, runText, toolRows, transcript, findings, gaps,
                                reviews, pc, locals, seenBy, counted, hurt>>

\* The worker's except block; POST /chat has none.  The error becomes the
\* run's text.
WorkerFailsRun == /\ pc = "raised" /\ mode = "async" /\ status \notin Ended
                  /\ status' = "failed" /\ runText' = Text("error")
                  /\ UNCHANGED <<request, toolRows, transcript, findings, gaps,
                                 reviews, pc, locals, seenBy, counted, hurt>>

-----------------------------------------------------------------------------
Step == \/ Begin \/ FirstCall \/ FirstCallFails \/ SendStarted
        \/ NotRegistered \/ PolicyDenies \/ ArgumentsInvalid \/ ToolFails \/ ToolReturns
        \/ RecordTool \/ FastAnswer \/ FollowCall \/ FollowCallFails \/ Conclude
        \/ ExhaustBudget \/ AnswerWithoutTool \/ LoopEnds
        \/ Finalize \/ SendMessage \/ SendCompleted \/ WorkerFailsRun

Next == Step \/ Enqueue \/ Disconnect

Spec == Init /\ [][Next]_vars

\* Calls of the model and of tools return or raise, the database answers.
FairSpec == Spec /\ WF_vars(Step)

-----------------------------------------------------------------------------
Texts   == [origin : {"none", "reply", "snippet", "refused", "budget", "error"},
            round : 0..MaxToolCalls]
Outputs == {"snippet", "matches", "empty"}
ToolRow == [tool : Registered, output : Outputs]
Event   == [seq : {0}, kind : {"user", "tool_call", "assistant"}]   \* see TranscriptOrdered
Refusals == {"tool_not_registered", "tool_policy_denied", "tool_budget_exhausted"}
GapTypes == Refusals \cup {"missing_evidence", "forced_gap"}
Triggers == Refusals \cup {"coverage_gap", "forced_drill"}
Labels  == {"completed", "budget_exhausted", "error"}
Places  == {"begin", "first_call", "greet", "loop", "record", "answer", "follow_call",
            "conclude", "final", "send"} \cup Stopped

RowsTyped ==
    /\ status \in {"none", "queued", "started"} \cup Ended
    /\ runText \in Texts /\ findings \subseteq Texts
    /\ toolRows \in Seq(ToolRow) /\ transcript \in Seq(Event)
    /\ gaps \in Seq(GapTypes) /\ reviews \in Seq(Triggers)

LocalsTyped ==
    /\ pc \in Places
    /\ attempt \in Nat /\ fired \subseteq {"llm", "tool"} /\ reply \in Replies
    /\ used \in 0..MaxToolCalls /\ output \in {"none"} \cup Outputs
    /\ exit \in {"none", "tool_not_registered", "tool_policy_denied", "fast_path", "llm_finish"}
    /\ text \in Texts

SeenTyped ==
    /\ stream \in Seq({"run_started", "message", "run_completed"})
    /\ outcome \in Labels
    /\ toolMetric \in {"none"} \cup Labels
    /\ streamMetric \in {"none", "completed", "error"}
    /\ kpi \in Nat /\ escalated \in Nat
    /\ hurt \in BOOLEAN

TypeOK == /\ mode \in {"sync", "async"} /\ task \in Tasks /\ drill \in Drills
          /\ RowsTyped /\ LocalsTyped /\ SeenTyped

Member(x, s) == \E i \in DOMAIN s : s[i] = x
Times(x, s) == Cardinality({i \in DOMAIN s : s[i] = x})

\* Whatever the model asks for, at most MaxToolCalls tools run in a run, each
\* of them registered and allowed for the task, and all but one in flight are
\* on record (tool_gateway.py, the loop's condition).
ToolUseBounded ==
    /\ used <= MaxToolCalls
    /\ used - Len(toolRows) \in IF pc \in {"record", "raised", "cancelled"} THEN {0, 1} ELSE {0}
    /\ \A i \in DOMAIN toolRows : toolRows[i].tool \in Registered /\ Allowed(toolRows[i].tool)

\* What stands behind a text: a finding, or a gap with its review item.
Escalated(why) == Member(why, gaps) /\ Member(why, reviews)

Backed(t) ==
    \/ t.origin \in {"reply", "snippet"} /\ t \in findings
    \/ t.origin = "budget" /\ Escalated("tool_budget_exhausted")
    \/ t.origin = "refused" /\ (Escalated("tool_not_registered") \/ Escalated("tool_policy_denied"))

\* A completed run tells its user something that is on record: the claim of a
\* finding, or a refusal with a gap for it and a person asked to review it.
Answered == status = "completed" => Backed(runText)

Blanks == Times("empty", [i \in DOMAIN toolRows |-> toolRows[i].output])

\* In a completed run every tool call without evidence was escalated, once.
EvidenceEscalated ==
    status = "completed" => /\ Times("missing_evidence", gaps) = Blanks
                            /\ Times("coverage_gap", reviews) = Blanks

\* The transcript is the run's audit trail: one event for the user's input,
\* one per tool row and one for the answer of a completed run, in that order.
TranscriptMirrorsRun ==
    LET kinds == [i \in DOMAIN transcript |-> transcript[i].kind]
        opened == IF status = "none" THEN <<>> ELSE <<"user">>
        answer == IF status = "completed" THEN <<"assistant">> ELSE <<>>
    IN  kinds = opened \o [i \in DOMAIN toolRows |-> "tool_call"] \o answer

\* An answer that was streamed is the durable one: a client that saw it finds
\* the run completed.
StreamHonest == Len(stream) >= 2 => status = "completed"

\* A drill that fails once is absorbed by the retry: a run raises only for a
\* permanent drill or a genuine failure, when there is a retry at all.
OnceDrillsAbsorbed ==
    pc = "raised" /\ MaxRetries >= 2 => hurt \/ drill \in PermanentLLM \cup PermanentTool

\* The agent loop moves a run as its life cycle allows.
Lifecycle == INSTANCE RunLifecycle WITH Runs <- {"the run"},
                                        run <- [r \in {"the run"} |-> status]
RefinesLifecycle == Lifecycle!Spec

\* A run that exists and is observed as completed is completed (metrics.py:
\* "Tool calls executed in a completed /chat run"; "stream duration to
\* completion").
ObservedAsIs  == "completed" \in {toolMetric, streamMetric} => status = "completed"
MetricsHonest == status # "none" => ObservedAsIs

\* Unless the client left, the labels tell the truth: only a completed run is
\* observed as one that ended well, a budget label belongs to a budget answer,
\* and a synchronous run that an exception strands is at least observed as an
\* error (the generator's and the route's except and finally blocks).
LabelsHonest ==
    pc # "cancelled" =>
        /\ ObservedAsIs
        /\ toolMetric = "budget_exhausted" => status = "completed" /\ runText.origin = "budget"
        /\ pc = "raised" /\ mode = "sync" => streamMetric = "error"

\* The counters on the dashboard agree with the rows: exactly for a run that
\* goes on or completed, and off by one, never more, for a run that stopped
\* inside a transaction (they are no part of it and are never taken back).
CountersHonest ==
    /\ kpi - Len(gaps) \in {0, 1} /\ escalated - Len(reviews) \in {-1, 0, 1}
    /\ status = "completed" \/ pc \notin {"raised", "cancelled"} =>
           kpi = Len(gaps) /\ escalated = Len(reviews)

\* The strengthening the proofs need.  What the position of the generator says
\* about the run and its stream:
Before  == {"begin", "first_call", "greet"}
Working == {"first_call", "greet", "loop", "record", "answer", "follow_call", "conclude", "final"}

PlaceInv ==
    /\ pc = "begin" => status \in IF mode = "sync" THEN {"none"} ELSE {"none", "queued"}
    /\ pc \in Working => status = "started"
    /\ pc \in {"send", "done"} => status = "completed"
    /\ status = "failed" => pc = "raised"
    /\ mode = "async" /\ pc # "begin" => status # "none"
    /\ pc \in Before => stream = <<>>
    /\ pc \in Working \ Before => stream = <<"run_started">>
    /\ Len(stream) >= 2 => status = "completed"

\* about the tool calls made, of which the last may not be on record,
ToolInv == pc = "record" => /\ used - Len(toolRows) = 1 /\ output \in Outputs
                            /\ reply \in Registered /\ Allowed(reply)

\* about the text that will be the answer,
TextInv ==
    /\ pc \in {"greet", "conclude"} => text.origin = "reply"
    /\ pc = "greet" => exit = "none" /\ used = 0
    /\ pc \in {"first_call", "begin"} => used = 0 /\ exit = "none"
    /\ pc \in {"record", "answer", "follow_call", "conclude"} => exit = "none"
    /\ pc = "loop" => \/ exit = "none" /\ text.origin = "reply" /\ (used = 0 \/ text \in findings)
                      \/ exit # "none" /\ Backed(text)
    /\ pc = "final" => Backed(text)

\* about the labels, none of which is observed before the end,
LabelInv ==
    /\ pc \notin Stopped => toolMetric = "none" /\ streamMetric = "none" /\ outcome # "error"
    /\ pc \notin Stopped /\ outcome = "budget_exhausted" =>
           pc \in {"final", "send"} /\ text.origin = "budget"
    /\ pc = "send" => runText = text

\* about the attempts that only drills have spoilt,
DrillInv ==
    /\ pc \in {"begin", "greet", "record", "answer", "conclude"} => attempt = 0
    /\ pc = "first_call" /\ attempt > 0 /\ ~hurt =>
           drill \in PermanentLLM \/ (drill \in OnceLLM /\ "llm" \in fired)
    /\ pc = "loop" /\ attempt > 0 /\ ~hurt =>
           drill \in PermanentTool \/ (drill \in OnceTool /\ "tool" \in fired)

\* and about the rows, to which nothing is added before the run is opened.  A call
\* without evidence is not escalated before the model's next reply.
Owed == IF pc \in {"follow_call", "conclude"} /\ output = "empty" THEN 1 ELSE 0

TrailInv ==
    /\ status = "none" => toolRows = <<>>
    /\ status = "completed" \/ pc \notin {"raised", "cancelled"} =>
           /\ Times("missing_evidence", gaps) = Blanks - Owed
           /\ Times("coverage_gap", reviews) = Blanks - Owed

CoreInv == /\ TypeOK /\ PlaceInv /\ ToolInv /\ TextInv /\ LabelInv /\ DrillInv
           /\ ToolUseBounded /\ Answered /\ StreamHonest /\ LabelsHonest /\ CountersHonest
           /\ OnceDrillsAbsorbed

IInv == CoreInv /\ TrailInv /\ TranscriptMirrorsRun

\* The loop ends, and a run that a worker executes ends with it.
Terminates == (mode = "sync" \/ status = "queued")
                  ~> [](pc \in Stopped /\ (mode = "async" => status \in Ended))

\* README: the transcript is append-only and ordered.
TranscriptOrdered ==
    \A i, j \in DOMAIN transcript : i < j => transcript[i].seq < transcript[j].seq
=============================================================================
