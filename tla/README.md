# A TLA+ model of the agent platform

This directory holds a verification development for the backend in `backend/app`, its
migrations and its debug page: TLA+ modules translated from the Python source, TLC configurations that check them on small
instances, and TLAPS proofs for every size of the instance. Paths below are relative to
`backend/app` unless they start with another top-level directory.

## The system

A chat request becomes a *run*. `POST /chat` creates a started run and executes it in the
request, streaming events (SSE). `POST /chat/async` writes a queued run together with an
*outbox row*; a separate *worker* process polls the outbox, claims a row, executes the run
with the same orchestrator and marks the row. Everything is shared through the database
(PostgreSQL in production, SQLite in the documented local setup); processes have no other
channel.

### Inventory

| Component | State | Operations | What is hard | What makes it correct |
|---|---|---|---|---|
| Run life cycle (`repositories/runs.py`, `models/run.py`) | `runs.status`, `final_text` | create, start, complete, fail; complete and fail write unconditionally | four writers in two processes | executed at most once, an ended run never changes |
| Outbox (`services/chat_enqueue.py`, `repositories/outbox.py`) | status, attempt count, lease, retry time of a row | insert, claim, mark processed, mark failed | concurrent claims, expired leases, the attempt count computed in Python | exclusive claims, exact retry budget, a row settles only when its run has ended |
| Worker (`worker/main.py`) | position in `process_one`, claimed row | claim, execute, mark, handle an exception | run and row are written in separate transactions; lost processes; lost acknowledgements | every queued run ends, every row settles |
| Orchestrator (`services/agent/orchestrator.py`, `services/retry.py`) | locals of the loop; rows written in up to five kinds of transactions | model calls, tool calls, six loop exits, final transaction, yields | failure or cancellation between any two awaits | budget, evidence or escalation for every completed run, transcript equal to the rows, honest stream and labels |
| Tool gateway, policy (`services/tool_gateway.py`, `services/runtime_policy.py`, `tools/base.py`) | registry, allowlist | lookup, deny, validate, retry, normalise | which failures are retried | only registered and allowed tools run |
| Chat and run routes (`api/routes/chat.py`, `runs.py`) | stream, outcome label | stream, enqueue, read | client that leaves | label tells what happened |
| Session store (`repositories/state.py`) | session row, facts, scratchpads, manifest | get or create, upsert, update | unique key races, last writer wins between runs of a session | one row per session, one fact per key, no lost manifest |
| Review queue (`api/routes/reviews.py`, `models/quality.py`) | review items, gauge | add, list, resolve | overlapping resolutions, gauge set after the commit | gauge equals the number of pending items when quiet |
| Retrieval (`tools/search_documents.py`, `retrieval_bm25.py`) | none | BM25 ranking, fallback | two notions of a word, zero scores, truncation | evidence exactly when a line answers the query, the best line first |
| LLM clients (`services/llm`) | none | complete, parse a tool call | malformed calls | replies follow the action contract |
| Schema and migrations (`backend/alembic`, `models`, `db/base.py`) | tables, columns, indexes, version | five upgrades, five downgrades | DDL outside a transaction on SQLite, repeated commands, old rows | head serves the models, down undoes up |
| Debug page (`frontend/src`) | timeline, inspector, loops in flight | send, poll, split SSE | polling bound, overlapping sends, chunk borders, line ends | the timeline is true and polling stops |
| Observability (`observability`) | counters, histograms, gauge | increment, observe, set | counted outside the transactions | labels and counters agree with the rows |
| HTTP surroundings, configuration, sessions | settings | middleware, setup | none for the runs | not modelled |

Interactions: the API calls the orchestrator or the enqueue function; the worker calls the
outbox repository, the orchestrator and the run repository; the orchestrator calls the
gateway, the model and the repositories; the debug page calls the chat and run routes. API and worker meet only in `runs` and
`outbox_events`. No transaction is open during a model or tool call, so a
transaction is one atomic step of `Outbox` and `AgentRun` unless two of them can meet inside it;
`SessionStore` and `ReviewQueue` take transactions apart into statements.

`PROJECT.json` lists the hazards of this code line by line, with the properties that
watch each of them.

## Modules

| Module | Models |
|---|---|
| `RunLifecycle` | abstract: what is promised about a run's status |
| `Outbox` | `enqueue_chat_run`, `OutboxRepository`, `process_one`/`main_loop`, the opening transaction of `execute_existing_run` |
| `OutboxProofs` | TLAPS proofs about `Outbox` |
| `AgentRun` | `_stream_agent_work` with `run`/`execute_existing_run`, `retry_async`, `ToolGateway.invoke`, the allowlist, the rows of `RunRepository`, the `/chat` route |
| `AgentRunProofs` | TLAPS proofs about `AgentRun` |
| `AgentTrailProofs` | TLAPS proofs about the rows `AgentRun` leaves: escalations and transcript |
| `SessionStore` | `get_or_create`, `upsert_fact`, `update_manifest` and the transactions that call them |
| `SessionStoreProofs` | TLAPS proofs about `SessionStore` |
| `ReviewQueue` | `PATCH /reviews/{item_id}`, `resolve_review_item`, `pending_review_count`, the queue-depth gauge |
| `ReviewQueueProofs` | TLAPS proofs about `ReviewQueue` |
| `SchemaMigrations` | the scripts of `backend/alembic/versions`, the commands that run them, the declarations of `models` |
| `SchemaMigrationsProofs` | TLAPS proofs about `SchemaMigrations` |
| `DocumentSearch` | `_try_parse_tool_call`, `SearchDocumentsInput`, `search_lines_bm25`, the substring fallback, `_fast_tool_answer` |
| `DocumentSearchProofs` | TLAPS proofs about `DocumentSearch` |
| `DebugPanel` | `ChatDebugPanel`, `streamChat`, `postChatAsync`/`getRun`; instantiates `RunLifecycle` as the server |
| `DebugPanelProofs` | TLAPS proofs about `DebugPanel` |
| `MCOutbox`, `MCAgentRun`, `MCSessionStore`, `MCReviewQueue`, `MCSchemaMigrations`, `MCDocumentSearch`, `MCDebugPanel` | instances for TLC |

Definitions with the comment *seeded bug* are plausible mistakes. Nothing uses them; they
stand before the definition they would replace, and every checked property is violated
when one of them does replace it (`PROJECT.json`, "mutants").

### Outbox

`run` and `ev` are the status columns of a run and of its row, `attempts`, `lease`,
`waiting` the attempt count, the lease and the retry time (time itself is abstracted to
"in the past" or not, with the actions `LeaseExpires` and `BackoffElapses`). `pc`, `job`
and `seen` are a worker's locals. `starts` and `spoilt` are history variables: how often a
run was started, and the runs one of whose transactions was reported failed when they were completed.

The claim is two steps because two processes can meet inside it: `ClaimSelect` reads the
oldest row on offer and, with `RowLocks`, locks it; `ClaimCommit` writes the values computed
from what was read. `StartRead` and `StartCommit` split the status check from the write in
the same way. `FinishRun` is the agent's last transaction, `AgentRaises` any exception before
it. `MarkProcessed` and `MarkFailure` are the two outcomes; `MarkFailure` contains the
fail-the-run part of the except block, which is in the same transaction.

A transaction inside `process_one`'s `try` can fail in two ways: rolled back, or applied
with the acknowledgement lost (`LostAcks`). Either way the except block runs. An exception
in the claim or in the except block leaves `main_loop`, which ends the process: `Crash`
stands for it, before or after the commit, and for a killed process.

The row's `run_id` is always set by the only writer, so the `not ev.run_id` branch is not
modelled; error texts, ids and metrics are left out.

### AgentRun

One run, in `mode` sync (`/chat`) or async (a worker). `pc` names the next await of the
generator. Retried calls are one action per attempt, with the drills of
`user_constraints.failure_drill`. `text` is `final_text`, represented by where it comes from
and after how many tool calls, which is all the properties compare. A tool's output is
reduced to the three cases the loop tells apart: a document match (`snippet`, answered
without the model), other evidence (`matches`), none (`empty`, which a failed search also
is). `Disconnect` cancels the task at any await. `WorkerFailsRun` is the worker's except
block as `Outbox` has it; it writes the error text over `final_text`. The branch for zero matches inside the fast path (orchestrator.py
259-275) cannot be reached, because the fast path needs a match, and has no counterpart.
The manifest written by the last transaction belongs to `SessionStore`; the scratchpad it
inserts is left out.

`kpi` and `escalated` are what the run has added to the counters of coverage gaps and of
escalations. They are incremented around and inside transactions and never taken back, so a
transaction that escalates can stop after none, one or both of them: `TxStopsCounted` is the
order of the refusals and of the exhausted budget (gap before, escalation after),
`TxStopsCounting` that of the two transactions that count inside. A client that leaves
during such a transaction stops it as an error does, with other labels; `Disconnect` alone
would put the client's departure between transactions only.

The shipped registry holds `search_documents` only. The instance adds a second tool
`lookup`, as an override of `get_tool_registry` would, since the allowlist has nothing to
decide otherwise: `lookup` is denied for task type `chat` and allowed for a task type that
the allowlist does not name.

### SessionStore

The requests of one session and the rows they share. Statements and commits are separate
actions, because two requests meet inside the first transaction: `Look`/`Create` are
`get_or_create`, `FactLook`/`FactWrite` are `upsert_fact`, `Open` is the commit. `made` and
`target` are what an open transaction has inserted or selected. An insert waits for the
uncommitted insert of the same key (`KeyFree`), an update for the uncommitted update of the
same row. `known` is the manifest in the request's ORM object: the session factory keeps
objects after a commit, so a synchronous run writes the manifest from what it loaded at its
start, while a worker loads it again (`Reload`), and the UPDATE is emitted only if the
object differs (`Stale`). The row locks and the unique key are PostgreSQL's.

### ReviewQueue

`row` is the committed item of each run, `seen` the row as a PATCH loaded it, `body` what it
asks for. `Load`, `Flush`, `PatchCounts`, `Commit`, `PatchShows` are the awaits of
`resolve_review`; the UPDATE sets the columns that differ from `seen` (`Written`). `RunCounts`
and `RunShows` are the end of a run's last transaction; a count and the assignment of the
gauge are two steps because replies of two connections arrive in any order. `gauge` is the
series of the API process; a worker sets its own. A request that fails or whose client leaves writes
nothing or, if that happens at its commit, the row but not the gauge (`PatchFails`). `serial` and `last` are history variables.

### SchemaMigrations

An object is a record: a table with the columns it is created with, a column added later, or an
index, and the table it is of. `disk` is the committed schema and `work` what the running command
sees. A script is the sequence of statements it executes once its guards have looked at the schema
(`Enter`); a statement whose `if` was false stays in it as a `Skip`. What a statement needs
and what forbids it (`Needs`, `Blocks`) comes from the tables' foreign keys (`References`). On
PostgreSQL the command is one transaction. On SQLite a DDL statement takes effect at once
until an UPDATE opens a transaction, which the end of the script commits; this is what
Python's `sqlite3` and alembic's `transactional_ddl = False` do. `Interrupt` and `Refuse` cut a
command short, `Command` gives it again, and `StoreRun` writes rows in between, with the
columns the program of that revision knows. `blank` is the set of columns of `runs` that are
NULL in some row. `torn` and `refused` are history variables: the scripts cut short on SQLite, and
those that met a statement the server rejects, with whether anything had been torn by then; a
rejection after a torn downgrade is not recorded, because nothing is claimed of one. The schema of a
revision (`SchemaAt`) is what the upgrades up to it add where nothing is.
`DROP COLUMN` is SQLite's since 3.35. Column types, lengths, defaults and
constraint names are left out.

### DocumentSearch

One reply of the model from its text to what the loop acts on. Texts are short sequences over
an alphabet with two letters that fold together, another letter, one outside ASCII, a mark and
a space; that is what tokenisation (`[a-z0-9]+`, ignoring case) and splitting at white space
tell apart. The floating-point score of a line is any number that is positive exactly when
line and query share a token: the inverse document frequency is the logarithm of a number
above 1, so every shared token adds something positive and nothing else adds anything. Ranking
is the stable sort by descending score. The order of a sort is a function of a finite set of line
numbers (`Ascending`, `Ranked`), chosen by what it satisfies, and `Positive` keeps the positions of
the lines with a positive score; nothing here is recursive, so that all of it can be proved about.

### DebugPanel

Each press of Send starts its loops, and earlier loops go on: the component keeps no handle on
them. `poll` and `stream` are where the loops of a send are, `timeline` its items (the page
shows all of them newest first; keeping them per send loses only their interleaving),
`inspector` the run shown last. Runs move as `RunLifecycle!Execute` allows, which is what
`Outbox` and `AgentRun` are shown to implement. `wire` is the stream as a sequence of words: names of
events, data, and the characters that end lines. `Token` is the k-th word of a stream and `Read` takes any prefix of
what is unread. `Cuts`, `Items` and `Rest` are `split('\n\n')`, the loop
over the parts and `pop()`.

## What TLC checks

| Run | Bounds | Result |
|---|---|---|
| `outbox_safety` | 2 runs, 2 workers, 3 attempts, 3 failing transactions, 2 lost workers, under `Fairness` | pass: `ExclusiveClaim`, `AtMostOneExecution`, `SettledRunsEnded`, `AttemptBudget`, `CompletedRowAccounted`, `OrphansAreCrashes`, `IInv`, the refinement of `RunLifecycle`, `EndsOrOrphaned`, `QueueDrains` |
| `outbox_crash` | 1 run, 1 worker, 1 lost worker | violated: `EveryRunEnds` |
| `agent_safety` | 3 tool calls, 3 attempts, 3 tool names, all drills, both modes, the client may leave, under fairness | pass: `ToolUseBounded`, `Answered`, `EvidenceEscalated`, `TranscriptMirrorsRun`, `StreamHonest`, `OnceDrillsAbsorbed`, `LabelsHonest`, `CountersHonest`, `IInv`, the refinement of `RunLifecycle`, `Terminates` |
| `agent_transcript` | 1 tool call | violated: `TranscriptOrdered` |
| `agent_disconnect` | 1 tool call, client may leave | violated: `MetricsHonest` |
| `session_store` | 3 requests of one session | pass: `OneState`, `OneFact`, `ManifestHonest`, `IInv`, `EveryRequestEnds` |
| `review_queue` | an API run, a worker run, 2 PATCH requests, 2 statuses, 2 resolvers | pass: `IInv`, `GaugeExactWhenSerial`, `RowIsOneRequests`, `EveryPatchAnswered` |
| `review_gauge` | 1 run, 1 PATCH, nothing fails | violated: `GaugeShowsBacklog` |
| `schema_migrations` | both servers, all revisions, any commands, 2 different scripts cut short | pass: `ServesModels`, `IndexesComplete`, `OnlyFirstUpgradeSticks`, `DownUndoesUp` |
| `document_search` | up to 3 lines of 7, 9 queries, 4 limits, 20 malformed or foreign replies | pass: `EvidenceIsReal`, `BestFirst` |
| `debug_panel` | 2 sends, 2 loops, 3 rounds, 2 events, lines ending in LF, every chunking | pass: `IInv`, `PollHonest`, `TimelineFaithful`, `PollingEnds` |
| `debug_crlf` | the same with lines ending in CRLF | violated: `TimelineFaithful` |

Why the bounds are enough. Two workers and two runs give every pairing of claims: one row
contended, two rows claimed in either order, one worker lost while the other goes on; three
attempts leave a row retried, retried again and dead; three faults let each of a row's
attempts fail once in a transaction. The proofs remove these bounds for the safety
properties. In `AgentRun` three tool calls make the loop go round twice with every kind of
result before every kind of exit, and of three attempts one is neither the first nor the last;
the shipped settings (one call, two attempts) are smaller. The proofs remove both bounds.

Three requests let one hold a lock, one wait for it and one arrive afterwards, whichever of
them is rolled back; the proofs remove that bound too. Two PATCH requests and two items give
requests for the same item and for different ones, and a run that adds the item another
request is not yet aware of; the proofs remove the bound for the safety properties.

Two torn scripts are one that leaves objects behind and another that meets them; the same script
can be torn any number of times; the proofs remove this bound, the only one of that module. Three lines, one of them repeated or blank, are enough for
every tie and for a limit that cuts; more lines only repeat the comparison of two, and the proofs
hold for any document, alphabet, query, limit and scores. In
`DebugPanel` two loops are a send that starts both or two sends that overlap; three rounds
have a first, a middle and a last, like 180. The proofs hold for any number of sends, rounds and
events.

`outbox_safety` and `schema_migrations` check for deadlock: the worker never stops
(`IdlePoll`) and a command can always be given. The other runs switch it off, because their
runs, requests and loops end. That nobody waits for a lock for ever is `EveryRequestEnds` and
`EveryPatchAnswered`.

### Fairness

`Outbox!Fairness`: a live worker takes its next step (the loop has no other wait than its
poll, model and tool calls return or raise), a lost worker is started again, and
`next_retry_at` is reached. Enqueueing, failures and the expiry of a lease are not fair.
`EndsOrOrphaned` and `QueueDrains` hold under it with lost workers, because they except the rows
those orphan.
`outbox_crash` assumes even the restart, which nothing in the repository provides, and the
run is still stranded. `AgentRun!FairSpec` assumes that each call of the model, of a tool
and of the database answers or raises. `SessionStore!FairSpec` and `ReviewQueue!FairSpec` assume
that a statement that need not wait for a lock is answered; failures, new requests and
escalations are not fair. `DebugPanel!FairSpec` assumes that a poll's request is answered or
fails and that timers fire; runs, streams and presses of Send are not fair, so `PollingEnds`
does not rely on a run that ends. The other two modules have safety properties only.

## What the runs found

1. **Every transcript event has seq 0** (`agent_transcript`). `int(max or -1) + 1` takes a
   maximum of 0 for none. `GET /runs` sorts by seq, so the documented order is whatever the
   database returns.
2. **A lost worker strands its run** (`outbox_crash`). Only `pending` and `retryable` rows
   are claimable, so the lease, whose expiry the query tests, is NULL on every row the query
   looks at. `OrphansAreCrashes` shows that nothing but a lost process does this, and that
   includes a failing transaction in the except block, which ends the process.
3. **The debug page shows no event of a stream** (`debug_crlf`). `sse_starlette` ends lines with
   CRLF unless told otherwise, and the route does not tell it, so `split('\n\n')` never finds a
   separator. With LF the split is right (`debug_panel`).
4. **A departed client counts as completed** (`agent_disconnect`): the run has begun, its client
   leaves, both histograms are observed as `completed`, and the run stays `started`. A client
   that leaves before there is a run is observed so too; `MetricsHonest` does not speak of it.
5. **The review gauge sticks at a wrong value** (`review_gauge`). A run counts an item as
   pending while a PATCH that resolves it is not committed, and sets the gauge after the
   PATCH has set it: everybody is done, nothing is pending, and the gauge says 1 until the
   next run or PATCH. `GaugeExactWhenSerial` shows that nothing goes wrong without an overlap.

Also visible in the models: without row locks (`RowLocks = FALSE`, which is SQLite, as the local
setup of docs/outbox.md has it, with one worker) two workers select one row before either has
written it, and `ExclusiveClaim` fails; no run lists it, since that setup starts a single worker.

And, without a document that says otherwise: a retry can never
execute a run (`SettledRunsEnded`: the first failure ends the run, so the retries of its
row only spend the budget until it is dead); a completed run's row ends dead when marking
it processed fails once (`CompletedRowAccounted` bounds this to transactions of that run that were reported failed); a
synchronous run whose agent raises stays `started`, observed at least as an error
(`LabelsHonest`); a transaction that stops leaves the counters of gaps and escalations off by
one for good (`CountersHonest`); a follow-up reply that asks for another
tool is recorded as a final finding although it is not the answer; of two PATCH requests for
one item the later replaces the earlier, and when both had loaded the row before either
committed, a column the later one leaves at the loaded value (an omitted `resolver`) keeps the
earlier one's, so the row shows one reviewer's resolution under the other's name
(`RowIsOneRequests` claims nothing for a request that had loaded an older row); the item of a run whose agent raises is
not in the gauge until something else counts; the second of two racing first requests of a
session is refused with the unique key's error; and while a later run of a session is in
progress its manifest says `completed`.

Of the schema: an `alembic upgrade head` that is interrupted in the first revision on SQLite
can only be finished by hand, since its tables are created without looking
(`OnlyFirstUpgradeSticks`); one interrupted in 0003, 0004 or 0005 on SQLite can be repeated but
may leave tables without their indexes (`IndexesComplete`); 0002 has neither problem, because
its UPDATEs open a transaction before its tables are created.

Of the search: `TOOL_CALL: 5` raises a TypeError that `_try_parse_tool_call` does not catch, so a
malformed call is retried and fails the run where other malformed calls are answers (`Raises`).

Of the debug page: a request that fails ends a poll without a word; an answer for an
older send replaces a newer run in the inspector.

## What is proved

`OutboxProofs` holds for any number of runs, workers, attempts, faults and crashes, from
`OutboxAssumption` (types of the constants) alone for `TypeCorrect`, and from row locks
(`RowLocks`, that is PostgreSQL) for the rest:

| Theorem | States |
|---|---|
| `TypeCorrect` | `Spec => []TypeOK` |
| `Invariance` | `Spec => []IInv` |
| `ClaimsExclusive` | `Spec => []ExclusiveClaim` |
| `ExecutedAtMostOnce` | `Spec => []AtMostOneExecution` |
| `SettledEnded` | `Spec => []SettledRunsEnded` |
| `BudgetSpent` | `Spec => []AttemptBudget` |
| `CompletionAccounted` | `Spec => []CompletedRowAccounted` |
| `OnlyCrashesOrphan` | `Spec => []OrphansAreCrashes` |
| `Refinement` | `Spec => RefinesLifecycle` |

The argument. None of the safety properties is inductive: that a run is started once
follows only if the worker that is about to start it is the only one at work on it and still
finds it queued. `IInv` adds `PositionInv` (what each position of `process_one` knows of
its row and run), `DistinctJobs` (from the SELECT on no two workers have the same row) and
`RowInv` (a row and its run appear together, a pending row's run has never started). Row
locks enter in one place, `ClaimSelectKeeps`: the selected row is in nobody else's hands.
Each action has a lemma that proves the conjuncts it can disturb. A failing worker may
answer for a row that is already `processed` (the acknowledgement of that commit was
lost), which is why `PositionInv` treats `failing` apart. The refinement needs the
invariant at four actions, the only ones that write `run`. `OnlyCrashesOrphan` counts: a step
of `process_one` orphans nothing (`WorkOrphansNone`), a lost worker at most the row it works
for (`CrashOrphansOne`), and the rest is the library's facts on the cardinality of finite sets.

`AgentRunProofs` holds for any budget of tool calls, any number of attempts, any registry,
requests and drills, and whether or not the client may leave, from `AgentAssumption`
(`MaxToolCalls` is positive, `MaxRetries` an integer):

| Theorem | States |
|---|---|
| `TypeCorrect` | `Spec => []TypeOK` |
| `Invariance` | `Spec => []CoreInv` |
| `ToolUse` | `Spec => []ToolUseBounded` |
| `AnswerOnRecord` | `Spec => []Answered` |
| `StreamedIsDurable` | `Spec => []StreamHonest` |
| `LabelsTrue` | `Spec => []LabelsHonest` |
| `CountersTrue` | `Spec => []CountersHonest` |
| `DrillsAbsorbed` | `Spec => []OnceDrillsAbsorbed` |
| `Refinement` | `Spec => RefinesLifecycle` |

`CoreInv` says what the position of the generator implies. `PlaceInv`: a run at work is started
and its stream holds no more than `run_started`, so the last transaction is the only one that
completes it and the answer is sent after it. `ToolInv`: between a tool's return and its row
exactly one call is off the record. `TextInv`: on its way round the loop `final_text` is a
reply that is already a finding unless it is the first, and on leaving it the text is backed.
`LabelInv`: no label is observed before the end, and the budget label belongs to the budget
text. `DrillInv`: attempts that nothing but drills has spoilt were spoilt by this request's
drill, so a second one succeeds unless the drill is permanent. The lemma of each conjunct has
one step per action; the endings that most actions share (`Raise`, `Stops`, `AttemptFails`)
are proved once (`Leaving`, `FailedAttempt`, `LabelsStop`, `CountersStop`, `DrillStops`).

`SessionStoreProofs` holds for any number of requests, from no assumption but that `Nobody`
is not a request:

| Theorem | States |
|---|---|
| `Invariance` | `Spec => []IInv` |
| `OneSessionRow` | `Spec => []OneState` |
| `OneFactRow` | `Spec => []OneFact` |
| `ManifestTells` | `Spec => []ManifestHonest` |

`OneFact` is not inductive: nothing forbids a second fact, it is only that whoever finds none
holds the uncommitted session row, of which the unique key allows one. `MadeInv` and `PlaceInv`
say so, and `RowInv` that session row and fact become visible together. `KnownInv` is what the
manifest needs: an ORM object says `completed` only after a run has completed, so skipping the
UPDATE is harmless.

`AgentTrailProofs` adds to `CoreInv` what the rows of a run owe to its tool calls:

| Theorem | States |
|---|---|
| `TrailInvariance` | `Spec => []IInv` |
| `GapsEscalated` | `Spec => []EvidenceEscalated` |
| `TranscriptMirrors` | `Spec => []TranscriptMirrorsRun` |

`EvidenceEscalated` compares how often rows of three tables occur, and holds at the end only because
it nearly holds all along: a tool call without evidence is recorded one model call before its gap and
its review item are, and `TrailInv` says that this one (`Owed`) is all that is ever missing of a run
that goes on. The refusals and the exhausted budget escalate too, under other names, which is why the
counts are per kind. A transaction that stops loses all its rows, and then nothing is claimed.
`TranscriptMirrorsRun` is inductive together with the position: the user's event is written with the
start of the run, each call's with its row, the answer's with the completion. The proof
is about the last entry of a sequence (`TimesAppend`, `BlanksAppend`): what `Append` adds to a count.

`ReviewQueueProofs` holds for any finite set of runs and any set of overlapping requests:

| Theorem | States |
|---|---|
| `TypeCorrect` | `Spec => []TypeOK` |
| `Invariance` | `Spec => []IInv` |
| `GaugeExact` | `Spec => []GaugeExactWhenSerial` |
| `RowOfOneRequest` | `Spec => []RowIsOneRequests` |

`PlaceInv`: a request at work names an item that its run has left to the queue, so nobody is
resolving a row that a run is about to add. `SerialInv`: while at most one operation has been at work
at any time, its count is the number of pending items of what it is about to commit, and the gauge
the number of the committed ones when none is. The two meet in the commit, which makes the first
number the second.

`DebugPanelProofs` holds for any number of sends, loops and rounds and any list of events, from
`PanelAssumption` (no event is called like another word of the stream) and, for `Faithful`, from lines that end in LF
(`LineEnds = {"lf"}`), which run `debug_crlf` shows to be necessary:

| Theorem | States |
|---|---|
| `Invariance` | `Spec => []IInv` |
| `Honest` | `Spec => []PollHonest` |
| `Faithful` | `Spec => []TimelineFaithful` |

`TimelineFaithful` speaks of chunks, of which nothing is known. `StreamOf` says where in the stream
they are: the unread words follow those read (`Aligned` with `HasRead`), and the buffer is what
follows the last separator (`Used`), never a whole event. The lemmas about `split` carry the proof:
an aligned buffer has its separators at the ends of the blocks and nowhere else, one per whole block,
so `Items` are the next events in order and `Rest` is aligned again. `IInv` covers CRLF too: no two
line feeds stand together, there is no separator at all, and the buffer keeps whatever was read. `Honest` needs of the rest of the state only that a run's
outcome never changes (`RunLifecycle`) and that a loop that asks has a round left (`LoopOf`).

`DocumentSearchProofs` holds for every document, alphabet, query, limit and scores, from
`SearchAssumption` (lower case neither makes nor loses white space, no letter or digit is white space, arguments
are a text and a number):

| Theorem | States |
|---|---|
| `Invariance` | `Spec => []IInv` |
| `Evidence` | `Spec => []EvidenceIsReal` |
| `Best` | `Spec => []BestFirst` |

The steps are few and `IInv` only says what the result was computed from. What it says is in the
lemmas: a finite set has a sorted sequence (`Sorted`: the place of an element is the number of
elements up to it, which needs no induction), it has every element (`Covers`), the limit keeps the
first ones, and of those the positive ones stay in order (`Bm25Is`). The two notions of a word meet in
`AnswersIff`: a query has a word exactly unless it is blank, and a blank line has no token, so skipping
blank lines loses nothing. TLC checks `IInv` of this module too when it is added to `MCDocumentSearch.cfg`;
no run lists it, because its two consequences say all of it that matters.

`SchemaMigrationsProofs` holds for either server or both, any sequence of commands and any number of
torn scripts, from `MigrationAssumption` (the two names of servers, `MaxTorn` a natural number):

| Theorem | States |
|---|---|
| `Invariance` | `Spec => []IInv` |
| `ModelsServed` | `Spec => []ServesModels` |
| `IndexesServed` | `Spec => []IndexesComplete` |
| `UpgradesRepeat` | `Spec => []OnlyFirstUpgradeSticks` |
| `DownsUndoUps` | `Spec => []DownUndoesUp` |

The four properties speak of a schema between commands, and each statement changes the schema. `IInv`
therefore speaks of the schema that the rest of the script will leave (`Outcome`, of the revision
`Target`), which no statement changes, and of the one that stays if the script is cut short now
(`Marks` counts it as torn). Of both, `SchemaInv` says that nothing torn leaves exactly the schema of
the revision, and torn upgrades lack at most indexes, of tables that a torn script made (`Intact`,
`Complete`). Then `Interrupt` and `SetVersion` have little to show, and the work is in `Enter`: the new
script leads from the one revision to the next, whatever of it was there. `ReadyInv` is why nothing is
rejected while nothing is torn, nor an upgrade from 0002 on while only upgrades are: each statement left
finds what it needs, in the schema or left by an earlier statement of the same script (`Ready`), which is
proved of each of the ten scripts once for every schema it can start from. Four facts make it true: a
guard looks for exactly what it protects, a script makes no object twice, tables come before what refers
to them, and going down the order is the reverse. `BlankInv` says that a required column is either still
to be filled or neither blank nor to be added, and `FillsFirst` why 0002 cannot be torn between its
tables and their indexes: before it makes a table it has filled a column, and from then on a transaction
is open. The scripts are sequences joined from parts (`CreateTable`, `MissingTable`, `Missing`): the
lemmas say where the statements of a part are in the whole and that what is ready in turn is ready
together, so that no induction on length is needed.
TLC checks `IInv` too, with up to two torn scripts, when it is added to `MCSchemaMigrations.cfg`; no
run lists it, because its four consequences say what matters.

Every invariant, the two refinements of `RunLifecycle` and every action property that a passing run
checks is stated by one of these theorems. Only model-checked are the liveness properties
(`EndsOrOrphaned`, `QueueDrains`, `Terminates`, `EveryRequestEnds`, `EveryPatchAnswered`, `PollingEnds`):
fairness and `ENABLED` are out of the prover's reach.

## Not modelled

- The service behind `AsyncOpenAI`, the database servers, alembic and `sse_starlette` are
  external: modelled from how the code uses them, as far as it depends on them.
- `mock_client.py` is one choice among the replies `AgentRun` and `DocumentSearch` allow.
- `main.py`, `api/errors.py`, `api/deps.py`, `limiter.py`: authentication, rate limits, error
  bodies and health checks decide whether a request enters; a request that does is the start
  of every module here. They keep no state a run depends on.
- `core/config.py`, `core/schemas.py`, `db/session.py`: the settings are the models' constants, the
  schemas declare shapes and defaults, the engine and its factory are made once per process.
- Latency, token and cost metrics and tracing: nothing reads them back.
- `metrics.ts` and the panels that render it, and everything the page only displays.
- `scripts/` and the Grafana and Docker files: tests and deployment.

## Plan

A composition of `AgentRun`s under `Outbox`, in which `FinishRun` and `AgentRaises` are the agent's own
steps, and the proof that it implements both.
