------------------------------- MODULE Outbox -------------------------------
(***************************************************************************)
(* The asynchronous path of a chat run: POST /chat/async writes the run    *)
(* and its outbox row in one transaction; worker processes poll the        *)
(* outbox, claim a row, execute the run and mark the row.                  *)
(*                                                                         *)
(* Source: services/chat_enqueue.py, services/repositories/outbox.py,      *)
(* worker/main.py and the opening transaction of                           *)
(* AgentOrchestrator.execute_existing_run.  What the agent does between    *)
(* "started" and its last transaction is AgentRun.tla; here it either      *)
(* reaches that transaction or raises.                                     *)
(*                                                                         *)
(* An action is one transaction, or the part of one that another process   *)
(* can observe: the claim is split at its SELECT because that is where row *)
(* locks matter.                                                           *)
(***************************************************************************)
EXTENDS Integers, FiniteSets

CONSTANTS NumRuns,      \* runs are numbered in the order of created_at
          Workers,      \* worker processes
          MaxAttempts,  \* outbox_events.max_attempts
          RowLocks,     \* FOR UPDATE SKIP LOCKED takes effect (PostgreSQL, not SQLite)
          LostAcks,     \* a commit may be applied and still reported as failed
          MaxFaults,    \* bound: transactions that fail inside process_one's try
          MaxCrashes    \* bound: worker processes lost

ASSUME OutboxAssumption == /\ NumRuns \in Nat
                           /\ MaxAttempts \in Nat \ {0}
                           /\ RowLocks \in BOOLEAN /\ LostAcks \in BOOLEAN
                           /\ MaxFaults \in Nat /\ MaxCrashes \in Nat

Runs  == 1..NumRuns
NoRun == 0

VARIABLES run,      \* runs.status, "none" before the row exists
          ev,       \* outbox_events.status of the run's row
          attempts, \* outbox_events.attempt_count
          lease,    \* lease_expires_at: NULL, in the future or in the past
          waiting,  \* next_retry_at is in the future
          starts,   \* history: how often the run was moved to "started"
          pc,       \* where each worker is in process_one
          job,      \* the run of the row it selected or claimed
          seen,     \* the attempt_count it loaded with that row
          faults, crashes,
          spoilt    \* history: completed runs with a transaction reported failed

failures == <<faults, spoilt>>
db   == <<run, ev, attempts, lease, waiting, starts>>
vars == <<db, pc, job, seen, failures, crashes>>

RunStatuses   == {"none", "queued", "started", "completed", "failed"}
Ended         == {"completed", "failed"}
EventStatuses == {"none", "pending", "processing", "retryable", "processed", "dead"}
\* Positions from the claim's commit on: the worker answers for its row.
Holding       == {"claimed", "starting", "working", "finished", "failing"}
Positions     == {"poll", "claiming", "down"} \cup Holding

Init == /\ run = [r \in Runs |-> "none"]
        /\ ev = [r \in Runs |-> "none"]
        /\ attempts = [r \in Runs |-> 0]
        /\ lease = [r \in Runs |-> "none"]
        /\ waiting = [r \in Runs |-> FALSE]
        /\ starts = [r \in Runs |-> 0]
        /\ pc = [w \in Workers |-> "poll"]
        /\ job = [w \in Workers |-> NoRun]
        /\ seen = [w \in Workers |-> 0]
        /\ faults = 0 /\ crashes = 0 /\ spoilt = {}

Holds(w, r) == pc[w] \in Holding /\ job[w] = r

Goto(w, place) == pc' = [pc EXCEPT ![w] = place]

\* Process_one returns, or the process is gone: its locals are lost.
Leave(w, place) == /\ Goto(w, place)
                   /\ job' = [job EXCEPT ![w] = NoRun]
                   /\ seen' = [seen EXCEPT ![w] = 0]

-----------------------------------------------------------------------------
(***************************************************************************)
(* Transactions inside process_one's try block.  One that fails sends the  *)
(* worker to the except block, whether it was rolled back or, with         *)
(* LostAcks, applied before the connection broke.                          *)
(***************************************************************************)
Raise(w) == /\ faults < MaxFaults
            /\ faults' = faults + 1
            /\ spoilt' = {r \in Runs : r \in spoilt \/ (r = job[w] /\ run'[r] = "completed")}
            /\ Goto(w, "failing")
            /\ UNCHANGED <<job, seen, crashes>>

Acked(w, place) == Goto(w, place) /\ UNCHANGED <<job, seen, failures, crashes>>

RolledBack(w) == UNCHANGED db /\ Raise(w)

AckLost(w) == LostAcks /\ Raise(w)

-----------------------------------------------------------------------------
(***************************************************************************)
(* The API.                                                                *)
(***************************************************************************)

\* POST /chat/async: the run (queued) and its row (pending) in one commit.
Enqueue(r) == /\ run[r] = "none"
              /\ run' = [run EXCEPT ![r] = "queued"]
              /\ ev' = [ev EXCEPT ![r] = "pending"]
              /\ UNCHANGED <<attempts, lease, waiting, starts, pc, job, seen, failures, crashes>>

-----------------------------------------------------------------------------
(***************************************************************************)
(* claim_next.                                                             *)
(***************************************************************************)
ClaimsPendingOnly(r) == ev[r] = "pending"                        \* seeded bug
ReclaimsOnLease(r) == /\ ev[r] \in {"pending", "retryable", "processing"}
                      /\ ~waiting[r] /\ lease[r] # "live"        \* seeded bug

\* The WHERE clause.
Claimable(r) == /\ ev[r] \in {"pending", "retryable"}
                /\ ~waiting[r]
                /\ lease[r] # "live"

NeverLocked(r) == FALSE                                          \* seeded bug
Locked(r) == RowLocks /\ \E w \in Workers : pc[w] = "claiming" /\ job[w] = r

Offered == {r \in Runs : Claimable(r) /\ ~Locked(r)}

\* The SELECT: the oldest row offered, locked until the commit.
ClaimSelect(w) ==
    /\ pc[w] = "poll"
    /\ \E r \in Offered : /\ \A s \in Offered : r <= s
                          /\ job' = [job EXCEPT ![w] = r]
                          /\ seen' = [seen EXCEPT ![w] = attempts[r]]
    /\ Goto(w, "claiming")
    /\ UNCHANGED <<db, failures, crashes>>

\* No row: process_one returns False and the worker sleeps and polls again.
IdlePoll(w) == pc[w] = "poll" /\ Offered = {} /\ UNCHANGED vars

\* The UPDATE by primary key, with the count computed from the row as read.
ClaimCommit(w) ==
    /\ pc[w] = "claiming"
    /\ ev' = [ev EXCEPT ![job[w]] = "processing"]
    /\ lease' = [lease EXCEPT ![job[w]] = "live"]
    /\ attempts' = [attempts EXCEPT ![job[w]] = seen[w] + 1]
    /\ Goto(w, "claimed")
    /\ UNCHANGED <<run, waiting, starts, job, seen, failures, crashes>>

-----------------------------------------------------------------------------
(***************************************************************************)
(* Execution of the claimed run.                                           *)
(***************************************************************************)
StartsUnfinished(r) == run[r] # "completed"                      \* seeded bug

\* execute_existing_run refuses a run that is not queued.
MayStart(r) == run[r] = "queued"

\* Its first transaction reads the run without a lock ...
StartRead(w) ==
    /\ pc[w] = "claimed"
    /\ Goto(w, IF MayStart(job[w]) THEN "starting" ELSE "failing")
    /\ UNCHANGED <<db, job, seen, failures, crashes>>

\* ... and moves it to started.
StartCommit(w) ==
    /\ pc[w] = "starting"
    /\ \/ /\ run' = [run EXCEPT ![job[w]] = "started"]
          /\ starts' = [starts EXCEPT ![job[w]] = @ + 1]
          /\ UNCHANGED <<ev, attempts, lease, waiting>>
          /\ Acked(w, "working") \/ AckLost(w)
       \/ RolledBack(w)

\* The agent's last transaction: complete_run does not look at the status.
FinishRun(w) ==
    /\ pc[w] = "working"
    /\ \/ /\ run' = [run EXCEPT ![job[w]] = "completed"]
          /\ UNCHANGED <<ev, attempts, lease, waiting, starts>>
          /\ Acked(w, "finished") \/ AckLost(w)
       \/ RolledBack(w)

\* A model, a tool or an earlier transaction of the agent fails for good.
AgentRaises(w) == /\ pc[w] = "working"
                  /\ Goto(w, "failing")
                  /\ UNCHANGED <<db, job, seen, failures, crashes>>

-----------------------------------------------------------------------------
(***************************************************************************)
(* The outcome.                                                            *)
(***************************************************************************)
MarksForRetry(w) == /\ pc[w] = "finished"                        \* seeded bug
                    /\ ev' = [ev EXCEPT ![job[w]] = "retryable"]
                    /\ lease' = [lease EXCEPT ![job[w]] = "none"]
                    /\ UNCHANGED <<run, attempts, waiting, starts, failures, crashes>>
                    /\ Leave(w, "poll")

\* mark_processed, in a transaction of its own after the run is completed.
MarkProcessed(w) ==
    /\ pc[w] = "finished"
    /\ \/ /\ ev' = [ev EXCEPT ![job[w]] = "processed"]
          /\ lease' = [lease EXCEPT ![job[w]] = "none"]
          /\ UNCHANGED <<run, attempts, waiting, starts, crashes>>
          /\ \/ Leave(w, "poll") /\ UNCHANGED failures
             \/ AckLost(w)
       \/ RolledBack(w)

LeavesRunAlone(r) == run[r]                                      \* seeded bug
FailsAnyRun(r) == "failed"                                       \* seeded bug
DeadAfterBudget(r) == IF attempts[r] > MaxAttempts THEN "dead" ELSE "retryable" \* seeded bug

\* The handler fails the run unless it has ended.
AfterFailure(r) == IF run[r] \in Ended THEN run[r] ELSE "failed"

\* mark_failure: dead once attempt_count has reached max_attempts.
FailureStatus(r) == IF attempts[r] >= MaxAttempts THEN "dead" ELSE "retryable"

FailsRunOnly(w) == /\ pc[w] = "failing"                          \* seeded bug
                   /\ run' = [run EXCEPT ![job[w]] = AfterFailure(job[w])]
                   /\ Leave(w, "poll")
                   /\ UNCHANGED <<ev, lease, waiting, attempts, starts, failures, crashes>>

\* The except block: the row and the run in one transaction.
MarkFailure(w) ==
    /\ pc[w] = "failing"
    /\ LET r == job[w]
       IN  /\ ev' = [ev EXCEPT ![r] = FailureStatus(r)]
           /\ waiting' = [waiting EXCEPT ![r] = FailureStatus(r) = "retryable"]
           /\ lease' = [lease EXCEPT ![r] = "none"]
           /\ run' = [run EXCEPT ![r] = AfterFailure(r)]
    /\ Leave(w, "poll")
    /\ UNCHANGED <<attempts, starts, failures, crashes>>

-----------------------------------------------------------------------------
(***************************************************************************)
(* The environment.                                                        *)
(***************************************************************************)

\* The process is lost.  An exception that escapes process_one has the same
\* effect: in the claim, or in the except block itself, before its commit
\* (rolled back) or after (applied).
Crash(w) == /\ pc[w] # "down"
            /\ crashes < MaxCrashes
            /\ crashes' = crashes + 1
            /\ Leave(w, "down")
            /\ UNCHANGED <<db, failures>>

Restart(w) == /\ pc[w] = "down"
              /\ Goto(w, "poll")
              /\ UNCHANGED <<db, job, seen, failures, crashes>>

LeaseExpires(r) == /\ lease[r] = "live"
                   /\ lease' = [lease EXCEPT ![r] = "expired"]
                   /\ UNCHANGED <<run, ev, attempts, waiting, starts, pc, job, seen, failures, crashes>>

BackoffElapses(r) == /\ waiting[r]
                     /\ waiting' = [waiting EXCEPT ![r] = FALSE]
                     /\ UNCHANGED <<run, ev, attempts, lease, starts, pc, job, seen, failures, crashes>>

-----------------------------------------------------------------------------
\* One iteration of main_loop, a piece at a time.
Work(w) == \/ ClaimSelect(w) \/ IdlePoll(w) \/ ClaimCommit(w)
           \/ StartRead(w) \/ StartCommit(w) \/ FinishRun(w) \/ AgentRaises(w)
           \/ MarkProcessed(w) \/ MarkFailure(w)

Next == \/ \E r \in Runs : Enqueue(r) \/ LeaseExpires(r) \/ BackoffElapses(r)
        \/ \E w \in Workers : Work(w) \/ Crash(w) \/ Restart(w)

Spec == Init /\ [][Next]_vars

\* A live worker keeps going, so a model or tool call returns or raises; a
\* lost worker is started again; the clock reaches next_retry_at.
Fairness == /\ \A w \in Workers : WF_vars(Work(w)) /\ WF_vars(Restart(w))
            /\ \A r \in Runs : WF_vars(BackoffElapses(r))

FairSpec == Spec /\ Fairness

-----------------------------------------------------------------------------
TypeOK == /\ run \in [Runs -> RunStatuses]
          /\ ev \in [Runs -> EventStatuses]
          /\ attempts \in [Runs -> Nat]
          /\ lease \in [Runs -> {"none", "live", "expired"}]
          /\ waiting \in [Runs -> BOOLEAN]
          /\ starts \in [Runs -> Nat]
          /\ pc \in [Workers -> Positions]
          /\ job \in [Workers -> Runs \cup {NoRun}]
          /\ seen \in [Workers -> Nat]
          /\ faults \in Nat /\ crashes \in Nat /\ spoilt \subseteq Runs

\* Two workers never answer for the same row, even when the lease of a slow
\* worker has expired: claim_next hands a row to one worker.
ExclusiveClaim ==
    \A v, w \in Workers, r \in Runs : Holds(v, r) /\ Holds(w, r) => v = w

\* A run's agent loop is entered at most once, whatever is retried.
AtMostOneExecution == \A r \in Runs : starts[r] <= 1

\* A row leaves "processing" only with its run ended: a retry finds an ended
\* run (and never executes it), a dead row never strands an unfinished one,
\* and a processed row belongs to a completed run.
SettledRunsEnded ==
    \A r \in Runs : /\ ev[r] \in {"retryable", "dead"} => run[r] \in Ended
                    /\ ev[r] = "processed" => run[r] = "completed"

\* The retry budget is spent exactly: a row is claimed MaxAttempts times at
\* most, retried only below the budget and dead only at it.
AttemptBudget ==
    \A r \in Runs : /\ attempts[r] <= MaxAttempts
                    /\ ev[r] = "retryable" => attempts[r] < MaxAttempts
                    /\ ev[r] = "dead" => attempts[r] = MaxAttempts

\* A completed run's row is retried or dead only if one of its own transactions
\* was reported failed when the run was completed already: the last of the
\* agent, applied all the same, or mark_processed.  No error of the agent, and
\* no failure of another run's transaction, makes a completed run look failed.
CompletedRowAccounted ==
    \A r \in Runs : run[r] = "completed" /\ ev[r] \in {"retryable", "dead"} => r \in spoilt

\* Rows in "processing" that no worker answers for.
Orphans == {r \in Runs : ev[r] = "processing" /\ \A w \in Workers : ~Holds(w, r)}

\* Every orphaned row is one lost worker's: nothing else in the protocol
\* (an error, a fault, an expired lease) orphans a row.
OrphansAreCrashes == Cardinality(Orphans) <= crashes

\* The strengthening the proofs need: what each position of process_one knows
\* about the row and the run it works for, and that no two workers share a row
\* from the SELECT on.  It relies on row locks.
Busy(w) == pc[w] \in Holding \cup {"claiming"}

PositionInv ==
    \A w \in Workers :
        /\ Busy(w) => job[w] \in Runs
        /\ pc[w] = "claiming" => /\ ev[job[w]] \in {"pending", "retryable"}
                                 /\ seen[w] = attempts[job[w]]
        /\ pc[w] \in Holding \ {"failing"} => ev[job[w]] = "processing"
        /\ pc[w] = "failing" => ev[job[w]] \in {"processing", "processed"}
        /\ pc[w] = "starting" => run[job[w]] = "queued"
        /\ pc[w] = "working"  => run[job[w]] = "started"
        /\ pc[w] = "finished" => run[job[w]] = "completed"
        /\ pc[w] \in {"claimed", "failing"} /\ run[job[w]] = "completed" => job[w] \in spoilt

DistinctJobs == \A v, w \in Workers : Busy(v) /\ Busy(w) /\ job[v] = job[w] => v = w

RowInv == \A r \in Runs :
    /\ ev[r] = "none" => run[r] = "none" /\ attempts[r] = 0 /\ starts[r] = 0
    /\ run[r] = "none" => ev[r] = "none"
    /\ run[r] = "queued" => starts[r] = 0
    /\ ev[r] = "pending" => run[r] = "queued" /\ attempts[r] = 0

IInv == /\ TypeOK /\ PositionInv /\ DistinctJobs /\ RowInv
        /\ AtMostOneExecution /\ SettledRunsEnded /\ AttemptBudget /\ CompletedRowAccounted

\* The asynchronous path implements the life cycle of a run.
Lifecycle == INSTANCE RunLifecycle
RefinesLifecycle == Lifecycle!Spec

\* docs/outbox.md: a client that polls GET /runs/{run_id} sees the run end.
EveryRunEnds == \A r \in Runs : run[r] = "queued" ~> run[r] \in Ended

\* Whatever fails, every queued run ends, unless its worker was lost.
EndsOrOrphaned == \A r \in Runs : run[r] = "queued" ~> run[r] \in Ended \/ r \in Orphans

\* Every row is eventually processed, given up or orphaned, for good.
QueueDrains ==
    \A r \in Runs : ev[r] = "pending" ~> [](ev[r] \in {"processed", "dead"} \/ r \in Orphans)
=============================================================================
