---------------------------- MODULE OutboxProofs ----------------------------
(***************************************************************************)
(* Proofs about Outbox for any number of runs, workers, attempts, faults   *)
(* and crashes.  Type correctness holds on every database; the rest needs  *)
(* row locks (PostgreSQL): without them two workers hold one row.          *)
(***************************************************************************)
EXTENDS Outbox, FiniteSetTheorems, TLAPS

-----------------------------------------------------------------------------
(***************************************************************************)
(* Type correctness.                                                       *)
(***************************************************************************)
LEMMA InitTyped == Init => TypeOK
  BY OutboxAssumption DEF Init, TypeOK, RunStatuses, EventStatuses, Positions, NoRun

\* A worker's transaction that fails, and one that returns, keep the types.
LEMMA WorkTyped ==
  ASSUME TypeOK, NEW w \in Workers, Work(w)
  PROVE  TypeOK'
<1> USE DEF TypeOK, RunStatuses, EventStatuses, Positions, Holding, Goto, db, failures
<1>1. CASE ClaimSelect(w)
  BY <1>1 DEF ClaimSelect, Offered
<1>2. CASE IdlePoll(w)
  BY <1>2 DEF IdlePoll, vars
<1>3. CASE ClaimCommit(w)
  <2>1. seen[w] + 1 \in Nat
    OBVIOUS
  <2> QED
    BY <1>3, <2>1 DEF ClaimCommit
<1>4. CASE StartRead(w)
  BY <1>4 DEF StartRead
<1>5. CASE StartCommit(w)
  BY <1>5 DEF StartCommit, Acked, AckLost, RolledBack, Raise
<1>6. CASE FinishRun(w)
  BY <1>6 DEF FinishRun, Acked, AckLost, RolledBack, Raise
<1>7. CASE AgentRaises(w)
  BY <1>7 DEF AgentRaises
<1>8. CASE MarkProcessed(w)
  BY <1>8 DEF MarkProcessed, Leave, AckLost, RolledBack, Raise
<1>9. CASE MarkFailure(w)
  BY <1>9 DEF MarkFailure, Leave, FailureStatus, AfterFailure, Ended
<1> QED
  BY <1>1, <1>2, <1>3, <1>4, <1>5, <1>6, <1>7, <1>8, <1>9 DEF Work

LEMMA NextTyped == TypeOK /\ [Next]_vars => TypeOK'
<1> SUFFICES ASSUME TypeOK, [Next]_vars PROVE TypeOK'
  OBVIOUS
<1>1. ASSUME NEW r \in Runs, Enqueue(r) PROVE TypeOK'
  BY <1>1 DEF Enqueue, failures, TypeOK, RunStatuses, EventStatuses
<1>2. ASSUME NEW r \in Runs, LeaseExpires(r) PROVE TypeOK'
  BY <1>2 DEF LeaseExpires, failures, TypeOK
<1>3. ASSUME NEW r \in Runs, BackoffElapses(r) PROVE TypeOK'
  BY <1>3 DEF BackoffElapses, failures, TypeOK
<1>4. ASSUME NEW w \in Workers, Work(w) PROVE TypeOK'
  BY <1>4, WorkTyped
<1>5. ASSUME NEW w \in Workers, Crash(w) PROVE TypeOK'
  BY <1>5 DEF Crash, Leave, Goto, TypeOK, Positions, db, failures
<1>6. ASSUME NEW w \in Workers, Restart(w) PROVE TypeOK'
  BY <1>6 DEF Restart, Goto, TypeOK, Positions, db, failures
<1>7. CASE UNCHANGED vars
  BY <1>7 DEF vars, db, failures, TypeOK
<1> QED
  BY <1>1, <1>2, <1>3, <1>4, <1>5, <1>6, <1>7 DEF Next

\* Every variable keeps its type, with or without row locks: statuses stay in
\* the enumerations the models use, whatever fails (outbox.py, runs.py).
THEOREM TypeCorrect == Spec => []TypeOK
<1>1. Init => TypeOK
  BY InitTyped
<1>2. TypeOK /\ [Next]_vars => TypeOK'
  BY NextTyped
<1> QED
  BY <1>1, <1>2, PTL DEF Spec

-----------------------------------------------------------------------------
(***************************************************************************)
(* The inductive invariant, one lemma per action.  Each proves the         *)
(* conjuncts the action can disturb; the others follow because the action  *)
(* leaves the state they speak of alone.                                   *)
(***************************************************************************)
LEMMA InitIInv == Init => IInv
  BY InitTyped, OutboxAssumption DEF Init, IInv, Busy, Holding, PositionInv, DistinctJobs, RowInv, AtMostOneExecution, SettledRunsEnded, AttemptBudget, CompletedRowAccounted

\* A new row is pending with its run queued; no worker knows it.
LEMMA EnqueueKeeps ==
  ASSUME RowLocks, IInv, NEW r \in Runs, Enqueue(r), TypeOK'
  PROVE  IInv'
<1> USE DEF IInv, TypeOK, Enqueue, db, failures, Busy, Holding, Ended
<1>1. PositionInv'
  BY DEF PositionInv, DistinctJobs, RowInv, SettledRunsEnded, CompletedRowAccounted
<1>2. RowInv'
  BY DEF PositionInv, RowInv
<1> QED
  BY <1>1, <1>2 DEF DistinctJobs, AtMostOneExecution, SettledRunsEnded, AttemptBudget, CompletedRowAccounted

\* The lease decides nothing about a row in processing.
LEMMA LeaseExpiresKeeps ==
  ASSUME RowLocks, IInv, NEW r \in Runs, LeaseExpires(r), TypeOK'
  PROVE  IInv'
  BY DEF LeaseExpires, failures, IInv, TypeOK, Busy, Holding,
         PositionInv, DistinctJobs, RowInv, AtMostOneExecution,
         SettledRunsEnded, AttemptBudget, CompletedRowAccounted

\* The backoff only delays a claim.
LEMMA BackoffElapsesKeeps ==
  ASSUME RowLocks, IInv, NEW r \in Runs, BackoffElapses(r), TypeOK'
  PROVE  IInv'
  BY DEF BackoffElapses, failures, IInv, TypeOK, Busy, Holding,
         PositionInv, DistinctJobs, RowInv, AtMostOneExecution,
         SettledRunsEnded, AttemptBudget, CompletedRowAccounted

\* A selected row is claimable and locked by nobody else.
LEMMA ClaimSelectKeeps ==
  ASSUME RowLocks, IInv, NEW w \in Workers, ClaimSelect(w), TypeOK'
  PROVE  IInv'
<1> USE DEF IInv, TypeOK, ClaimSelect, Offered, Claimable, Locked, Goto, db, failures, Busy, Holding, Ended
<1>1. PositionInv'
  BY DEF PositionInv, DistinctJobs, RowInv, SettledRunsEnded, CompletedRowAccounted
<1>2. DistinctJobs'
  BY DEF PositionInv, DistinctJobs
<1> QED
  BY <1>1, <1>2 DEF RowInv, AtMostOneExecution, SettledRunsEnded, AttemptBudget, CompletedRowAccounted

\* The count it writes is the count it read: nobody else had the row.
LEMMA ClaimCommitKeeps ==
  ASSUME RowLocks, IInv, NEW w \in Workers, ClaimCommit(w), TypeOK'
  PROVE  IInv'
<1> USE DEF IInv, TypeOK, ClaimCommit, Goto, db, failures, Busy, Holding, Ended
<1>1. PositionInv'
  BY DEF PositionInv, DistinctJobs, RowInv, SettledRunsEnded, CompletedRowAccounted
<1>2. DistinctJobs'
  BY DEF PositionInv, DistinctJobs
<1>3. RowInv'
  BY DEF PositionInv, RowInv
<1>4. SettledRunsEnded'
  BY DEF PositionInv, RowInv, SettledRunsEnded
<1>5. AttemptBudget'
  BY OutboxAssumption DEF PositionInv, RowInv, AttemptBudget
<1>6. CompletedRowAccounted'
  BY DEF PositionInv, RowInv, CompletedRowAccounted
<1> QED
  BY <1>1, <1>2, <1>3, <1>4, <1>5, <1>6 DEF AtMostOneExecution

\* Only a queued run is started.
LEMMA StartReadKeeps ==
  ASSUME RowLocks, IInv, NEW w \in Workers, StartRead(w), TypeOK'
  PROVE  IInv'
<1> USE DEF IInv, TypeOK, StartRead, MayStart, Goto, db, failures, Busy, Holding, Ended
<1>1. PositionInv'
  BY DEF PositionInv, DistinctJobs, RowInv, SettledRunsEnded, CompletedRowAccounted
<1> QED
  BY <1>1 DEF DistinctJobs, RowInv, AtMostOneExecution, SettledRunsEnded, AttemptBudget, CompletedRowAccounted

\* The run is still queued, so this is its first start.
LEMMA StartCommitKeeps ==
  ASSUME RowLocks, IInv, NEW w \in Workers, StartCommit(w), TypeOK'
  PROVE  IInv'
<1> USE DEF IInv, TypeOK, StartCommit, Acked, AckLost, RolledBack, Raise, Goto, db, failures, Busy, Holding, Ended
<1>1. PositionInv'
  BY DEF PositionInv, DistinctJobs, RowInv, SettledRunsEnded, CompletedRowAccounted
<1>2. RowInv'
  BY DEF PositionInv, RowInv
<1>3. AtMostOneExecution'
  BY DEF PositionInv, RowInv, AtMostOneExecution
<1>4. SettledRunsEnded'
  BY DEF PositionInv, RowInv, SettledRunsEnded
<1>5. CompletedRowAccounted'
  BY DEF PositionInv, RowInv, CompletedRowAccounted
<1> QED
  BY <1>1, <1>2, <1>3, <1>4, <1>5 DEF DistinctJobs, AttemptBudget

\* The run is started, and its row is in processing.
LEMMA FinishRunKeeps ==
  ASSUME RowLocks, IInv, NEW w \in Workers, FinishRun(w), TypeOK'
  PROVE  IInv'
<1> USE DEF IInv, TypeOK, FinishRun, Acked, AckLost, RolledBack, Raise, Goto, db, failures, Busy, Holding, Ended
<1>1. PositionInv'
  BY DEF PositionInv, DistinctJobs, RowInv, SettledRunsEnded, CompletedRowAccounted
<1>2. RowInv'
  BY DEF PositionInv, RowInv
<1>3. SettledRunsEnded'
  BY DEF PositionInv, RowInv, SettledRunsEnded
<1>4. CompletedRowAccounted'
  BY DEF PositionInv, RowInv, CompletedRowAccounted
<1> QED
  BY <1>1, <1>2, <1>3, <1>4 DEF DistinctJobs, AtMostOneExecution, AttemptBudget

\* A run being executed is started, not completed.
LEMMA AgentRaisesKeeps ==
  ASSUME RowLocks, IInv, NEW w \in Workers, AgentRaises(w), TypeOK'
  PROVE  IInv'
<1> USE DEF IInv, TypeOK, AgentRaises, Goto, db, failures, Busy, Holding, Ended
<1>1. PositionInv'
  BY DEF PositionInv, DistinctJobs, RowInv, SettledRunsEnded, CompletedRowAccounted
<1> QED
  BY <1>1 DEF DistinctJobs, RowInv, AtMostOneExecution, SettledRunsEnded, AttemptBudget, CompletedRowAccounted

\* The run is completed, and a failed transaction is a fault.
LEMMA MarkProcessedKeeps ==
  ASSUME RowLocks, IInv, NEW w \in Workers, MarkProcessed(w), TypeOK'
  PROVE  IInv'
<1> USE DEF IInv, TypeOK, MarkProcessed, AckLost, RolledBack, Raise, Leave, Goto, db, failures, Busy, Holding, Ended
<1>1. PositionInv'
  BY DEF PositionInv, DistinctJobs, RowInv, SettledRunsEnded, CompletedRowAccounted
<1>2. DistinctJobs'
  BY DEF PositionInv, DistinctJobs
<1>3. RowInv'
  BY DEF PositionInv, RowInv
<1>4. SettledRunsEnded'
  BY DEF PositionInv, RowInv, SettledRunsEnded
<1>5. CompletedRowAccounted'
  BY DEF PositionInv, RowInv, CompletedRowAccounted
<1> QED
  BY <1>1, <1>2, <1>3, <1>4, <1>5 DEF AtMostOneExecution, AttemptBudget

\* The run ends with the row's return to the queue.
LEMMA MarkFailureKeeps ==
  ASSUME RowLocks, IInv, NEW w \in Workers, MarkFailure(w), TypeOK'
  PROVE  IInv'
<1> USE DEF IInv, TypeOK, MarkFailure, FailureStatus, AfterFailure, Leave, Goto, db, failures, Busy, Holding, Ended
<1>1. PositionInv'
  BY DEF PositionInv, DistinctJobs, RowInv, SettledRunsEnded, CompletedRowAccounted
<1>2. DistinctJobs'
  BY DEF PositionInv, DistinctJobs
<1>3. RowInv'
  BY DEF PositionInv, RowInv
<1>4. SettledRunsEnded'
  BY DEF PositionInv, RowInv, SettledRunsEnded
<1>5. AttemptBudget'
  BY OutboxAssumption DEF PositionInv, RowInv, AttemptBudget
<1>6. CompletedRowAccounted'
  BY DEF PositionInv, RowInv, CompletedRowAccounted
<1> QED
  BY <1>1, <1>2, <1>3, <1>4, <1>5, <1>6 DEF AtMostOneExecution

\* A lost worker knows nothing; what it left behind stays as it is.
LEMMA CrashKeeps ==
  ASSUME RowLocks, IInv, NEW w \in Workers, Crash(w), TypeOK'
  PROVE  IInv'
<1> USE DEF IInv, TypeOK, Crash, Leave, Goto, db, failures, Busy, Holding, Ended
<1>1. PositionInv'
  BY DEF PositionInv, DistinctJobs, RowInv, SettledRunsEnded, CompletedRowAccounted
<1>2. DistinctJobs'
  BY DEF PositionInv, DistinctJobs
<1> QED
  BY <1>1, <1>2 DEF RowInv, AtMostOneExecution, SettledRunsEnded, AttemptBudget, CompletedRowAccounted

\* A new worker holds nothing.
LEMMA RestartKeeps ==
  ASSUME RowLocks, IInv, NEW w \in Workers, Restart(w), TypeOK'
  PROVE  IInv'
<1> USE DEF IInv, TypeOK, Restart, Goto, db, failures, Busy, Holding, Ended
<1>1. PositionInv'
  BY DEF PositionInv, DistinctJobs, RowInv, SettledRunsEnded, CompletedRowAccounted
<1>2. DistinctJobs'
  BY DEF PositionInv, DistinctJobs
<1> QED
  BY <1>1, <1>2 DEF RowInv, AtMostOneExecution, SettledRunsEnded, AttemptBudget, CompletedRowAccounted

LEMMA WorkKeeps ==
  ASSUME RowLocks, IInv, NEW w \in Workers, Work(w)
  PROVE  IInv'
<1>1. TypeOK'
  BY WorkTyped DEF IInv
<1>2. CASE IdlePoll(w)
  BY <1>2 DEF IdlePoll, vars, db, failures, IInv, TypeOK, PositionInv, DistinctJobs, RowInv, Busy,
       AtMostOneExecution, SettledRunsEnded, AttemptBudget, CompletedRowAccounted
<1> QED
  BY <1>1, <1>2, ClaimSelectKeeps, ClaimCommitKeeps, StartReadKeeps, StartCommitKeeps,
     FinishRunKeeps, AgentRaisesKeeps, MarkProcessedKeeps, MarkFailureKeeps DEF Work

LEMMA NextKeeps ==
  ASSUME RowLocks, IInv, [Next]_vars
  PROVE  IInv'
<1>1. TypeOK'
  BY NextTyped DEF IInv
<1>2. CASE Next
  BY <1>1, <1>2, EnqueueKeeps, LeaseExpiresKeeps, BackoffElapsesKeeps,
     WorkKeeps, CrashKeeps, RestartKeeps DEF Next
<1>3. CASE UNCHANGED vars
  BY <1>3 DEF vars, db, failures, IInv, TypeOK, PositionInv, DistinctJobs, RowInv, Busy,
       AtMostOneExecution, SettledRunsEnded, AttemptBudget, CompletedRowAccounted
<1> QED
  BY <1>2, <1>3

\* With row locks, the invariant holds in every reachable state: in
\* particular no run is executed twice (AtMostOneExecution), no row leaves
\* "processing" before its run has ended (SettledRunsEnded), the retry budget
\* is exact (AttemptBudget) and a completed run's row is given up only after a
\* failed transaction of that run (CompletedRowAccounted).
THEOREM Invariance == ASSUME RowLocks PROVE Spec => []IInv
<1>1. Init => IInv
  BY InitIInv
<1>2. IInv /\ [Next]_vars => IInv'
  BY NextKeeps
<1> QED
  BY <1>1, <1>2, PTL DEF Spec

\* claim_next never hands one row to two workers, however late a worker is.
THEOREM ClaimsExclusive == ASSUME RowLocks PROVE Spec => []ExclusiveClaim
<1>1. IInv => ExclusiveClaim
  BY DEF IInv, DistinctJobs, Busy, ExclusiveClaim, Holds
<1> QED
  BY <1>1, Invariance, PTL

\* The agent loop of a run is entered at most once, across retries, lost
\* workers and expired leases (orchestrator.py, execute_existing_run).
THEOREM ExecutedAtMostOnce == ASSUME RowLocks PROVE Spec => []AtMostOneExecution
<1>1. IInv => AtMostOneExecution
  BY DEF IInv
<1> QED
  BY <1>1, Invariance, PTL

\* A row is retried, dead or processed only when its run has ended, so a
\* retry never executes anything (worker/main.py, the except block).
THEOREM SettledEnded == ASSUME RowLocks PROVE Spec => []SettledRunsEnded
<1>1. IInv => SettledRunsEnded
  BY DEF IInv
<1> QED
  BY <1>1, Invariance, PTL

\* The retry budget is spent exactly: never more than MaxAttempts claims of a
\* row, retryable only below it and dead only at it (outbox.py).
THEOREM BudgetSpent == ASSUME RowLocks PROVE Spec => []AttemptBudget
<1>1. IInv => AttemptBudget
  BY DEF IInv
<1> QED
  BY <1>1, Invariance, PTL

\* A completed run's row goes back to the queue only after one of its own
\* transactions was reported failed when the run was completed already
\* (worker/main.py, the two transactions around the completion).
THEOREM CompletionAccounted == ASSUME RowLocks PROVE Spec => []CompletedRowAccounted
<1>1. IInv => CompletedRowAccounted
  BY DEF IInv
<1> QED
  BY <1>1, Invariance, PTL

-----------------------------------------------------------------------------
(***************************************************************************)
(* Orphaned rows: a crash makes at most one, no other step makes any.      *)
(***************************************************************************)
LEMMA RunsFinite == IsFiniteSet(Runs)
  BY OutboxAssumption, FS_Interval DEF Runs

\* A worker that stops holding a row has taken it out of "processing", and a
\* row enters "processing" in the hands of the worker that claims it.
LEMMA WorkOrphansNone ==
  ASSUME IInv, NEW w \in Workers, Work(w)
  PROVE  Orphans' \subseteq Orphans
<1> SUFFICES ASSUME NEW r \in Runs, ev'[r] = "processing",
                    \A v \in Workers : ~(Holds(v, r)')
             PROVE  r \in Orphans
  BY DEF Orphans
<1> USE DEF Orphans, Holds, Holding, Goto, db, failures, IInv, TypeOK, PositionInv, Busy, Positions
<1>1. CASE ClaimSelect(w)
  BY <1>1 DEF ClaimSelect
<1>2. CASE IdlePoll(w)
  BY <1>2 DEF IdlePoll, vars
<1>3. CASE ClaimCommit(w)
  BY <1>3 DEF ClaimCommit
<1>4. CASE StartRead(w)
  BY <1>4 DEF StartRead
<1>5. CASE StartCommit(w)
  BY <1>5 DEF StartCommit, Acked, AckLost, RolledBack, Raise
<1>6. CASE FinishRun(w)
  BY <1>6 DEF FinishRun, Acked, AckLost, RolledBack, Raise
<1>7. CASE AgentRaises(w)
  BY <1>7 DEF AgentRaises
<1>8. CASE MarkProcessed(w)
  BY <1>8 DEF MarkProcessed, Leave, AckLost, RolledBack, Raise
<1>9. CASE MarkFailure(w)
  BY <1>9 DEF MarkFailure, Leave, FailureStatus
<1> QED
  BY <1>1, <1>2, <1>3, <1>4, <1>5, <1>6, <1>7, <1>8, <1>9 DEF Work

LEMMA CrashOrphansOne ==
  ASSUME IInv, NEW w \in Workers, Crash(w)
  PROVE  Orphans' \subseteq Orphans \cup {job[w]}
  BY DEF Crash, Leave, Goto, Orphans, Holds, Holding, db, failures, IInv, TypeOK, Positions

LEMMA StepOrphans ==
  ASSUME IInv, OrphansAreCrashes, [Next]_vars
  PROVE  OrphansAreCrashes'
<1>1. /\ IsFiniteSet(Orphans) /\ IsFiniteSet(Orphans')
      /\ Cardinality(Orphans) \in Nat /\ Cardinality(Orphans') \in Nat
  BY RunsFinite, FS_Subset, FS_CardinalityType DEF Orphans
<1>2. crashes \in Nat
  BY DEF IInv, TypeOK
<1>3. ASSUME Orphans' \subseteq Orphans, crashes' = crashes PROVE OrphansAreCrashes'
  <2>1. Cardinality(Orphans') <= Cardinality(Orphans)
    BY <1>1, <1>3, FS_Subset
  <2> QED
    BY <1>1, <1>2, <1>3, <2>1 DEF OrphansAreCrashes
<1>4. ASSUME NEW w \in Workers, Crash(w) PROVE OrphansAreCrashes'
  <2>1. Orphans' \subseteq Orphans \cup {job[w]}
    BY <1>4, CrashOrphansOne
  <2>2. /\ IsFiniteSet(Orphans \cup {job[w]})
        /\ Cardinality(Orphans \cup {job[w]}) <= Cardinality(Orphans) + 1
    <3>1. /\ IsFiniteSet(Orphans \cup {job[w]})
          /\ Cardinality(Orphans \cup {job[w]})
                = IF job[w] \in Orphans THEN Cardinality(Orphans) ELSE Cardinality(Orphans) + 1
      BY <1>1, FS_AddElement, Zenon
    <3> QED
      BY <1>1, <3>1
  <2>3. Cardinality(Orphans') <= Cardinality(Orphans \cup {job[w]})
    BY <2>1, <2>2, FS_Subset
  <2>4. Cardinality(Orphans \cup {job[w]}) \in Nat
    BY <2>2, FS_CardinalityType
  <2>5. crashes' = crashes + 1
    BY <1>4 DEF Crash
  <2> QED
    BY <1>1, <1>2, <2>2, <2>3, <2>4, <2>5 DEF OrphansAreCrashes
<1>5. ASSUME NEW w \in Workers, Work(w) PROVE OrphansAreCrashes'
  <2>1. crashes' = crashes
    BY <1>5 DEF Work, ClaimSelect, IdlePoll, ClaimCommit, StartRead, StartCommit, FinishRun,
       AgentRaises, MarkProcessed, MarkFailure, Acked, AckLost, RolledBack, Raise, vars
  <2> QED
    BY <1>3, <1>5, <2>1, WorkOrphansNone
<1>6. ASSUME NEW r \in Runs, Enqueue(r) \/ LeaseExpires(r) \/ BackoffElapses(r)
      PROVE  OrphansAreCrashes'
  <2>1. Orphans' \subseteq Orphans
    BY <1>6 DEF Enqueue, LeaseExpires, BackoffElapses, Orphans, Holds, IInv, TypeOK
  <2> QED
    BY <1>3, <1>6, <2>1 DEF Enqueue, LeaseExpires, BackoffElapses
<1>7. ASSUME NEW w \in Workers, Restart(w) PROVE OrphansAreCrashes'
  <2>1. Orphans' \subseteq Orphans
    BY <1>7 DEF Restart, Goto, Orphans, Holds, Holding, db, failures, IInv, TypeOK
  <2> QED
    BY <1>3, <1>7, <2>1 DEF Restart
<1>8. CASE UNCHANGED vars
  BY <1>3, <1>8 DEF vars, db, failures, Orphans, Holds
<1> QED
  BY <1>4, <1>5, <1>6, <1>7, <1>8 DEF Next

\* Rows left in "processing" with nobody to answer for them are never more than
\* the lost workers: no error, fault or expired lease orphans a row.
THEOREM OnlyCrashesOrphan == ASSUME RowLocks PROVE Spec => []OrphansAreCrashes
<1>1. Init => OrphansAreCrashes
  <2> SUFFICES ASSUME Init PROVE OrphansAreCrashes
    OBVIOUS
  <2>1. Orphans = {}
    BY DEF Init, Orphans
  <2> QED
    BY <2>1, FS_EmptySet DEF Init, OrphansAreCrashes
<1>2. IInv /\ OrphansAreCrashes /\ [Next]_vars => OrphansAreCrashes'
  BY StepOrphans
<1> QED
  BY <1>1, <1>2, Invariance, PTL DEF Spec

-----------------------------------------------------------------------------
(***************************************************************************)
(* The life cycle.  Only four actions write a run's status; each of them   *)
(* is a step of RunLifecycle, from the status PositionInv gives.           *)
(***************************************************************************)
LEMMA StepRefines ==
  ASSUME IInv, [Next]_vars
  PROVE  [Lifecycle!Next]_run
<1> USE DEF Lifecycle!Next, Lifecycle!Execute, Lifecycle!Move
<1>1. ASSUME NEW r \in Runs, Enqueue(r) PROVE Lifecycle!Submit(r)
  BY <1>1 DEF Enqueue, Lifecycle!Submit
<1>2. ASSUME NEW w \in Workers, StartCommit(w)
      PROVE  Lifecycle!Start(job[w]) \/ UNCHANGED run
  BY <1>2 DEF StartCommit, RolledBack, db, failures, IInv, PositionInv, Lifecycle!Start
<1>3. ASSUME NEW w \in Workers, FinishRun(w)
      PROVE  Lifecycle!Complete(job[w]) \/ UNCHANGED run
  BY <1>3 DEF FinishRun, RolledBack, db, failures, IInv, PositionInv, Lifecycle!Complete
<1>4. ASSUME NEW w \in Workers, MarkFailure(w)
      PROVE  Lifecycle!Fail(job[w]) \/ UNCHANGED run
  <2>1. job[w] \in Runs /\ ev[job[w]] # "none"
    BY <1>4 DEF MarkFailure, IInv, PositionInv, Busy, Holding
  <2>2. run[job[w]] \in RunStatuses \ {"none"}
    BY <2>1 DEF IInv, TypeOK, RowInv
  <2>3. CASE run[job[w]] \in Ended
    BY <1>4, <2>1, <2>3 DEF MarkFailure, AfterFailure, IInv, TypeOK
  <2>4. CASE run[job[w]] \notin Ended
    BY <1>4, <2>2, <2>4 DEF MarkFailure, AfterFailure, RunStatuses, Ended, Lifecycle!Fail
  <2> QED
    BY <2>3, <2>4
<1>5. ASSUME NEW w \in Workers,
             StartCommit(w) \/ FinishRun(w) \/ MarkFailure(w)
      PROVE  job[w] \in Runs
  BY <1>5 DEF StartCommit, FinishRun, MarkFailure, IInv, PositionInv, Busy, Holding
<1>6. ASSUME NEW r \in Runs, LeaseExpires(r) \/ BackoffElapses(r)
      PROVE  UNCHANGED run
  BY <1>6 DEF LeaseExpires, BackoffElapses
<1>7. ASSUME NEW w \in Workers,
             \/ ClaimSelect(w) \/ IdlePoll(w) \/ ClaimCommit(w) \/ StartRead(w)
             \/ AgentRaises(w) \/ MarkProcessed(w) \/ Crash(w) \/ Restart(w)
      PROVE  UNCHANGED run
  BY <1>7 DEF ClaimSelect, IdlePoll, ClaimCommit, StartRead, AgentRaises, MarkProcessed,
       RolledBack, Crash, Restart, db, failures, vars
<1>8. CASE UNCHANGED vars
  BY <1>8 DEF vars, db, failures
<1> QED
  BY <1>1, <1>2, <1>3, <1>4, <1>5, <1>6, <1>7, <1>8 DEF Next, Work

\* With row locks, the asynchronous path implements the life cycle of a run:
\* it is started once, from queued, and never changes once it has ended.
THEOREM Refinement == ASSUME RowLocks PROVE Spec => RefinesLifecycle
<1>1. Init => Lifecycle!Init
  BY DEF Init, Lifecycle!Init
<1>2. IInv /\ [Next]_vars => [Lifecycle!Next]_run
  BY StepRefines
<1> QED
  BY <1>1, <1>2, Invariance, PTL DEF Spec, RefinesLifecycle, Lifecycle!Spec
=============================================================================
