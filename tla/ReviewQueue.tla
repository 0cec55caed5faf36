---------------------------- MODULE ReviewQueue -----------------------------
(***************************************************************************)
(* Review items, the PATCH requests that resolve them and the gauge        *)
(* app_hitl_queue_depth of the API process, which GET /metrics shows.      *)
(*                                                                         *)
(* Source: api/routes/reviews.py, services/repositories/runs.py and the    *)
(* last transaction of AgentOrchestrator._stream_agent_work, on PostgreSQL *)
(* at its default isolation.  An action is a statement or a commit: the    *)
(* count is read in one step and shown in a later one.  A run has at most  *)
(* one item here; what makes it escalate is AgentRun.tla.                  *)
(***************************************************************************)
EXTENDS Naturals, FiniteSets

CONSTANTS Runs, WorkerRuns, \* runs, and those executed by a worker process,
                            \* which has a gauge of its own
          Patches,          \* PATCH /reviews/{item_id} requests
          Statuses,         \* what a request may ask for, besides "pending"
          Resolvers,        \* what it may give as its resolver
          Nobody,           \* NULL: no resolver, no resolution
          MayFail           \* agents and transactions may fail

ASSUME ReviewAssumption == /\ IsFiniteSet(Runs) /\ WorkerRuns \subseteq Runs
                           /\ Runs \cap Patches = {}
                           /\ Nobody \notin Resolvers \cup Patches \cup Runs
                           /\ Statuses \cap {"none", "pending"} = {}
                           /\ MayFail \in BOOLEAN

VARIABLES row,    \* human_review_items: the item of each run, as committed
          stage,  \* where each run is
          pc,     \* where each request is
          item,   \* the run whose item a request names
          body,   \* the values the request carries
          seen,   \* the row as it loaded it
          count,  \* what a run or request has counted
          gauge,  \* app_hitl_queue_depth in the API process
          serial, \* history: the last operation ran alone and set the gauge
          last    \* history: what the last request for an item asked for, if
                  \* it had loaded the row that it overwrote

vars == <<row, stage, pc, item, body, seen, count, gauge, serial, last>>

Row(status, resolution, resolver) ==
    [status |-> status, resolution |-> resolution, resolver |-> resolver]
Absent == Row("none", Nobody, Nobody)
Fresh  == Row("pending", Nobody, Nobody)
Rows   == [status : {"none", "pending"} \cup Statuses,
           resolution : Patches \cup {Nobody}, resolver : Resolvers \cup {Nobody}]

Init == /\ row = [r \in Runs |-> Absent]
        /\ stage = [r \in Runs |-> "working"]
        /\ pc = [p \in Patches |-> "idle"]
        /\ item = [p \in Patches |-> Nobody]
        /\ body = [p \in Patches |-> Absent]
        /\ seen = [p \in Patches |-> Absent]
        /\ count = [x \in Runs \cup Patches |-> 0]
        /\ gauge = 0
        /\ serial = FALSE
        /\ last = [r \in Runs |-> Absent]

\* Operations that have read or written something and are not over.
Busy == {r \in Runs : stage[r] \in {"escalated", "counted"}}
        \cup {p \in Patches : pc[p] \notin {"idle", "answered"}}

\* pending_review_count over the rows a transaction sees.
Pending(rows) == Cardinality({r \in Runs : rows[r].status = "pending"})

-----------------------------------------------------------------------------
(***************************************************************************)
(* Runs.                                                                   *)
(***************************************************************************)
Walk(r, place) == stage' = [stage EXCEPT ![r] = place]

\* The transactions before the last one leave an item to review, or none.
Escalate(r) == /\ stage[r] = "working"
               /\ Walk(r, "escalated")
               /\ \/ row' = [row EXCEPT ![r] = Fresh]
                  \/ UNCHANGED row
               /\ serial' = (Busy = {})
               /\ UNCHANGED <<pc, item, body, seen, count, gauge, last>>

\* The last transaction counts ...
RunCounts(r) == /\ stage[r] = "escalated"
                /\ Walk(r, "counted")
                /\ count' = [count EXCEPT ![r] = Pending(row)]
                /\ UNCHANGED <<row, pc, item, body, seen, gauge, serial, last>>

\* ... and sets the gauge of its own process.
RunShows(r) == /\ stage[r] = "counted"
               /\ Walk(r, "ended")
               /\ IF r \in WorkerRuns
                  THEN UNCHANGED gauge /\ serial' = FALSE
                  ELSE gauge' = count[r] /\ UNCHANGED serial
               /\ count' = [count EXCEPT ![r] = 0]
               /\ UNCHANGED <<row, pc, item, body, seen, last>>

AgentRaises(r) == /\ MayFail
                  /\ stage[r] = "escalated"
                  /\ Walk(r, "ended")
                  /\ serial' = FALSE
                  /\ UNCHANGED <<row, pc, item, body, seen, count, gauge, last>>

-----------------------------------------------------------------------------
(***************************************************************************)
(* PATCH /reviews/{item_id}.                                               *)
(***************************************************************************)
Goto(p, place) == pc' = [pc EXCEPT ![p] = place]

\* The handler is over and its locals are gone.
Answer(p) == /\ Goto(p, "answered")
             /\ item' = [item EXCEPT ![p] = Nobody]
             /\ body' = [body EXCEPT ![p] = Absent]
             /\ seen' = [seen EXCEPT ![p] = Absent]
             /\ count' = [count EXCEPT ![p] = 0]

\* resolve_review_item loads the row without a lock; the answer is 404 if
\* there is none.
Load(p) ==
    /\ pc[p] = "idle"
    /\ \E r \in Runs, s \in Statuses \cup {"pending"}, n \in Resolvers \cup {Nobody} :
        IF row[r] = Absent
        THEN Answer(p) /\ UNCHANGED serial
        ELSE /\ Goto(p, "loaded")
             /\ item' = [item EXCEPT ![p] = r]
             /\ body' = [body EXCEPT ![p] = Row(s, p, n)]
             /\ seen' = [seen EXCEPT ![p] = row[r]]
             /\ serial' = (Busy = {})
             /\ UNCHANGED count
    /\ UNCHANGED <<row, stage, gauge, last>>

NeverUnlocked(p) == \A q \in Patches : item[q] = item[p] => q = p \* seeded bug

\* The UPDATE waits for another request's on the same row.
Unlocked(p) == \A q \in Patches : item[q] = item[p] => pc[q] \notin {"flushed", "counted"}

\* It sets only the columns whose value is not the one loaded.
Written(p, column) ==
    IF body[p][column] # seen[p][column] THEN body[p][column] ELSE row[item[p]][column]

KeepsResolver(p) ==                                              \* seeded bug
    Row(Written(p, "status"), Written(p, "resolution"),
        IF body[p].resolver = Nobody THEN row[item[p]].resolver ELSE body[p].resolver)

SwapsColumns(p) ==                                               \* seeded bug
    Row(Written(p, "resolution"), Written(p, "status"), Written(p, "resolver"))

Updated(p) == Row(Written(p, "status"), Written(p, "resolution"), Written(p, "resolver"))

Flush(p) == /\ pc[p] = "loaded" /\ Unlocked(p)
            /\ Goto(p, "flushed")
            /\ UNCHANGED <<row, stage, item, body, seen, count, gauge, serial, last>>

CountsBefore(p) == row                                           \* seeded bug

\* Its own update and whatever else is committed.
Visible(p) == [row EXCEPT ![item[p]] = Updated(p)]

PatchCounts(p) == /\ pc[p] = "flushed"
                  /\ Goto(p, "counted")
                  /\ count' = [count EXCEPT ![p] = Pending(Visible(p))]
                  /\ UNCHANGED <<row, stage, item, body, seen, gauge, serial, last>>

\* What the commit makes of the row.
Applied(p) == /\ row' = [row EXCEPT ![item[p]] = Updated(p)]
              /\ last' = [last EXCEPT ![item[p]] =
                             IF seen[p] = row[item[p]] THEN body[p] ELSE Absent]

Commit(p) == /\ pc[p] = "counted"
             /\ Goto(p, "committed")
             /\ Applied(p)
             /\ UNCHANGED <<stage, item, body, seen, count, gauge, serial>>

\* The gauge is set when the transaction is over.
PatchShows(p) == /\ pc[p] = "committed"
                 /\ Answer(p)
                 /\ gauge' = count[p]
                 /\ UNCHANGED <<row, stage, serial, last>>

\* An error or a client that leaves: nothing is written, or the commit is and
\* nobody sets the gauge.
PatchFails(p) == /\ MayFail
                 /\ \/ pc[p] \in {"loaded", "flushed", "counted"} /\ UNCHANGED <<row, last>>
                    \/ pc[p] = "counted" /\ Applied(p)
                 /\ Answer(p)
                 /\ serial' = FALSE
                 /\ UNCHANGED <<stage, gauge>>

-----------------------------------------------------------------------------
RunStep(r)   == RunCounts(r) \/ RunShows(r)
PatchStep(p) == Flush(p) \/ PatchCounts(p) \/ Commit(p) \/ PatchShows(p)

Next == \/ \E r \in Runs : Escalate(r) \/ RunStep(r) \/ AgentRaises(r)
        \/ \E p \in Patches : Load(p) \/ PatchStep(p) \/ PatchFails(p)

Spec == Init /\ [][Next]_vars

\* Statements are answered unless they wait for a lock.
FairSpec == /\ Spec
            /\ \A r \in Runs : WF_vars(RunStep(r))
            /\ \A p \in Patches : WF_vars(PatchStep(p))

-----------------------------------------------------------------------------
TypeOK == /\ row \in [Runs -> Rows]
          /\ stage \in [Runs -> {"working", "escalated", "counted", "ended"}]
          /\ pc \in [Patches -> {"idle", "loaded", "flushed", "counted", "committed", "answered"}]
          /\ item \in [Patches -> Runs \cup {Nobody}]
          /\ body \in [Patches -> Rows] /\ seen \in [Patches -> Rows]
          /\ count \in [Runs \cup Patches -> 0..Cardinality(Runs)]
          /\ gauge \in 0..Cardinality(Runs)
          /\ serial \in BOOLEAN
          /\ last \in [Runs -> Rows]

Quiet == Busy = {}

\* When operations of the API process do not overlap, the gauge is the number
\* of pending items after each of them, whatever items it added, resolved or
\* opened again.
GaugeExactWhenSerial == Quiet /\ serial => gauge = Cardinality({r \in Runs : row[r].status = "pending"})

\* An item resolved by a request that had loaded what it overwrote shows that
\* request's values in every column; columns of two requests mix only when
\* one of them committed after the other had loaded the row.
RowIsOneRequests == \A r \in Runs : last[r] # Absent => row[r] = last[r]

\* The strengthening the proofs need.  A request that goes on names an item that
\* its run has left, and nobody resolved an item before that:
PlaceInv ==
    /\ \A p \in Patches : pc[p] \notin {"idle", "answered"} =>
           item[p] \in Runs /\ stage[item[p]] # "working"
    /\ \A r \in Runs : stage[r] = "working" => row[r] = Absent /\ last[r] = Absent

\* and what the last operation has counted, when it runs alone.
SerialInv ==
    IF serial
    THEN /\ \A x, y \in Busy : x = y
         /\ \A r \in Runs : stage[r] = "counted" => count[r] = Pending(row)
         /\ \A p \in Patches : /\ pc[p] = "counted" => count[p] = Pending(Visible(p))
                               /\ pc[p] = "committed" => count[p] = Pending(row)
         /\ Busy = {} => gauge = Pending(row)
    ELSE TRUE

IInv == TypeOK /\ PlaceInv /\ SerialInv /\ RowIsOneRequests

\* No request waits for a row for ever.
EveryPatchAnswered == \A p \in Patches : pc[p] = "loaded" ~> pc[p] = "answered"

\* README.md: app_hitl_queue_depth is the human review backlog, pending items
\* only.  It should be once everybody is done.
GaugeShowsBacklog == Quiet => gauge = Cardinality({r \in Runs : row[r].status = "pending"})
=============================================================================
