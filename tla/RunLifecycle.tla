---------------------------- MODULE RunLifecycle ----------------------------
(***************************************************************************)
(* What the platform promises about a run, whichever path executes it.     *)
(* A run is created queued (POST /chat/async) or started (POST /chat), is  *)
(* executed at most once, and ends completed or failed; an ended run never *)
(* changes again.  Outbox.tla (the asynchronous path) and AgentRun.tla     *)
(* (the agent loop) are shown to implement this module.                    *)
(***************************************************************************)
CONSTANT Runs           \* the runs that may ever be created

VARIABLE run            \* runs.status of each run, "none" before its row

Statuses == {"none", "queued", "started", "completed", "failed"}
Ended    == {"completed", "failed"}

Init == run = [r \in Runs |-> "none"]

\* Run r, in a status of `from`, takes the status `to`.
Move(r, from, to) == /\ run[r] \in from
                     /\ run' = [run EXCEPT ![r] = to]

Submit(r)   == Move(r, {"none"}, "queued")
Open(r)     == Move(r, {"none"}, "started")
Start(r)    == Move(r, {"queued"}, "started")
Complete(r) == Move(r, {"started"}, "completed")
Fail(r)     == Move(r, {"queued", "started"}, "failed")

Execute(r) == Start(r) \/ Complete(r) \/ Fail(r)

Next == \E r \in Runs : Submit(r) \/ Open(r) \/ Execute(r)

Spec == Init /\ [][Next]_run

\* Every run that was created ends: the promise of an asynchronous run whose
\* worker is never lost.
FairSpec == Spec /\ \A r \in Runs : WF_run(Execute(r))
=============================================================================
