---------------------------- MODULE SessionStore ----------------------------
(***************************************************************************)
(* The rows that the requests of one session share: the session row with   *)
(* its manifest, and the fact "last_user_input".  Sessions do not meet:    *)
(* every query is by session_id or by the key of a row found that way.     *)
(*                                                                         *)
(* Source: services/repositories/state.py as AgentOrchestrator.run,        *)
(* execute_existing_run and enqueue_chat_run call it, on PostgreSQL at its *)
(* default isolation (a statement sees what is committed).  An action is a *)
(* statement or a commit.  The ORM writes only attributes that differ from *)
(* what it loaded.                                                         *)
(***************************************************************************)
EXTENDS Naturals, FiniteSets

CONSTANTS Requests, \* the chat requests of the session
          Nobody

ASSUME SessionAssumption == Nobody \notin Requests

VARIABLES states, \* committed session rows: the manifest of the one a request
                  \* inserted, "none" without one
          facts,  \* the requests whose insert of the fact is committed
          pc,
          made,   \* the request's open transaction holds a new session row
          target, \* who inserted the fact its open transaction has selected or written
          known   \* the manifest as its ORM object has it

vars == <<states, facts, pc, made, target, known>>

Phases    == {"none", "intake", "completed"}
Opening   == {"missing", "found", "adding", "updating", "written"}
Opened    == {"queued", "open", "closing", "done", "raised"}
Positions == {"idle", "refused"} \cup Opening \cup Opened

Init == /\ states = [q \in Requests |-> "none"]
        /\ facts = {}
        /\ pc = [q \in Requests |-> "idle"]
        /\ made = [q \in Requests |-> FALSE]
        /\ target = [q \in Requests |-> Nobody]
        /\ known = [q \in Requests |-> "none"]

Goto(q, place) == pc' = [pc EXCEPT ![q] = place]

States == {q \in Requests : states[q] # "none"}

-----------------------------------------------------------------------------
(***************************************************************************)
(* The first transaction: get_or_create, the run's own rows, upsert_fact.  *)
(***************************************************************************)
Look(q) ==
    /\ pc[q] = "idle"
    /\ IF States = {}
       THEN Goto(q, "missing") /\ UNCHANGED known
       ELSE \E s \in States : /\ Goto(q, "found")
                              /\ known' = [known EXCEPT ![q] = states[s]]
    /\ UNCHANGED <<states, facts, made, target>>

NoUniqueKey == TRUE                                              \* seeded bug

\* An insert waits for the inserter of the same session_id to end.
KeyFree == \A p \in Requests : ~made[p]

LeaksTransaction(q) == Goto(q, "refused") /\ UNCHANGED <<made, target>> \* seeded bug

\* The transaction is rolled back and its locks with it.
Refuse(q) == /\ Goto(q, "refused")
             /\ made' = [made EXCEPT ![q] = FALSE]
             /\ target' = [target EXCEPT ![q] = Nobody]

\* The unique key refuses a second row, and with it the request.
Create(q) ==
    /\ pc[q] = "missing" /\ KeyFree
    /\ \/ /\ States # {}
          /\ Refuse(q) /\ UNCHANGED known
       \/ /\ States = {}
          /\ Goto(q, "found")
          /\ made' = [made EXCEPT ![q] = TRUE]
          /\ known' = [known EXCEPT ![q] = "intake"]
          /\ UNCHANGED target
    /\ UNCHANGED <<states, facts>>

AlwaysAdds(q) == Goto(q, "adding") /\ target' = [target EXCEPT ![q] = q] \* seeded bug

\* upsert_fact looks the key up; nothing in the schema makes it unique.
Upsert(q) ==
    IF facts = {}
    THEN Goto(q, "adding") /\ target' = [target EXCEPT ![q] = q]
    ELSE \E f \in facts : Goto(q, "updating") /\ target' = [target EXCEPT ![q] = f]

FactLook(q) == /\ pc[q] = "found"
               /\ Upsert(q)
               /\ UNCHANGED <<states, facts, made, known>>

\* An update waits for the transaction that has updated the row before it.
FactFree(q) == \A p \in Requests : ~(pc[p] = "written" /\ target[p] = target[q])

FactWrite(q) == /\ \/ pc[q] = "adding"
                   \/ pc[q] = "updating" /\ FactFree(q)
                /\ Goto(q, "written")
                /\ UNCHANGED <<states, facts, made, target, known>>

\* The commit of a request's first transaction, synchronous or queued.
Open(q) == /\ pc[q] = "written"
           /\ Goto(q, "open") \/ Goto(q, "queued")
           /\ states' = IF made[q] THEN [states EXCEPT ![q] = "intake"] ELSE states
           /\ facts' = facts \cup {target[q]}
           /\ made' = [made EXCEPT ![q] = FALSE]
           /\ target' = [target EXCEPT ![q] = Nobody]
           /\ UNCHANGED known

\* A statement or the commit fails, or the process is lost: rolled back.
OpeningFails(q) == /\ pc[q] \in Opening
                   /\ Refuse(q)
                   /\ UNCHANGED <<states, facts, known>>

-----------------------------------------------------------------------------
(***************************************************************************)
(* The run.                                                                *)
(***************************************************************************)

\* The worker of a queued run loads the manifest again; a synchronous run
\* keeps the object of its first transaction, however old.
Reload(q) == /\ pc[q] = "queued"
             /\ \E s \in States : known' = [known EXCEPT ![q] = states[s]]
             /\ Goto(q, "open")
             /\ UNCHANGED <<states, facts, made, target>>

\* update_manifest is an UPDATE only if the object differs.
Stale(q) == known[q] # "completed"

ManifestFree(q) == \A p \in Requests : ~(pc[p] = "closing" /\ Stale(p))

\* The last transaction, up to its commit: it waits for another's update.
CloseWrite(q) == /\ pc[q] = "open"
                 /\ Stale(q) => ManifestFree(q)
                 /\ Goto(q, "closing")
                 /\ UNCHANGED <<states, facts, made, target, known>>

KeepsManifest(q) == states                                       \* seeded bug

ManifestAfter(q) ==
    IF Stale(q) THEN [s \in Requests |-> IF s \in States THEN "completed" ELSE states[s]]
                ELSE states

CloseCommit(q) == /\ pc[q] = "closing"
                  /\ states' = ManifestAfter(q)
                  /\ Goto(q, "done")
                  /\ UNCHANGED <<facts, made, target, known>>

\* The agent raises, its last transaction fails, or the process is lost.
Raise(q) == /\ pc[q] \in {"queued", "open", "closing"}
            /\ Goto(q, "raised")
            /\ UNCHANGED <<states, facts, made, target, known>>

-----------------------------------------------------------------------------
Step(q) == \/ Look(q) \/ Create(q) \/ FactLook(q) \/ FactWrite(q) \/ Open(q)
           \/ Reload(q) \/ CloseWrite(q) \/ CloseCommit(q)

Next == \E q \in Requests : Step(q) \/ OpeningFails(q) \/ Raise(q)

Spec == Init /\ [][Next]_vars

\* Statements are answered unless they wait for a lock.
FairSpec == Spec /\ \A q \in Requests : WF_vars(Step(q))

-----------------------------------------------------------------------------
TypeOK == /\ states \in [Requests -> Phases]
          /\ facts \subseteq Requests
          /\ pc \in [Requests -> Positions]
          /\ made \in [Requests -> BOOLEAN]
          /\ target \in [Requests -> Requests \cup {Nobody}]
          /\ known \in [Requests -> Phases]


\* However many first requests race, get_or_create leaves one session row.
OneState == Cardinality(States) <= 1

\* ... and one fact with it, never two and never none, though nothing but the
\* order of the opening transaction keeps two requests from both inserting it.
OneFact == Cardinality(facts) = Cardinality(States)

\* The manifest says "completed" exactly when some run of the session has
\* completed, although runs write it from objects of any age.
ManifestHonest ==
    \A s \in States : states[s] = "completed" <=> \E q \in Requests : pc[q] = "done"

\* The strengthening the proofs need.  Session rows and facts appear together
\* and once; whoever holds an uncommitted session row holds the only one, before
\* any is committed; what a request has selected to write is still right.
RowInv == /\ \A p, q \in States : p = q
          /\ \A p, q \in facts : p = q
          /\ facts = {} <=> States = {}

MadeInv == \A q \in Requests : made[q] =>
               /\ States = {}
               /\ pc[q] \in {"found", "adding", "written"}
               /\ \A p \in Requests : made[p] => p = q

PlaceInv == \A q \in Requests :
    /\ pc[q] \in {"found", "adding", "updating", "written"} /\ ~made[q] => States # {}
    /\ pc[q] = "adding" => made[q] /\ target[q] = q
    /\ pc[q] = "updating" => ~made[q] /\ target[q] \in facts
    /\ pc[q] = "written" => IF made[q] THEN target[q] = q ELSE target[q] \in facts
    /\ pc[q] \in Opened => States # {}

\* An ORM object says "completed" only after a run has completed.
KnownInv == \A q \in Requests : known[q] = "completed" => \E p \in Requests : pc[p] = "done"

IInv == TypeOK /\ RowInv /\ MadeInv /\ PlaceInv /\ KnownInv /\ ManifestHonest

\* No request waits for a lock for ever.
EveryRequestEnds == \A q \in Requests : pc[q] \in Opening ~> pc[q] \in Opened \cup {"refused"}
=============================================================================
