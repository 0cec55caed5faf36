-------------------------- MODULE SchemaMigrations --------------------------
(***************************************************************************)
(* The database schema and the alembic commands that move it: five         *)
(* revisions with an upgrade and a downgrade script each, run statement by *)
(* statement, on PostgreSQL (one transaction for the whole command) and on *)
(* SQLite (DDL takes effect at once until the first UPDATE of a script     *)
(* opens a transaction).  A command can be interrupted anywhere and given  *)
(* again, and rows are written between commands.                           *)
(*                                                                         *)
(* Source: alembic/env.py, alembic/versions/*.py and the declarations in   *)
(* app/models that the schema has to serve.  The alembic driver and the    *)
(* two database servers are external.                                      *)
(***************************************************************************)
EXTENDS Naturals, FiniteSets, SequencesExt

CONSTANTS Servers,    \* among "postgresql" and "sqlite"
          MaxTorn     \* scripts that may be cut short on SQLite

ASSUME MigrationAssumption == Servers \subseteq {"postgresql", "sqlite"} /\ MaxTorn \in Nat

VARIABLES server,
          disk,    \* the committed schema
          work,    \* the schema as the running command sees it
          goal,    \* the revision the command is to reach, or Idle
          plan,    \* the statements left of the current script
          open,    \* a transaction is open
          torn,    \* history: scripts cut short on SQLite
          refused  \* history: scripts that met a statement the server rejects,
                   \* while no downgrade had been cut short

vars == <<server, disk, work, goal, plan, open, torn, refused>>

HeadRevision == 5
Idle  == 99

-----------------------------------------------------------------------------
(***************************************************************************)
(* Objects: a table with the columns it is created with, a column added    *)
(* later, an index; `of` is the table they are of.                         *)
(***************************************************************************)
Table(t)     == [kind |-> "table", of |-> t, name |-> t]
Column(t, c) == [kind |-> "column", of |-> t, name |-> c]
Index(t, c)  == [kind |-> "index", of |-> t, name |-> c]

IsTable(o)  == o.kind = "table"
IsColumn(o) == o.kind = "column"
IsIndex(o)  == o.kind = "index"

Columns(t, cols) == [i \in DOMAIN cols |-> Column(t, cols[i])]
Indexes(t, cols) == [i \in DOMAIN cols |-> Index(t, cols[i])]

\* Statements; one whose `if` was false is skipped.
Add(o)   == [op |-> "add", what |-> o]
Skip(o)  == [op |-> "skip", what |-> o]
Drop(o)  == [op |-> "drop", what |-> o]
Fill(c)  == [op |-> "fill", what |-> Column("runs", c)]
Stamp(v) == [op |-> "stamp", what |-> v]

AddAll(objs)         == [i \in DOMAIN objs |-> Add(objs[i])]
DropAll(objs)        == [i \in DOMAIN objs |-> Drop(objs[i])]
CreateTable(t, cols) == <<Add(Table(t))>> \o AddAll(Indexes(t, cols))
DropTable(t, cols)   == DropAll(Indexes(t, cols)) \o <<Drop(Table(t))>>

\* `if name not in existing`: of columns and indexes one by one, of a table
\* together with its indexes.
Missing(objs, has)         == [i \in DOMAIN objs |->
                                  IF objs[i] \in has THEN Skip(objs[i]) ELSE Add(objs[i])]
MissingTable(t, cols, has) == IF Table(t) \in has THEN <<>> ELSE CreateTable(t, cols)

\* The foreign keys: a table and the table its rows refer to, by revision.
References1 == {<<"runs", "users">>, <<"messages", "runs">>, <<"tool_calls", "runs">>}
References2 == {<<"facts_blocks", "session_states">>, <<"scratchpads", "session_states">>}
References3 == {<<"findings", "runs">>, <<"provenances", "findings">>,
                <<"coverage_gaps", "runs">>, <<"human_review_items", "runs">>}
References4 == {<<"run_transcript_events", "runs">>}
References5 == {<<"outbox_events", "runs">>}

References == UNION {References1, References2, References3, References4, References5}

-----------------------------------------------------------------------------
(***************************************************************************)
(* The scripts.                                                            *)
(***************************************************************************)
Up1 == CreateTable("users", <<"email">>) \o CreateTable("runs", <<"status", "user_id">>)
       \o CreateTable("messages", <<"role", "run_id">>) \o CreateTable("tool_calls", <<"run_id">>)

Down1 == DropTable("tool_calls", <<"run_id">>) \o DropTable("messages", <<"run_id", "role">>)
         \o DropTable("runs", <<"user_id", "status">>) \o DropTable("users", <<"email">>)

ContractColumns == <<"request_id", "session_id", "trace_id", "task_type",
                     "user_constraints", "priority", "deadline", "attachments">>
FilledColumns   == <<"request_id", "session_id", "trace_id", "task_type",
                     "user_constraints", "priority", "attachments">>
Keys            == <<"request_id", "session_id", "trace_id">>

Fills == [i \in DOMAIN FilledColumns |-> Fill(FilledColumns[i])]

StateTables(has) == MissingTable("session_states", <<"session_id">>, has)
                    \o MissingTable("facts_blocks", <<"key", "session_state_id">>, has)
                    \o MissingTable("scratchpads", <<"kind", "session_state_id">>, has)

Up2FillsFirstTimeOnly(has) ==                                    \* seeded bug
    Missing(Columns("runs", ContractColumns), has)
    \o (IF Column("runs", "request_id") \in has THEN <<>> ELSE Fills)
    \o Missing(Indexes("runs", Keys), has) \o StateTables(has)
Up2FillsLast(has) == Missing(Columns("runs", ContractColumns), has)  \* seeded bug
                     \o Missing(Indexes("runs", Keys), has) \o StateTables(has) \o Fills
Up2(has) == Missing(Columns("runs", ContractColumns), has) \o Fills
            \o Missing(Indexes("runs", Keys), has) \o StateTables(has)

Down2 == DropTable("scratchpads", <<"session_state_id", "kind">>)
         \o DropTable("facts_blocks", <<"session_state_id", "key">>)
         \o DropTable("session_states", <<"session_id">>)
         \o DropAll(Indexes("runs", Reverse(Keys)))
         \o DropAll(Columns("runs", Reverse(ContractColumns)))

Up3Unguarded(has) == CreateTable("findings", <<"run_id">>)       \* seeded bug
                     \o MissingTable("provenances", <<"finding_id">>, has)
                     \o MissingTable("coverage_gaps", <<"run_id">>, has)
                     \o MissingTable("human_review_items", <<"run_id", "trigger_class">>, has)
Up3(has) == MissingTable("findings", <<"run_id">>, has)
            \o MissingTable("provenances", <<"finding_id">>, has)
            \o MissingTable("coverage_gaps", <<"run_id">>, has)
            \o MissingTable("human_review_items", <<"run_id", "trigger_class">>, has)

Down3 == DropTable("human_review_items", <<"trigger_class", "run_id">>)
         \o DropTable("coverage_gaps", <<"run_id">>)
         \o DropTable("provenances", <<"finding_id">>) \o DropTable("findings", <<"run_id">>)

Resolution == Columns("human_review_items", <<"resolved_at", "resolution", "resolver">>)

Up4(has) == MissingTable("run_transcript_events", <<"run_id", "seq">>, has)
            \o Missing(Resolution, has)

Down4KeepsResolver == DropAll(Tail(Reverse(Resolution)))         \* seeded bug
                      \o <<Drop(Table("run_transcript_events"))>>
Down4 == DropAll(Reverse(Resolution)) \o <<Drop(Table("run_transcript_events"))>>

OutboxIndexed == <<"event_type", "aggregate_id", "run_id", "request_id", "status">>

Up5(has)   == MissingTable("outbox_events", OutboxIndexed, has)
Down5(has) == IF Table("outbox_events") \in has THEN <<Drop(Table("outbox_events"))>> ELSE <<>>

Up(r, has) == CASE r = 1 -> Up1 [] r = 2 -> Up2(has) [] r = 3 -> Up3(has)
                [] r = 4 -> Up4(has) [] OTHER -> Up5(has)
Down(r, has) == CASE r = 1 -> Down1 [] r = 2 -> Down2 [] r = 3 -> Down3
                  [] r = 4 -> Down4 [] OTHER -> Down5(has)

-----------------------------------------------------------------------------
(***************************************************************************)
(* What the server makes of a statement.                                   *)
(***************************************************************************)
Late(o) == o.of = "runs" /\ o.name \in ToSet(ContractColumns)

\* Only PostgreSQL looks at the other end of a foreign key.
Referring(on) == IF on = "postgresql" THEN References ELSE {}

\* What an object cannot be created without, and what keeps it from going.
Needs(on, o)  == IF IsTable(o) THEN {Table(r[2]) : r \in {x \in Referring(on) : x[1] = o.of}}
                 ELSE {Table(o.of)} \cup {p \in {Column("runs", o.name)} : IsIndex(o) /\ Late(o)}
Blocks(on, o) == {Table(r[1]) : r \in {x \in Referring(on) : IsTable(o) /\ x[2] = o.of}}
                 \cup {p \in {Index(o.of, o.name)} : IsColumn(o) /\ on = "sqlite"}

Accepts(on, s, has) ==
    /\ s.op = "add"  => s.what \notin has /\ Needs(on, s.what) \subseteq has
    /\ s.op = "drop" => s.what \in has /\ Blocks(on, s.what) \cap has = {}
    /\ s.op = "fill" => s.what \in has

\* With a table or a column goes what belongs to it.
Belongs(p, o) == \/ p = o
                 \/ IsTable(o) /\ p.of = o.of
                 \/ IsColumn(o) /\ p = Index(o.of, o.name)

Effect(s, d) ==
    LET o == s.what IN
    CASE s.op = "add" -> [d EXCEPT !.objects = @ \cup {o},
                                   !.blank = IF IsColumn(o) /\ d.rows THEN @ \cup {o} ELSE @]
      [] s.op = "drop" -> [d EXCEPT !.objects = {p \in @ : ~Belongs(p, o)},
                                    !.blank = {p \in @ : ~Belongs(p, o)},
                                    !.rows = @ /\ o # Table("runs")]
      [] s.op = "fill" -> [d EXCEPT !.blank = @ \ {o}]
      [] s.op = "stamp" -> [d EXCEPT !.version = o]
      [] OTHER -> d

-----------------------------------------------------------------------------
(***************************************************************************)
(* Commands.                                                               *)
(***************************************************************************)
\* rows: runs has rows; blank: columns of runs that are NULL in one of them.
Empty == [objects |-> {}, version |-> 0, rows |-> FALSE, blank |-> {}]

Init == /\ server \in Servers
        /\ disk = Empty /\ work = Empty
        /\ goal = Idle /\ plan = <<>> /\ open = FALSE
        /\ torn = {} /\ refused = {}

Upgrading == goal > work.version
Script    == IF Upgrading THEN <<"up", work.version + 1>> ELSE <<"down", work.version>>

\* alembic upgrade, alembic downgrade.
Command(v) == /\ goal = Idle /\ v # disk.version
              /\ goal' = v
              /\ open' = (server = "postgresql")
              /\ UNCHANGED <<server, disk, work, plan, torn, refused>>

\* The guards look at the schema before the script's first statement.
Enter == /\ goal # Idle /\ plan = <<>>
         /\ plan' = IF Upgrading
                    THEN Up(Script[2], work.objects) \o <<Stamp(Script[2])>>
                    ELSE Down(Script[2], work.objects) \o <<Stamp(Script[2] - 1)>>
         /\ UNCHANGED <<server, disk, work, goal, open, torn, refused>>

OnlyUps(scripts) == \A s \in scripts : s[1] = "up"

Run == /\ plan # <<>> /\ Accepts(server, Head(plan), work.objects)
       /\ work' = Effect(Head(plan), work)

ChangeSchema == /\ Run /\ Head(plan).op \in {"skip", "add", "drop"}
                /\ plan' = Tail(plan)
                /\ disk' = IF open THEN disk ELSE work'
                /\ UNCHANGED <<server, goal, open, torn, refused>>

FillColumn == /\ Run /\ Head(plan).op = "fill"
              /\ plan' = Tail(plan)
              /\ open' = TRUE
              /\ UNCHANGED <<server, disk, goal, torn, refused>>

\* The end of a script, which commits it on SQLite, and of the command.
SetVersion == /\ Run /\ Head(plan).op = "stamp"
              /\ plan' = <<>>
              /\ LET last == work'.version = goal IN
                 /\ goal' = IF last THEN Idle ELSE goal
                 /\ disk' = IF last \/ server = "sqlite" THEN work' ELSE disk
                 /\ open' = (server = "postgresql" /\ ~last)
              /\ UNCHANGED <<server, torn, refused>>

Abandon == /\ work' = disk /\ goal' = Idle /\ plan' = <<>> /\ open' = FALSE
           /\ torn' = IF server = "sqlite" THEN torn \cup {Script} ELSE torn
           /\ UNCHANGED <<server, disk>>

Refuse == /\ plan # <<>> /\ ~Accepts(server, Head(plan), work.objects)
          /\ refused' = IF OnlyUps(torn) THEN refused \cup {[script |-> Script, clean |-> torn = {}]}
                        ELSE refused
          /\ Abandon

Interrupt == /\ goal # Idle
             /\ Cardinality(torn) < MaxTorn
             /\ Abandon
             /\ UNCHANGED refused

\* The program of the schema's revision stores a run.  The one of the first
\* revision knows nothing of the columns added later.
StoreRun == /\ goal = Idle /\ Table("runs") \in disk.objects /\ disk.version >= 1
            /\ LET late == {o \in disk.objects : IsColumn(o) /\ Late(o)} IN
               /\ disk.version > 1 => Cardinality(late) = Len(ContractColumns)
               /\ disk' = [disk EXCEPT !.rows = TRUE,
                                       !.blank = IF disk.version = 1 THEN @ \cup late ELSE @]
            /\ work' = disk'
            /\ UNCHANGED <<server, goal, plan, open, torn, refused>>

Next == \/ \E v \in 0..HeadRevision : Command(v)
        \/ Enter \/ ChangeSchema \/ FillColumn \/ SetVersion
        \/ Refuse \/ Interrupt \/ StoreRun

Spec == Init /\ [][Next]_vars

-----------------------------------------------------------------------------
(***************************************************************************)
(* What app/models declares: tables with their indexed columns, and the    *)
(* columns that came later.                                                *)
(***************************************************************************)
Declared(t, cols) == {Table(t)} \cup ToSet(Indexes(t, cols))

UserModel       == Declared("users", <<"email">>)
MessageModel    == Declared("messages", <<"run_id", "role">>)
ToolCallModel   == Declared("tool_calls", <<"run_id">>)
RunModel        == Declared("runs", <<"user_id", "request_id", "session_id", "trace_id", "status">>)
                   \cup {Column("runs", c) : c \in {"request_id", "session_id", "trace_id", "task_type",
                                   "user_constraints", "priority", "deadline", "attachments"}}
SessionModel    == Declared("session_states", <<"session_id">>)
                   \cup Declared("facts_blocks", <<"session_state_id", "key">>)
                   \cup Declared("scratchpads", <<"session_state_id", "kind">>)
QualityModel    == Declared("findings", <<"run_id">>) \cup Declared("provenances", <<"finding_id">>)
                   \cup Declared("coverage_gaps", <<"run_id">>)
                   \cup Declared("human_review_items", <<"run_id", "trigger_class">>)
                   \cup {Column("human_review_items", c) : c \in {"resolved_at", "resolution", "resolver"}}
TranscriptModel == Declared("run_transcript_events", <<"run_id", "seq">>)
OutboxModel     == Declared("outbox_events", <<"event_type", "aggregate_id", "run_id",
                                               "request_id", "status">>)

Models == UserModel \cup MessageModel \cup ToolCallModel \cup RunModel \cup SessionModel
          \cup QualityModel \cup TranscriptModel \cup OutboxModel

Required == {Column("runs", c) : c \in {"request_id", "session_id", "trace_id", "task_type",
                                    "user_constraints", "priority", "attachments"}}

-----------------------------------------------------------------------------
AtHead == goal = Idle /\ disk.version = HeadRevision

\* After `alembic upgrade head`, however often it was cut short and repeated,
\* every table and column the models map exists, and no old run has NULL in a
\* column they declare as required (the guards and the UPDATEs of 0002-0005).
ServesModels ==
    AtHead /\ OnlyUps(torn) => /\ {o \in Models : ~IsIndex(o)} \subseteq disk.objects
                             /\ disk.blank \cap Required = {}

\* Every declared index exists too, except those of a table that a torn 0003,
\* 0004 or 0005 had created without them: 0002 is safe, because its UPDATEs
\* open a transaction before its tables are created.
IndexesComplete ==
    LET lost == {o \in Models : IsIndex(o)} \ disk.objects
        of3  == {"findings", "provenances", "coverage_gaps", "human_review_items"}
    IN  AtHead /\ OnlyUps(torn) =>
            \A o \in lost : \/ o.of \in of3 /\ <<"up", 3>> \in torn
                            \/ o.of = "run_transcript_events" /\ <<"up", 4>> \in torn
                            \/ o.of = "outbox_events" /\ <<"up", 5>> \in torn

\* Repeating an upgrade is safe from the second revision on: while no
\* downgrade was cut short, the only upgrade a server ever rejects is the
\* first, whose tables are created without looking (0001_initial).
OnlyFirstUpgradeSticks == \A s \in refused : s.script[1] = "up" => s.script[2] = 1

\* The schema of a revision: what the upgrades up to it add where nothing is.
Added(p)    == {s.what : s \in {x \in ToSet(p) : x.op = "add"}}
Made(r)     == Added(Up(r, {}))
SchemaAt(v) == UNION {Made(r) : r \in 1..v}

\* Down undoes up: with no script cut short (never on PostgreSQL), no
\* statement is rejected, and what is committed between commands is exactly
\* the schema of the version it is stamped with, whatever ups and downs led
\* there.
DownUndoesUp ==
    /\ \A s \in refused : ~s.clean
    /\ torn = {} /\ (goal = Idle \/ server = "postgresql") =>
           disk.objects = SchemaAt(disk.version)
-----------------------------------------------------------------------------
(***************************************************************************)
(* The inductive invariant of the proofs.  It follows the schema that the  *)
(* rest of the plan will leave behind, from before the script's first      *)
(* statement to its stamp.                                                 *)
(***************************************************************************)
Scripts == {"up", "down"} \X (1..HeadRevision)

TypeOK == /\ server \in Servers
          /\ goal \in 0..HeadRevision \cup {Idle}
          /\ disk.version \in 0..HeadRevision /\ work.version \in 0..HeadRevision
          /\ disk = [objects |-> disk.objects, version |-> disk.version,
                     rows |-> disk.rows, blank |-> disk.blank]
          /\ work = [objects |-> work.objects, version |-> work.version,
                     rows |-> work.rows, blank |-> work.blank]
          /\ torn \subseteq Scripts /\ plan \in Seq(ToSet(plan))

\* When the committed schema is the one the command sees: always between
\* commands, and on SQLite until 0002 has filled its first column.
CommitInv == /\ goal # work.version
             /\ goal = Idle => plan = <<>> /\ disk = work
             /\ server = "postgresql" => torn = {} /\ (goal # Idle => open)
             /\ server = "sqlite" =>
                    /\ ~open => disk = work
                    /\ open => plan # <<>> /\ Upgrading /\ work.version = 1

Filled(p)  == {s.what : s \in {x \in ToSet(p) : x.op = "fill"}}
Dropped(p) == {s.what : s \in {x \in ToSet(p) : x.op = "drop"}}

StateNames == {"session_states", "facts_blocks", "scratchpads"}

Target == IF plan = <<>> THEN work.version
          ELSE IF Upgrading THEN work.version + 1 ELSE work.version - 1

\* An upgrade adds what is new in its revision and ends in its stamp; 0002
\* fills a column before it creates a table.
Shape(p, up, r) ==
    \A i \in DOMAIN p :
        /\ i = Len(p) => p[i] = Stamp(IF up THEN r ELSE r - 1)
        /\ i # Len(p) => p[i].op \in IF up THEN {"skip", "add", "fill"} ELSE {"drop"}
        /\ p[i].op = "add" => p[i].what \in Made(r)
        /\ p[i].op = "fill" => r = 2

FillsFirst(p) == \A i \in DOMAIN p : p[i].op = "add" /\ p[i].what.of \in StateNames =>
                                         \E j \in 1..(i - 1) : p[j].op = "fill"

PlanInv == plan # <<>> => /\ Shape(plan, Upgrading, Script[2])
                          /\ open \/ FillsFirst(plan)

Adds(s, o)  == s.op = "add" /\ s.what = o
Takes(s, o) == s.op = "drop" /\ Belongs(o, s.what)

\* The i-th statement of p finds what it needs: there, or left by an earlier
\* one.
Finds(on, p, i, has) ==
    /\ p[i].op = "add" =>
          /\ p[i].what \notin has
          /\ \A j \in 1..(i - 1) : ~Adds(p[j], p[i].what)
          /\ \A n \in Needs(on, p[i].what) : n \in has \/ \E j \in 1..(i - 1) : Adds(p[j], n)
    /\ p[i].op = "fill" =>
          p[i].what \in has \/ \E j \in 1..(i - 1) : Adds(p[j], p[i].what)
    /\ p[i].op = "drop" =>
          /\ p[i].what \in has
          /\ \A j \in 1..(i - 1) : ~Takes(p[j], p[i].what)
          /\ \A b \in Blocks(on, p[i].what) : b \in has => \E j \in 1..(i - 1) : Takes(p[j], b)

Ready(on, p, has) == \A i \in DOMAIN p : Finds(on, p, i, has)

ReadyInv == plan # <<>> /\ (torn = {} \/ (OnlyUps(torn) /\ Upgrading /\ work.version >= 1))
                => Ready(server, plan, work.objects)

\* Columns and indexes are of tables that exist.
Housed(objects) == \A o \in objects : Table(o.of) \in objects

\* A schema that only upgrades have torn lacks at most indexes, and those
\* only of tables that a torn script created.
Complete(v, objects, marks) ==
    /\ \A r \in 1..v : \A o \in Made(r) : o \in objects \/ (IsIndex(o) /\ r >= 3)
    /\ \A r \in 3..HeadRevision : \A o \in Made(r) :
           IsIndex(o) /\ Table(o.of) \in objects /\ o \notin objects => <<"up", r>> \in marks
    /\ v < 2 => \A t \in StateNames : Table(t) \notin objects

Intact(v, objects, marks) == /\ OnlyUps(marks) => Complete(v, objects, marks)
                             /\ marks = {} => objects = SchemaAt(v)

\* The scripts torn once the current one is cut short, and the tables,
\* columns and indexes that the current one leaves if it is not.
Marks   == IF plan # <<>> /\ server = "sqlite" THEN torn \cup {Script} ELSE torn
Outcome == {o \in work.objects \cup Added(plan) : \A d \in Dropped(plan) : ~Belongs(o, d)}

SchemaInv == /\ Housed(disk.objects) /\ Housed(work.objects)
             /\ Intact(disk.version, disk.objects, Marks)
             /\ Intact(Target, Outcome, torn)

BlankInv ==
    /\ OnlyUps(Marks) /\ disk.version >= 2 => disk.blank \cap Required = {}
    /\ OnlyUps(torn) /\ Target >= 2 =>
           \A c \in Required : c \in Filled(plan) \/ (c \notin work.blank /\ c \notin Added(plan))

RefusedInv == \A s \in refused : ~s.clean /\ (s.script[1] = "up" => s.script[2] = 1)

IInv == /\ TypeOK /\ CommitInv /\ PlanInv /\ ReadyInv
        /\ SchemaInv /\ BlankInv /\ RefusedInv
=============================================================================
