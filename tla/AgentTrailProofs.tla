-------------------------- MODULE AgentTrailProofs --------------------------
(***************************************************************************)
(* Proofs about the trail that a run of AgentRun leaves: its transcript    *)
(* mirrors its tool rows, and each call without evidence is escalated.     *)
(* The core invariant of AgentRunProofs says where in its life the run is. *)
(***************************************************************************)
EXTENDS AgentRunProofs, FiniteSetTheorems, SequenceTheorems

-----------------------------------------------------------------------------
(***************************************************************************)
(* Counting in a sequence.                                                 *)
(***************************************************************************)
LEMMA TimesNat ==
  ASSUME NEW S, NEW s \in Seq(S), NEW x
  PROVE  /\ IsFiniteSet({i \in DOMAIN s : s[i] = x})
         /\ Times(x, s) \in Nat
<1>1. IsFiniteSet(1..Len(s))
  BY FS_Interval
<1>2. IsFiniteSet({i \in DOMAIN s : s[i] = x})
  BY <1>1, FS_Subset
<1> QED
  BY <1>2, FS_CardinalityType DEF Times

LEMMA TimesAppend ==
  ASSUME NEW S, NEW s \in Seq(S), NEW x \in S, NEW y
  PROVE  Times(y, Append(s, x)) = Times(y, s) + IF x = y THEN 1 ELSE 0
<1> DEFINE at == {i \in DOMAIN s : s[i] = y}
           longer == Append(s, x)
           on == {i \in DOMAIN longer : longer[i] = y}
           n == Len(s) + 1
<1>1. /\ n \notin at /\ n \in DOMAIN longer /\ longer[n] = x
      /\ DOMAIN longer = DOMAIN s \cup {n} /\ \A i \in DOMAIN s : longer[i] = s[i]
  OBVIOUS
<1>2. on = IF x = y THEN at \cup {n} ELSE at
  BY <1>1
<1>3. IsFiniteSet(at) /\ Cardinality(at) \in Nat
  BY TimesNat DEF Times
<1>4. Cardinality(at \cup {n}) = Cardinality(at) + 1
  BY <1>1, <1>3, FS_AddElement
<1> HIDE DEF at, n, on
<1>5. Cardinality(on) = Cardinality(at) + IF x = y THEN 1 ELSE 0
  BY <1>2, <1>3, <1>4
<1> QED
  BY <1>5 DEF Times, at, on

OutputsIn(trows) == [i \in DOMAIN trows |-> trows[i].output]

LEMMA OutputsTyped ==
  ASSUME NEW trows \in Seq(ToolRow)
  PROVE  OutputsIn(trows) \in Seq(Outputs)
<1>1. \A i \in 1..Len(trows) : trows[i] \in ToolRow
  OBVIOUS
<1>2. \A i \in 1..Len(trows) : trows[i].output \in Outputs
  BY <1>1 DEF ToolRow
<1>3. OutputsIn(trows) \in [1..Len(trows) -> Outputs] /\ Len(trows) \in Nat
  BY <1>2 DEF OutputsIn
<1> QED
  BY <1>3, SeqDef

\* A tool row more is one blank more, or none.
LEMMA BlanksAppend ==
  ASSUME toolRows \in Seq(ToolRow), NEW row \in ToolRow, toolRows' = Append(toolRows, row)
  PROVE  Blanks' = Blanks + IF row.output = "empty" THEN 1 ELSE 0
<1>1. OutputsIn(toolRows) \in Seq(Outputs)
  BY OutputsTyped
<1>2. row.output \in Outputs
  BY DEF ToolRow
<1>3. OutputsIn(toolRows') = Append(OutputsIn(toolRows), row.output)
  <2>1. Append(OutputsIn(toolRows), row.output) \in Seq(Outputs)
    BY <1>1, <1>2
  <2>2. /\ Len(toolRows') = Len(toolRows) + 1 /\ toolRows' \in Seq(ToolRow)
        /\ toolRows'[Len(toolRows) + 1] = row
        /\ \A i \in 1..Len(toolRows) : toolRows'[i] = toolRows[i]
    OBVIOUS
  <2>3. OutputsIn(toolRows') \in Seq(Outputs)
    BY <2>2, OutputsTyped
  <2>4. \A s \in Seq(ToolRow) : /\ DOMAIN OutputsIn(s) = 1..Len(s) /\ Len(OutputsIn(s)) = Len(s)
                                /\ \A i \in 1..Len(s) : OutputsIn(s)[i] = s[i].output
    <3> SUFFICES ASSUME NEW s \in Seq(ToolRow)
                 PROVE  /\ DOMAIN OutputsIn(s) = 1..Len(s) /\ Len(OutputsIn(s)) = Len(s)
                        /\ \A i \in 1..Len(s) : OutputsIn(s)[i] = s[i].output
      OBVIOUS
    <3>1. DOMAIN s = 1..Len(s) /\ Len(s) \in Nat
      OBVIOUS
    <3>2. DOMAIN OutputsIn(s) = 1..Len(s) /\ \A i \in 1..Len(s) : OutputsIn(s)[i] = s[i].output
      BY <3>1 DEF OutputsIn
    <3>3. Len(OutputsIn(s)) = Len(s)
      BY <3>1, <3>2, OutputsTyped, LenProperties
    <3> QED
      BY <3>2, <3>3
  <2> HIDE DEF OutputsIn
  <2>5. /\ Len(OutputsIn(toolRows')) = Len(Append(OutputsIn(toolRows), row.output))
        /\ \A i \in 1..Len(OutputsIn(toolRows')) :
               OutputsIn(toolRows')[i] = Append(OutputsIn(toolRows), row.output)[i]
    <3>1. /\ Len(Append(OutputsIn(toolRows), row.output)) = Len(toolRows) + 1
          /\ Append(OutputsIn(toolRows), row.output)[Len(toolRows) + 1] = row.output
          /\ \A i \in 1..Len(toolRows) :
                 Append(OutputsIn(toolRows), row.output)[i] = toolRows[i].output
      BY <1>1, <1>2, <2>4
    <3>2. /\ Len(OutputsIn(toolRows')) = Len(toolRows) + 1
          /\ \A i \in 1..Len(toolRows') : OutputsIn(toolRows')[i] = toolRows'[i].output
      BY <2>2, <2>4
    <3> QED
      BY <2>2, <3>1, <3>2
  <2> QED
    BY <2>1, <2>3, <2>5, SeqEqual
<1>4. Times("empty", OutputsIn(toolRows'))
        = Times("empty", OutputsIn(toolRows)) + IF row.output = "empty" THEN 1 ELSE 0
  BY <1>1, <1>2, <1>3, TimesAppend
<1> QED
  BY <1>4 DEF Blanks, OutputsIn

LEMMA CountsNat ==
  ASSUME RowsTyped
  PROVE  /\ Blanks \in Nat /\ Times("missing_evidence", gaps) \in Nat
         /\ Times("coverage_gap", reviews) \in Nat
BY OutputsTyped, TimesNat DEF RowsTyped, Blanks, OutputsIn
-----------------------------------------------------------------------------
(***************************************************************************)
(* The evidence, and its escalation.                                       *)
(***************************************************************************)
Balanced == /\ Times("missing_evidence", gaps) = Blanks - Owed
            /\ Times("coverage_gap", reviews) = Blanks - Owed

\* A step that neither records nor escalates.
LEMMA TrailStays ==
  ASSUME TrailInv, UNCHANGED <<toolRows, gaps, reviews>>, Owed' = Owed,
         status' = "none" => status = "none",
         \/ status = "completed" \/ pc \notin {"raised", "cancelled"}
         \/ status' # "completed" /\ pc' \in {"raised", "cancelled"}
  PROVE  TrailInv'
BY DEF TrailInv, Blanks

\* A run that stops before its last transaction owes nothing.
LEMMA TrailStops ==
  ASSUME status' = "started", pc' \in {"raised", "cancelled"}
  PROVE  TrailInv'
BY DEF TrailInv

\* A gap of another kind.
LEMMA TrailOther ==
  ASSUME TypeOK, TrailInv, pc = "loop", pc' \in {"loop", "final"}, status = "started",
         NEW gap \in GapTypes, NEW trigger \in Triggers,
         gap # "missing_evidence", trigger # "coverage_gap",
         Escalate(gap, trigger), UNCHANGED <<toolRows, status>>
  PROVE  TrailInv'
<1>1. Balanced /\ Owed = 0 /\ Owed' = 0 /\ UNCHANGED Blanks
  BY DEF TrailInv, Balanced, Owed, Blanks
<1>2. gaps \in Seq(GapTypes) /\ reviews \in Seq(Triggers)
  BY DEF TypeOK, RowsTyped
<1>3. gaps' = Append(gaps, gap) /\ reviews' = Append(reviews, trigger)
  BY DEF Escalate
<1>4. /\ Times("missing_evidence", gaps') = Times("missing_evidence", gaps) + 0
      /\ Times("coverage_gap", reviews') = Times("coverage_gap", reviews) + 0
  BY <1>2, <1>3, TimesAppend
<1>5. /\ Times("missing_evidence", gaps') = Times("missing_evidence", gaps)
      /\ Times("coverage_gap", reviews') = Times("coverage_gap", reviews)
  BY <1>4, CountsNat DEF TypeOK
<1> QED
  BY <1>1, <1>5 DEF Balanced, TrailInv

LEMMA TrailKept ==
  ASSUME CoreInv, TrailInv, [Next]_vars
  PROVE  TrailInv'
<1>a. TypeOK /\ PlaceInv /\ ToolInv /\ ToolUseBounded
  BY DEF CoreInv
<1> USE DEF Working, Owed
<1>1. CASE Enqueue
  BY <1>1, <1>a, TrailStays DEF Enqueue, PlaceInv, locals
<1>2. CASE Begin
  <2>1. /\ pc = "begin" /\ pc' \in {"first_call", "raised"}
        /\ UNCHANGED <<toolRows, gaps, reviews>>
        /\ status \in {"none", "queued"} /\ status' \in {status, "started"}
    BY <1>2, <1>a DEF Begin, Opened, Continue, PlaceInv, rows
  <2> QED
    BY <2>1, TrailStays
<1>3. CASE FirstCall
  BY <1>3, TrailStays DEF FirstCall, Continue, rows
<1>4. CASE FirstCallFails
  <2>1. pc = "first_call" /\ status = "started"
    BY <1>4, <1>a, StatusAtWork DEF FirstCallFails
  <2>2. pc' \in {pc, "raised"} /\ UNCHANGED <<rows, output>>
    BY <1>4, FailedAttempt DEF FirstCallFails
  <2> QED
    BY <2>1, <2>2, TrailStays DEF rows
<1>5. CASE SendStarted
  BY <1>5, TrailStays DEF SendStarted, rows
<1>6. ASSUME NEW why \in {"tool_not_registered", "tool_policy_denied"}, pc = "loop", TurnDown(why)
      PROVE  TrailInv'
  <2>1. status = "started" /\ UNCHANGED status
    BY <1>6, <1>a, StatusAtWork DEF TurnDown, TxStopsCounted, TxStops, rows
  <2>2. CASE Stops(outcome)
    BY <2>1, <2>2, Leaving, TrailStops
  <2>3. CASE pc' = "loop" /\ Escalate(why, why) /\ UNCHANGED toolRows
    BY <1>6, <1>a, <2>1, <2>3, Kinds, TrailOther
  <2> QED
    BY <1>6, <2>2, <2>3 DEF TurnDown, TxStopsCounted, TxStops, Continue
<1>7. CASE ArgumentsInvalid
  BY <1>7, <1>a, StatusAtWork, TrailStops DEF ArgumentsInvalid, MayInvoke, TxFails, Raise, rows
<1>8. CASE ToolFails
  <2>1. pc = "loop" /\ status = "started"
    BY <1>8, <1>a, StatusAtWork DEF ToolFails, MayInvoke
  <2>2. pc' \in {pc, "raised"} /\ UNCHANGED <<rows, output>>
    BY <1>8, FailedAttempt DEF ToolFails
  <2> QED
    BY <2>1, <2>2, TrailStays DEF rows
<1>9. CASE ToolReturns
  BY <1>9, TrailStays DEF ToolReturns, MayInvoke, Continue, rows
<1>10. CASE RecordTool
  <2>1. pc = "record" /\ status = "started" /\ UNCHANGED <<status, gaps, reviews>>
    BY <1>10, <1>a, StatusAtWork DEF RecordTool, TxFails, rows
  <2>2. CASE Raise
    BY <2>1, <2>2, TrailStops DEF Raise
  <2>3. CASE /\ toolRows' = Append(toolRows, [tool |-> reply, output |-> output])
             /\ pc' = IF output = "snippet" THEN "answer" ELSE "follow_call"
             /\ UNCHANGED output
    <3> DEFINE row == [tool |-> reply, output |-> output]
    <3>1. row \in ToolRow /\ row.output = output
      BY <1>a, <2>1 DEF ToolInv, ToolRow
    <3> HIDE DEF row
    <3>2. Blanks' = Blanks + IF output = "empty" THEN 1 ELSE 0
      BY <1>a, <2>3, <3>1, BlanksAppend DEF TypeOK, RowsTyped, row
    <3>3. Balanced /\ Owed = 0 /\ Owed' = IF output = "empty" THEN 1 ELSE 0
      BY <2>1, <2>3 DEF TrailInv, Balanced
    <3>4. Balanced'
      BY <1>a, <2>1, <3>2, <3>3, CountsNat DEF TypeOK, Balanced
    <3> QED
      BY <2>1, <3>4 DEF TrailInv, Balanced
  <2> QED
    BY <1>10, <2>2, <2>3 DEF RecordTool, TxFails, Continue, locals
<1>11. CASE FastAnswer
  <2>1. pc = "answer" /\ status = "started" /\ UNCHANGED <<status, toolRows, gaps, reviews>>
    BY <1>11, <1>a, StatusAtWork DEF FastAnswer, TxFails, rows
  <2>2. CASE Raise
    BY <2>1, <2>2, TrailStops DEF Raise
  <2>3. CASE pc' = "loop"
    BY <2>1, <2>3, TrailStays
  <2> QED
    BY <1>11, <2>2, <2>3 DEF FastAnswer, TxFails, Continue
<1>12. CASE FollowCall
  BY <1>12, TrailStays DEF FollowCall, Continue, rows
<1>13. CASE FollowCallFails
  <2>1. pc = "follow_call" /\ status = "started"
    BY <1>13, <1>a, StatusAtWork DEF FollowCallFails
  <2>2. pc' \in {pc, "raised"} /\ UNCHANGED <<rows, output>>
    BY <1>13, FailedAttempt DEF FollowCallFails
  <2>3. CASE pc' = "raised"
    BY <2>1, <2>2, <2>3, TrailStops DEF rows
  <2>4. CASE pc' = pc
    BY <2>1, <2>2, <2>4, TrailStays DEF rows
  <2> QED
    BY <2>2, <2>3, <2>4
<1>14. CASE Conclude
  <2>1. pc = "conclude" /\ status = "started" /\ UNCHANGED <<status, toolRows>>
    BY <1>14, <1>a, StatusAtWork, Zenon DEF Conclude, TxStopsCounting, TxStops, TxFails, rows
  <2>2. CASE Stops(outcome)
    BY <2>1, <2>2, Leaving, TrailStops
  <2>3. CASE Raise
    BY <2>1, <2>3, TrailStops DEF Raise
  <2>4. CASE EvidenceGap /\ pc' = "loop"
    <3>1. Balanced /\ Owed' = 0 /\ UNCHANGED Blanks
      BY <2>1, <2>4 DEF TrailInv, Balanced, Blanks
    <3>2. CASE output # "empty"
      BY <2>1, <2>4, <3>1, <3>2 DEF EvidenceGap, TrailInv, Balanced
    <3>3. CASE output = "empty"
      <4>1. Owed = 1
        BY <2>1, <3>3
      <4>2. /\ gaps \in Seq(GapTypes) /\ gaps' = Append(gaps, "missing_evidence")
            /\ reviews \in Seq(Triggers) /\ reviews' = Append(reviews, "coverage_gap")
        BY <1>a, <2>4, <3>3 DEF EvidenceGap, Escalate, TypeOK, RowsTyped
      <4>3. /\ Times("missing_evidence", gaps') = Times("missing_evidence", gaps) + 1
            /\ Times("coverage_gap", reviews') = Times("coverage_gap", reviews) + 1
        BY <4>2, Kinds, TimesAppend
      <4>4. Balanced'
        BY <1>a, <3>1, <4>1, <4>3, CountsNat DEF TypeOK, Balanced
      <4> QED
        BY <2>1, <4>4 DEF TrailInv, Balanced
    <3> QED
      BY <3>2, <3>3
  <2> QED
    BY <1>14, <2>2, <2>3, <2>4, Zenon DEF Conclude, TxStopsCounting, TxStops, TxFails, Continue
<1>15. CASE ExhaustBudget
  <2>1. pc = "loop" /\ status = "started" /\ UNCHANGED status
    BY <1>15, <1>a, StatusAtWork DEF ExhaustBudget, TxStopsCounted, TxStops, rows
  <2>2. CASE Stops("budget_exhausted")
    BY <2>1, <2>2, Leaving, TrailStops
  <2>3. CASE /\ pc' = "final" /\ UNCHANGED toolRows
             /\ Escalate("tool_budget_exhausted", "tool_budget_exhausted")
    BY <1>a, <2>1, <2>3, Kinds, TrailOther
  <2> QED
    BY <1>15, <2>2, <2>3 DEF ExhaustBudget, TxStopsCounted, TxStops
<1>16. CASE AnswerWithoutTool
  <2>1. pc = "loop" /\ status = "started" /\ UNCHANGED <<status, toolRows>>
    BY <1>16, <1>a, StatusAtWork, Zenon
    DEF AnswerWithoutTool, TxStopsCounting, TxStops, TxFails, rows
  <2>2. CASE Stops(outcome)
    BY <2>1, <2>2, Leaving, TrailStops
  <2>3. CASE Raise
    BY <2>1, <2>3, TrailStops DEF Raise
  <2>4. CASE pc' = "final" /\ UNCHANGED <<gaps, reviews>>
    BY <2>1, <2>4, TrailStays
  <2>5. CASE pc' = "final" /\ Escalate("forced_gap", "forced_drill")
    BY <1>a, <2>1, <2>5, Kinds, TrailOther
  <2> QED
    BY <1>16, <2>2, <2>3, <2>4, <2>5, Zenon
    DEF AnswerWithoutTool, TxStopsCounting, TxStops, TxFails, Continue
<1>17. CASE LoopEnds
  BY <1>17, TrailStays DEF LoopEnds, Continue, rows
<1>18. CASE Finalize
  <2>1. /\ pc = "final" /\ pc' \in {"send", "raised"} /\ UNCHANGED <<toolRows, gaps, reviews>>
        /\ status = "started" /\ status' # "none"
    BY <1>18, <1>a, StatusAtWork DEF Finalize, TxFails, Raise, Continue, rows
  <2> QED
    BY <2>1, TrailStays
<1>19. CASE SendMessage
  BY <1>19, TrailStays DEF SendMessage, rows
<1>20. CASE SendCompleted
  BY <1>20, TrailStays DEF SendCompleted, rows
<1>21. CASE Disconnect
  <2>1. /\ pc' = "cancelled" /\ UNCHANGED <<status, toolRows, gaps, reviews>>
        /\ pc \notin {"raised", "cancelled"}
    BY <1>21 DEF Disconnect, Stopped, rows
  <2>2. CASE status # "completed"
    BY <2>1, <2>2 DEF TrailInv
  <2>3. CASE status = "completed"
    <3>1. pc \notin {"follow_call", "conclude"}
      BY <1>a, <2>3 DEF PlaceInv
    <3> QED
      BY <2>1, <3>1, TrailStays
  <2> QED
    BY <2>2, <2>3
<1>22. CASE WorkerFailsRun
  BY <1>22 DEF WorkerFailsRun, TrailInv, Blanks, Ended
<1>23. CASE UNCHANGED vars
  BY <1>23 DEF vars, rows, locals, TrailInv, Blanks
<1> QED
  BY <1>1, <1>2, <1>3, <1>4, <1>5, <1>6, <1>7, <1>8, <1>9, <1>10, <1>11, <1>12, <1>13, <1>14,
     <1>15, <1>16, <1>17, <1>18, <1>19, <1>20, <1>21, <1>22, <1>23
  DEF Next, Step, NotRegistered, PolicyDenies
-----------------------------------------------------------------------------
(***************************************************************************)
(* The transcript, index by index.                                         *)
(***************************************************************************)
Opening(st) == IF st = "none" THEN <<>> ELSE <<"user">>
Closing(st) == IF st = "completed" THEN <<"assistant">> ELSE <<>>
Calls(trows) == [i \in DOMAIN trows |-> "tool_call"]

KindAt(st, n, i) == IF i <= Len(Opening(st)) THEN "user"
                    ELSE IF i <= Len(Opening(st)) + n THEN "tool_call" ELSE "assistant"

Mirrors(st, n, events) ==
    /\ Len(events) = Len(Opening(st)) + n + Len(Closing(st))
    /\ \A i \in 1..Len(events) : events[i].kind = KindAt(st, n, i)

EventKinds == {"user", "tool_call", "assistant"}

LEMMA KindsAre == "user" \in EventKinds /\ "tool_call" \in EventKinds /\ "assistant" \in EventKinds
BY DEF EventKinds

LEMMA Ends ==
  ASSUME NEW st
  PROVE  /\ Opening(st) \in Seq(EventKinds) /\ Len(Opening(st)) = IF st = "none" THEN 0 ELSE 1
         /\ Closing(st) \in Seq(EventKinds) /\ Len(Closing(st)) = IF st = "completed" THEN 1 ELSE 0
         /\ \A i \in 1..Len(Opening(st)) : Opening(st)[i] = "user"
         /\ \A i \in 1..Len(Closing(st)) : Closing(st)[i] = "assistant"
<1>1. CASE st = "none"
  BY <1>1, KindsAre DEF Opening, Closing
<1>2. CASE st = "completed"
  BY <1>2, KindsAre DEF Opening, Closing
<1>3. CASE st # "none" /\ st # "completed"
  BY <1>3, KindsAre DEF Opening, Closing
<1> QED
  BY <1>1, <1>2, <1>3

\* The entries of a sequence made of two, by their index.
IsJoin(S, s, t, both) ==
    /\ both \in Seq(S) /\ Len(both) = Len(s) + Len(t)
    /\ \A i \in 1..Len(both) :
           /\ i <= Len(s) => i \in 1..Len(s) /\ both[i] = s[i]
           /\ i > Len(s) => i - Len(s) \in 1..Len(t) /\ both[i] = t[i - Len(s)]

LEMMA Joined ==
  ASSUME NEW S, NEW s \in Seq(S), NEW t \in Seq(S)
  PROVE  IsJoin(S, s, t, s \o t)
<1>1. Len(s) \in Nat /\ Len(t) \in Nat
  OBVIOUS
<1>2. s \o t \in Seq(S) /\ Len(s \o t) = Len(s) + Len(t)
  BY ConcatProperties
<1>3. \A i \in 1..Len(s) + Len(t) :
          (s \o t)[i] = IF i <= Len(s) THEN s[i] ELSE t[i - Len(s)]
  BY ConcatProperties
<1> QED
  BY <1>1, <1>2, <1>3 DEF IsJoin

LEMMA MirrorByIndex ==
  ASSUME NEW st, NEW trows \in Seq(ToolRow), NEW events \in Seq(Event)
  PROVE  [i \in DOMAIN events |-> events[i].kind] = Opening(st) \o Calls(trows) \o Closing(st)
            <=> Mirrors(st, Len(trows), events)
<1> DEFINE kinds == [i \in DOMAIN events |-> events[i].kind]
           calls == Calls(trows)
           front == Opening(st) \o calls
           whole == front \o Closing(st)
           n     == Len(trows)
<1>2. n \in Nat /\ DOMAIN trows = 1..n /\ Len(events) \in Nat /\ DOMAIN events = 1..Len(events)
  OBVIOUS
<1>3. calls \in Seq(EventKinds) /\ Len(calls) = n /\ \A i \in 1..n : calls[i] = "tool_call"
  <2>1. calls \in [1..n -> EventKinds] /\ \A i \in 1..n : calls[i] = "tool_call"
    BY <1>2, KindsAre DEF Calls
  <2>2. calls \in Seq(EventKinds)
    BY <1>2, <2>1, SeqDef
  <2> QED
    BY <1>2, <2>1, <2>2, LenProperties
<1>4. kinds \in Seq(EventKinds) /\ Len(kinds) = Len(events)
      /\ \A i \in 1..Len(events) : kinds[i] = events[i].kind
  <2>1. \A i \in 1..Len(events) : events[i] \in Event
    OBVIOUS
  <2>2. \A i \in 1..Len(events) : events[i].kind \in EventKinds
    BY <2>1 DEF Event, EventKinds
  <2>3. kinds \in [1..Len(events) -> EventKinds]
    BY <1>2, <2>2
  <2>4. kinds \in Seq(EventKinds)
    BY <1>2, <2>3, SeqDef
  <2> QED
    BY <1>2, <2>3, <2>4, LenProperties
<1> HIDE DEF kinds, calls, n
<1>5. /\ front \in Seq(EventKinds) /\ Len(front) = Len(Opening(st)) + n
      /\ \A i \in 1..Len(front) : front[i] = IF i <= Len(Opening(st)) THEN "user" ELSE "tool_call"
  <2>1. Opening(st) \in Seq(EventKinds) /\ calls \in Seq(EventKinds)
    BY <1>3, Ends
  <2>2. /\ front \in Seq(EventKinds) /\ Len(front) = Len(Opening(st)) + Len(calls)
        /\ \A i \in 1..Len(front) :
               /\ i <= Len(Opening(st)) => i \in 1..Len(Opening(st)) /\ front[i] = Opening(st)[i]
               /\ i > Len(Opening(st)) => i - Len(Opening(st)) \in 1..Len(calls)
                                          /\ front[i] = calls[i - Len(Opening(st))]
    <3>1. IsJoin(EventKinds, Opening(st), calls, front)
      BY <2>1, Joined
    <3> QED
      BY <3>1, Zenon DEF IsJoin
  <2> HIDE DEF front
  <2>3. Len(Opening(st)) \in Nat
    BY <2>1
  <2>4. \A i \in 1..Len(front) : i <= Len(Opening(st)) => front[i] = "user"
    BY <2>2, Ends
  <2>5. \A i \in 1..Len(front) : i > Len(Opening(st)) => front[i] = "tool_call"
    BY <1>3, <2>2
  <2> QED
    BY <1>2, <1>3, <2>2, <2>3, <2>4, <2>5
<1> HIDE DEF front
<1>6. /\ whole \in Seq(EventKinds) /\ Len(whole) = Len(Opening(st)) + n + Len(Closing(st))
      /\ \A i \in 1..Len(whole) : whole[i] = KindAt(st, n, i)
  <2>1. /\ whole \in Seq(EventKinds) /\ Len(whole) = Len(front) + Len(Closing(st))
        /\ \A i \in 1..Len(whole) :
               /\ i <= Len(front) => i \in 1..Len(front) /\ whole[i] = front[i]
               /\ i > Len(front) => i - Len(front) \in 1..Len(Closing(st))
                                    /\ whole[i] = Closing(st)[i - Len(front)]
    <3>1. front \in Seq(EventKinds) /\ Closing(st) \in Seq(EventKinds)
      BY <1>5, Ends
    <3>2. IsJoin(EventKinds, front, Closing(st), whole)
      BY <3>1, Joined
    <3> QED
      BY <3>2, Zenon DEF IsJoin
  <2> HIDE DEF whole
  <2>2. Len(front) \in Nat /\ Len(Opening(st)) \in Nat
    BY <1>2, <1>5, Ends
  <2>3. \A i \in 1..Len(whole) : i <= Len(front) => whole[i] = KindAt(st, n, i)
    BY <1>2, <1>5, <2>1, <2>2 DEF KindAt
  <2>4. \A i \in 1..Len(whole) : i > Len(front) => whole[i] = KindAt(st, n, i)
    BY <1>2, <1>5, <2>1, <2>2, Ends DEF KindAt
  <2> QED
    BY <1>5, <2>1, <2>2, <2>3, <2>4
<1> HIDE DEF whole
<1>7. kinds = whole => Mirrors(st, n, events)
  BY <1>4, <1>6 DEF Mirrors
<1>8. Mirrors(st, n, events) => kinds = whole
  <2> SUFFICES ASSUME Mirrors(st, n, events) PROVE kinds = whole
    OBVIOUS
  <2>1. Len(kinds) = Len(whole) /\ \A i \in 1..Len(kinds) : kinds[i] = whole[i]
    BY <1>4, <1>6 DEF Mirrors
  <2> QED
    BY <1>4, <1>6, <2>1, SeqEqual
<1> QED
  BY <1>7, <1>8 DEF kinds, whole, front, calls, n

LEMMA MirrorNow ==
  ASSUME TypeOK
  PROVE  TranscriptMirrorsRun <=> Mirrors(status, Len(toolRows), transcript)
BY MirrorByIndex DEF TypeOK, RowsTyped, TranscriptMirrorsRun, Opening, Closing, Calls

LEMMA MirrorNext ==
  ASSUME TypeOK'
  PROVE  TranscriptMirrorsRun' <=> Mirrors(status', Len(toolRows'), transcript')
BY MirrorByIndex DEF TypeOK, RowsTyped, TranscriptMirrorsRun, Opening, Closing, Calls
\* A step that adds no event, and one that adds the next.
LEMMA MirrorStays ==
  ASSUME TypeOK, TypeOK', TranscriptMirrorsRun, UNCHANGED <<toolRows, transcript>>,
         status' = "none" <=> status = "none", status' = "completed" <=> status = "completed"
  PROVE  TranscriptMirrorsRun'
BY DEF TranscriptMirrorsRun

LEMMA EventAdded ==
  ASSUME NEW events \in Seq(Event), NEW kind \in EventKinds
  PROVE  /\ Len(AppendEvent(events, kind)) = Len(events) + 1
         /\ AppendEvent(events, kind)[Len(events) + 1].kind = kind
         /\ \A i \in 1..Len(events) : AppendEvent(events, kind)[i] = events[i]
<1> DEFINE event == [seq |-> NextSeq(events), kind |-> kind]
<1>1. event \in Event /\ event.kind = kind
  BY NextSeqZero DEF Event, EventKinds
<1> HIDE DEF event
<1>2. /\ Len(Append(events, event)) = Len(events) + 1
      /\ Append(events, event)[Len(events) + 1] = event
      /\ \A i \in 1..Len(events) : Append(events, event)[i] = events[i]
  BY <1>1
<1> QED
  BY <1>1, <1>2 DEF AppendEvent, event

LEMMA MirrorAdds ==
  ASSUME TypeOK, TypeOK', TranscriptMirrorsRun, NEW kind \in EventKinds,
         transcript' = AppendEvent(transcript, kind),
         \/ kind = "user" /\ status = "none" /\ status' \in {"queued", "started"}
               /\ Len(toolRows) = 0 /\ Len(toolRows') = 0
         \/ kind = "tool_call" /\ status = "started" /\ status' = "started"
               /\ Len(toolRows') = Len(toolRows) + 1
         \/ kind = "assistant" /\ status = "started" /\ status' = "completed"
               /\ Len(toolRows') = Len(toolRows)
  PROVE  TranscriptMirrorsRun'
<1> DEFINE n == Len(toolRows)
           m == Len(toolRows')
           size == Len(transcript)
<1>1. transcript \in Seq(Event) /\ n \in Nat /\ m \in Nat /\ size \in Nat
  BY DEF TypeOK, RowsTyped
<1>2. Mirrors(status, n, transcript)
  BY MirrorNow
<1>3. /\ Len(transcript') = size + 1 /\ transcript'[size + 1].kind = kind
      /\ \A i \in 1..size : transcript'[i] = transcript[i]
  BY <1>1, EventAdded
<1> HIDE DEF n, m, size
<1>4. size = Len(Opening(status)) + n + Len(Closing(status))
      /\ \A i \in 1..size : transcript[i].kind = KindAt(status, n, i)
  BY <1>2 DEF Mirrors, size
<1>5. /\ size + 1 = Len(Opening(status')) + m + Len(Closing(status'))
      /\ \A i \in 1..size : KindAt(status', m, i) = KindAt(status, n, i)
      /\ KindAt(status', m, size + 1) = kind
  <2>1. /\ Len(Opening(status)) = IF status = "none" THEN 0 ELSE 1
        /\ Len(Opening(status')) = IF status' = "none" THEN 0 ELSE 1
        /\ Len(Closing(status)) = IF status = "completed" THEN 1 ELSE 0
        /\ Len(Closing(status')) = IF status' = "completed" THEN 1 ELSE 0
    BY Ends
  <2>2. CASE kind = "user" /\ status = "none" /\ status' \in {"queued", "started"} /\ n = 0 /\ m = 0
    BY <1>1, <1>4, <2>1, <2>2 DEF KindAt
  <2>3. CASE kind = "tool_call" /\ status = "started" /\ status' = "started" /\ m = n + 1
    BY <1>1, <1>4, <2>1, <2>3 DEF KindAt
  <2>4. CASE kind = "assistant" /\ status = "started" /\ status' = "completed" /\ m = n
    BY <1>1, <1>4, <2>1, <2>4 DEF KindAt
  <2> QED
    BY <2>2, <2>3, <2>4 DEF n, m
<1>6. Mirrors(status', m, transcript')
  <2>1. \A i \in 1..(size + 1) : i = size + 1 \/ i \in 1..size
    BY <1>1
  <2> QED
    BY <1>3, <1>4, <1>5, <2>1 DEF Mirrors
<1> QED
  BY <1>6, MirrorNext DEF m
LEMMA MirrorKept ==
  ASSUME CoreInv, CoreInv', TrailInv, TranscriptMirrorsRun, [Next]_vars
  PROVE  TranscriptMirrorsRun'
<1>a. TypeOK /\ TypeOK' /\ PlaceInv
  BY DEF CoreInv
<1>b. Len(toolRows) = 0 \/ status # "none"
  BY DEF TrailInv
<1> USE DEF Working
<1>1. CASE Enqueue
  <2>1. /\ transcript' = AppendEvent(transcript, "user") /\ UNCHANGED toolRows
        /\ status = "none" /\ status' = "queued"
    BY <1>1 DEF Enqueue
  <2> QED
    BY <1>a, <1>b, <2>1, KindsAre, MirrorAdds
<1>2. CASE Begin
  <2>1. CASE Opened
    <3>1. CASE mode = "sync"
      <4>1. /\ transcript' = AppendEvent(transcript, "user") /\ UNCHANGED toolRows
            /\ status = "none" /\ status' = "started"
        BY <1>2, <1>a, <2>1, <3>1 DEF Begin, Opened, PlaceInv
      <4> QED
        BY <1>a, <1>b, <4>1, KindsAre, MirrorAdds
    <3>2. CASE mode # "sync"
      <4>1. UNCHANGED <<toolRows, transcript>> /\ status = "queued" /\ status' = "started"
        BY <1>2, <1>a, <2>1, <3>2 DEF Begin, Opened, TypeOK
      <4> QED
        BY <1>a, <4>1, MirrorStays
    <3> QED
      BY <3>1, <3>2
  <2>2. CASE UNCHANGED rows
    BY <1>a, <2>2, MirrorStays DEF rows
  <2> QED
    BY <1>2, <2>1, <2>2, Zenon DEF Begin
<1>3. CASE FirstCall
  BY <1>3, <1>a, MirrorStays DEF FirstCall, rows
<1>4. CASE FirstCallFails
  BY <1>4, <1>a, FailedAttempt, MirrorStays DEF FirstCallFails, rows
<1>5. CASE SendStarted
  BY <1>5, <1>a, MirrorStays DEF SendStarted, rows
<1>6. ASSUME NEW why, TurnDown(why) PROVE TranscriptMirrorsRun'
  BY <1>6, <1>a, MirrorStays DEF TurnDown, TxStopsCounted, TxStops, rows
<1>7. CASE ArgumentsInvalid
  BY <1>7, <1>a, MirrorStays DEF ArgumentsInvalid, TxFails, rows
<1>8. CASE ToolFails
  BY <1>8, <1>a, FailedAttempt, MirrorStays DEF ToolFails, rows
<1>9. CASE ToolReturns
  BY <1>9, <1>a, MirrorStays DEF ToolReturns, rows
<1>10. CASE RecordTool
  <2>1. pc = "record" /\ status = "started" /\ UNCHANGED status
    BY <1>10, <1>a, StatusAtWork DEF RecordTool, TxFails, rows
  <2>2. CASE UNCHANGED rows
    BY <1>a, <2>2, MirrorStays DEF rows
  <2>3. CASE /\ toolRows' = Append(toolRows, [tool |-> reply, output |-> output])
             /\ transcript' = AppendEvent(transcript, "tool_call")
    <3> DEFINE row == [tool |-> reply, output |-> output]
    <3>1. row \in ToolRow /\ toolRows \in Seq(ToolRow)
      BY <1>a, <2>1 DEF ToolInv, CoreInv, ToolRow, TypeOK, RowsTyped
    <3>2. toolRows' = Append(toolRows, row)
      BY <2>3
    <3> HIDE DEF row
    <3>3. Len(toolRows') = Len(toolRows) + 1
      BY <3>1, <3>2
    <3> QED
      BY <1>a, <2>1, <2>3, <3>3, KindsAre, MirrorAdds
  <2> QED
    BY <1>10, <2>2, <2>3, Zenon DEF RecordTool, TxFails
<1>11. CASE FastAnswer
  BY <1>11, <1>a, MirrorStays DEF FastAnswer, TxFails, rows
<1>12. CASE FollowCall
  BY <1>12, <1>a, MirrorStays DEF FollowCall, rows
<1>13. CASE FollowCallFails
  BY <1>13, <1>a, FailedAttempt, MirrorStays DEF FollowCallFails, rows
<1>14. CASE Conclude
  <2>1. UNCHANGED <<status, toolRows, transcript>>
    BY <1>14, Zenon DEF Conclude, TxStopsCounting, TxStops, TxFails, rows
  <2> QED
    BY <1>a, <2>1, MirrorStays
<1>15. CASE ExhaustBudget
  BY <1>15, <1>a, MirrorStays DEF ExhaustBudget, TxStopsCounted, TxStops, rows
<1>16. CASE AnswerWithoutTool
  <2>1. UNCHANGED <<status, toolRows, transcript>>
    BY <1>16, Zenon DEF AnswerWithoutTool, TxStopsCounting, TxStops, TxFails, rows
  <2> QED
    BY <1>a, <2>1, MirrorStays
<1>17. CASE LoopEnds
  BY <1>17, <1>a, MirrorStays DEF LoopEnds, rows
<1>18. CASE Finalize
  <2>1. pc = "final" /\ status = "started"
    BY <1>18, <1>a, StatusAtWork DEF Finalize
  <2>2. CASE UNCHANGED rows
    BY <1>a, <2>2, MirrorStays DEF rows
  <2>3. CASE status' = "completed" /\ AssistantEvent /\ UNCHANGED toolRows
    BY <1>a, <2>1, <2>3, KindsAre, MirrorAdds DEF AssistantEvent
  <2> QED
    BY <1>18, <2>2, <2>3, Zenon DEF Finalize, TxFails
<1>19. CASE SendMessage
  BY <1>19, <1>a, MirrorStays DEF SendMessage, rows
<1>20. CASE SendCompleted
  BY <1>20, <1>a, MirrorStays DEF SendCompleted, rows
<1>21. CASE Disconnect
  BY <1>21, <1>a, MirrorStays DEF Disconnect, rows
<1>22. CASE WorkerFailsRun
  <2>1. /\ status' = "failed" /\ status # "completed" /\ status # "none"
        /\ UNCHANGED <<toolRows, transcript>>
    BY <1>22, <1>a DEF WorkerFailsRun, Ended, PlaceInv
  <2> QED
    BY <1>a, <2>1, MirrorStays
<1>23. CASE UNCHANGED vars
  BY <1>23, <1>a, MirrorStays DEF vars, rows
<1> QED
  BY <1>1, <1>2, <1>3, <1>4, <1>5, <1>6, <1>7, <1>8, <1>9, <1>10, <1>11, <1>12, <1>13, <1>14,
     <1>15, <1>16, <1>17, <1>18, <1>19, <1>20, <1>21, <1>22, <1>23
  DEF Next, Step, NotRegistered, PolicyDenies

-----------------------------------------------------------------------------
LEMMA InitTrail == Init => TrailInv /\ TranscriptMirrorsRun
<1> SUFFICES ASSUME Init PROVE TrailInv /\ TranscriptMirrorsRun
  OBVIOUS
<1>1. \A x : Times(x, <<>>) = 0
  <2>1. \A x : {i \in DOMAIN <<>> : <<>>[i] = x} = {}
    OBVIOUS
  <2> QED
    BY <2>1, FS_EmptySet DEF Times
<1>2. [i \in DOMAIN <<>> |-> <<>>[i].output] = <<>>
  OBVIOUS
<1>3. TrailInv
  BY <1>1, <1>2 DEF Init, TrailInv, Blanks, Owed
<1>4. TranscriptMirrorsRun
  <2>1. TypeOK
    BY InitTyped
  <2>2. status = "none" /\ Len(toolRows) = 0 /\ Len(transcript) = 0
    BY DEF Init
  <2>3. Mirrors(status, Len(toolRows), transcript)
    BY <2>2, Ends DEF Mirrors
  <2> QED
    BY <2>1, <2>3, MirrorNow
<1> QED
  BY <1>3, <1>4

\* The whole invariant: the core and the trail.
THEOREM TrailInvariance == Spec => []IInv
<1>1. Init => IInv
  BY InitHolds, InitTrail DEF IInv
<1>2. IInv /\ [Next]_vars => IInv'
  BY NextHolds, TrailKept, MirrorKept DEF IInv
<1> QED
  BY <1>1, <1>2, PTL DEF Spec

\* In a completed run every tool call without evidence has one coverage gap and
\* one review item, whatever the model asked for and the tools returned.
THEOREM GapsEscalated == Spec => []EvidenceEscalated
<1>1. IInv => EvidenceEscalated
  <2> SUFFICES ASSUME IInv, status = "completed"
               PROVE  /\ Times("missing_evidence", gaps) = Blanks
                      /\ Times("coverage_gap", reviews) = Blanks
    BY DEF EvidenceEscalated
  <2>1. Owed = 0
    BY DEF IInv, CoreInv, PlaceInv, Working, Owed
  <2>2. Balanced /\ Blanks \in Nat
    BY CountsNat DEF IInv, CoreInv, TypeOK, TrailInv, Balanced
  <2> QED
    BY <2>1, <2>2 DEF Balanced
<1> QED
  BY <1>1, TrailInvariance, PTL

\* The transcript has one event for the user, one per tool row and one for the
\* answer of a completed run, in that order, for any number of tool calls.
THEOREM TranscriptMirrors == Spec => []TranscriptMirrorsRun
<1>1. IInv => TranscriptMirrorsRun
  BY DEF IInv
<1> QED
  BY <1>1, TrailInvariance, PTL
=============================================================================
