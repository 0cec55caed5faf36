--------------------------- MODULE AgentRunProofs ---------------------------
(***************************************************************************)
(* Proofs about AgentRun for any numbers of tool calls and of attempts,    *)
(* any tools, any tasks and drills, whether or not the client may leave.   *)
(* One lemma per conjunct of CoreInv has one step per action; the types of *)
(* the rows need ToolInv, the rest of the conjuncts need the types.        *)
(***************************************************************************)
EXTENDS AgentRun, TLAPS

-----------------------------------------------------------------------------
(***************************************************************************)
(* Types.                                                                  *)
(***************************************************************************)

LEMMA InitTyped == Init => TypeOK
<1> SUFFICES ASSUME Init PROVE TypeOK
  OBVIOUS
<1>1. NoText \in Texts
  BY AgentAssumption DEF Texts, NoText
<1>2. RowsTyped
  BY <1>1 DEF Init, RowsTyped
<1>3. LocalsTyped
  BY <1>1, AgentAssumption DEF Init, LocalsTyped, Places, Replies
<1>4. SeenTyped
  <2>1. hurt \in BOOLEAN
    BY Zenon DEF Init
  <2>2. stream \in Seq({"run_started", "message", "run_completed"})
    BY DEF Init
  <2> QED
    BY <2>1, <2>2 DEF Init, SeenTyped, Labels
<1> QED
  BY <1>2, <1>3, <1>4 DEF Init, TypeOK

\* Every event of a typed transcript has seq 0, so the next one gets 0 too.
LEMMA NextSeqZero ==
  ASSUME NEW t \in Seq(Event)
  PROVE  NextSeq(t) = 0
<1>1. CASE t = <<>>
  BY <1>1 DEF NextSeq
<1>2. CASE t # <<>>
  <2> DEFINE seqs == {t[i].seq : i \in DOMAIN t}
  <2>1. 1 \in DOMAIN t /\ \A i \in DOMAIN t : t[i] \in Event
    BY <1>2
  <2>2. \A i \in DOMAIN t : t[i].seq = 0
    BY <2>1 DEF Event
  <2>3. seqs = {0}
    BY <2>1, <2>2
  <2>4. MaxSeq(t) \in seqs
    <3>1. 0 \in seqs /\ \A i \in DOMAIN t : t[i].seq <= 0
      BY <2>2, <2>3
    <3> QED
      BY <3>1 DEF MaxSeq
  <2> QED
    BY <2>3, <2>4 DEF NextSeq
<1> QED
  BY <1>1, <1>2

LEMMA AppendTyped ==
  ASSUME RowsTyped, NEW kind \in {"user", "tool_call", "assistant"}
  PROVE  AppendEvent(transcript, kind) \in Seq(Event)
<1>1. [seq |-> NextSeq(transcript), kind |-> kind] \in Event
  BY NextSeqZero DEF RowsTyped, Event
<1> QED
  BY <1>1 DEF RowsTyped, AppendEvent

-----------------------------------------------------------------------------
(***************************************************************************)
(* What a step leaves alone keeps its type.                                *)
(***************************************************************************)
LEMMA SameRows == ASSUME RowsTyped, UNCHANGED rows PROVE RowsTyped'
BY DEF RowsTyped, rows

LEMMA SameLocals == ASSUME LocalsTyped, UNCHANGED locals, pc' \in Places PROVE LocalsTyped'
BY DEF LocalsTyped, locals

LEMMA CountsTyped ==
  ASSUME SeenTyped, CountNothing \/ CountGap \/ CountBoth
  PROVE  kpi' \in Nat /\ escalated' \in Nat
BY DEF SeenTyped, CountNothing, CountGap, CountBoth, counted

LEMMA SameSeen ==
  ASSUME SeenTyped, UNCHANGED seenBy, hurt' \in BOOLEAN, kpi' \in Nat, escalated' \in Nat
  PROVE  SeenTyped'
BY DEF SeenTyped, seenBy

LEMMA Kinds ==
  /\ Refusals \subseteq GapTypes \cap Triggers
  /\ "tool_not_registered" \in Refusals /\ "tool_policy_denied" \in Refusals
  /\ "tool_budget_exhausted" \in Refusals
  /\ "missing_evidence" \in GapTypes /\ "forced_gap" \in GapTypes
  /\ "coverage_gap" \in Triggers /\ "forced_drill" \in Triggers
BY DEF GapTypes, Triggers, Refusals

LEMMA EscalateTyped ==
  ASSUME RowsTyped, NEW gap \in GapTypes, NEW trigger \in Triggers, Escalate(gap, trigger)
  PROVE  gaps' \in Seq(GapTypes) /\ reviews' \in Seq(Triggers)
BY DEF Escalate, RowsTyped

LEMMA Observed ==
  ASSUME SeenTyped, NEW label \in Labels, Observe(label), outcome' \in Labels, UNCHANGED stream,
         hurt' \in BOOLEAN, kpi' \in Nat, escalated' \in Nat
  PROVE  SeenTyped'
<1>1. toolMetric' \in {"none"} \cup Labels
  BY DEF Observe
<1>2. streamMetric' \in {"none", "completed", "error"}
  BY DEF Observe, SeenTyped
<1> QED
  BY <1>1, <1>2 DEF SeenTyped

LEMMA Raised ==
  ASSUME TypeOK, Raise, hurt' \in BOOLEAN, kpi' \in Nat, escalated' \in Nat, RowsTyped'
  PROVE  TypeOK'
<1>1. UNCHANGED request /\ LocalsTyped'
  BY SameLocals DEF Raise, TypeOK, Places, Stopped
<1>2. SeenTyped'
  <2>1. Observe("error") /\ outcome' = "error" /\ UNCHANGED stream /\ "error" \in Labels
    BY DEF Raise, Labels
  <2> QED
    BY <2>1, Observed DEF TypeOK
<1> QED
  BY <1>1, <1>2 DEF TypeOK, request

LEMMA Stopping ==
  ASSUME TypeOK, NEW label \in Labels, Stops(label), kpi' \in Nat, escalated' \in Nat, RowsTyped'
  PROVE  TypeOK'
<1>1. CASE hurt' = TRUE /\ Raise
  BY <1>1, Raised
<1>2. CASE MayLeave /\ pc' = "cancelled" /\ outcome' = label /\ Observe(label)
           /\ UNCHANGED <<request, locals, stream, hurt>>
  <2>1. LocalsTyped'
    BY <1>2, SameLocals DEF TypeOK, Places, Stopped
  <2>2. hurt' \in BOOLEAN
    BY <1>2 DEF TypeOK, SeenTyped
  <2>3. SeenTyped'
    BY <1>2, <2>2, Observed DEF TypeOK
  <2> QED
    BY <1>2, <2>1, <2>3 DEF TypeOK, request
<1> QED
  BY <1>1, <1>2 DEF Stops

LEMMA AttemptTyped ==
  ASSUME TypeOK, NEW isDrill \in BOOLEAN, NEW flags \in SUBSET {"llm", "tool"},
         AttemptFails(isDrill, flags)
  PROVE  TypeOK'
<1>1. RowsTyped' /\ kpi' \in Nat /\ escalated' \in Nat
  BY SameRows, CountsTyped DEF AttemptFails, TypeOK, CountNothing
<1>2. hurt' \in BOOLEAN
  BY Zenon DEF AttemptFails, TypeOK, SeenTyped
<1>3. CASE LastAttempt
  BY <1>1, <1>2, <1>3, Raised DEF AttemptFails
<1>4. CASE ~LastAttempt
  <2>0. /\ attempt' = attempt + 1 /\ fired' = fired \cup flags
        /\ UNCHANGED <<pc, reply, used, output, exit, text>>
    BY <1>4 DEF AttemptFails, NextAttempt
  <2>1. LocalsTyped'
    BY <2>0 DEF TypeOK, LocalsTyped
  <2>2. SeenTyped'
    BY <1>1, <1>2, <1>4, SameSeen DEF AttemptFails, TypeOK
  <2>3. UNCHANGED request
    BY <1>4 DEF AttemptFails
  <2> QED
    BY <1>1, <2>1, <2>2, <2>3 DEF TypeOK, request
<1> QED
  BY <1>3, <1>4

LEMMA Going ==
  ASSUME TypeOK, UNCHANGED <<request, seenBy, hurt>>, kpi' \in Nat, escalated' \in Nat,
         RowsTyped', LocalsTyped'
  PROVE  TypeOK'
<1>1. SeenTyped'
  BY SameSeen DEF TypeOK, SeenTyped
<1> QED
  BY <1>1 DEF TypeOK, request

LEMMA FailingTyped ==
  ASSUME TypeOK, CountNothing, hurt' = TRUE, Raise, RowsTyped'
  PROVE  TypeOK'
BY Raised, CountsTyped DEF TypeOK

LEMMA TextTyped ==
  ASSUME TypeOK,
         NEW origin \in {"none", "reply", "snippet", "refused", "budget", "error"}
  PROVE  Text(origin) \in Texts
BY DEF TypeOK, LocalsTyped, Text, Texts

LEMMA NextTyped ==
  ASSUME TypeOK, ToolInv, [Next]_vars
  PROVE  TypeOK'
<1>1. CASE Enqueue
  <2>1. RowsTyped'
    BY <1>1, AppendTyped DEF Enqueue, TypeOK, RowsTyped
  <2>2. LocalsTyped'
    BY <1>1, SameLocals DEF Enqueue, TypeOK, LocalsTyped
  <2> QED
    BY <1>1, <2>1, <2>2, Going, CountsTyped DEF Enqueue, TypeOK, CountNothing
<1>2. CASE Begin
  <2>1. RowsTyped'
    BY <1>2, AppendTyped, SameRows DEF Begin, Opened, TypeOK, RowsTyped
  <2>2. LocalsTyped' /\ UNCHANGED request
    BY <1>2, SameLocals DEF Begin, Continue, TypeOK, Places, Stopped
  <2>3. kpi' \in Nat /\ escalated' \in Nat
    BY <1>2, CountsTyped DEF Begin, TypeOK
  <2>4. CASE Continue("first_call")
    BY <2>1, <2>2, <2>3, <2>4, Going DEF Continue
  <2>5. CASE hurt' = TRUE /\ UNCHANGED <<stream, outcome, toolMetric>>
             /\ streamMetric' = IF mode = "sync" THEN "error" ELSE streamMetric
    <3>1. SeenTyped'
      BY <2>3, <2>5 DEF TypeOK, SeenTyped
    <3> QED
      BY <2>1, <2>2, <3>1 DEF TypeOK, request
  <2> QED
    BY <1>2, <2>4, <2>5, Zenon DEF Begin
<1>3. CASE FirstCall
  <2>1. LocalsTyped'
    BY <1>3, TextTyped DEF FirstCall, Continue, TypeOK, LocalsTyped, Places
  <2> QED
    BY <1>3, <2>1, Going, SameRows, CountsTyped DEF FirstCall, Continue, TypeOK, CountNothing
<1>4. CASE FirstCallFails
  BY <1>4, AttemptTyped DEF FirstCallFails
<1>5. CASE SendStarted
  <2>1. LocalsTyped'
    BY <1>5, SameLocals DEF SendStarted, TypeOK, Places
  <2>2. SeenTyped'
    BY <1>5 DEF SendStarted, TypeOK, SeenTyped, counted
  <2> QED
    BY <1>5, <2>1, <2>2, SameRows DEF SendStarted, TypeOK, request
<1>6. ASSUME NEW why \in {"tool_not_registered", "tool_policy_denied"}, TurnDown(why)
      PROVE  TypeOK'
  <2>1. RowsTyped'
    <3>1. CASE UNCHANGED rows
      BY <3>1, SameRows DEF TypeOK
    <3>2. CASE Escalate(why, why) /\ UNCHANGED <<status, runText, toolRows, transcript, findings>>
      <4>1. why \in GapTypes /\ why \in Triggers
        BY DEF GapTypes, Triggers, Refusals
      <4>2. gaps' \in Seq(GapTypes) /\ reviews' \in Seq(Triggers)
        BY <3>2, <4>1, EscalateTyped DEF TypeOK
      <4> QED
        BY <3>2, <4>2 DEF TypeOK, RowsTyped
    <3> QED
      BY <1>6, <3>1, <3>2 DEF TurnDown, TxStopsCounted, TxStops
  <2>2. kpi' \in Nat /\ escalated' \in Nat
    BY <1>6, CountsTyped DEF TurnDown, TxStopsCounted, TxStops, TypeOK
  <2>3. CASE Stops(outcome)
    BY <2>1, <2>2, <2>3, Stopping DEF TypeOK, SeenTyped
  <2>4. CASE /\ exit' = why /\ text' = Text("refused") /\ Continue("loop")
             /\ UNCHANGED <<attempt, fired, reply, used, output>>
    <3>1. LocalsTyped'
      BY <2>4, TextTyped DEF Continue, TypeOK, LocalsTyped, Places
    <3> QED
      BY <2>1, <2>2, <2>4, <3>1, Going DEF Continue
  <2> QED
    BY <1>6, <2>3, <2>4 DEF TurnDown, TxStopsCounted, TxStops
<1>7. CASE ArgumentsInvalid
  BY <1>7, SameRows, FailingTyped DEF ArgumentsInvalid, TxFails, TypeOK
<1>8. CASE ToolFails
  BY <1>8, AttemptTyped DEF ToolFails
<1>9. CASE ToolReturns
  <2>1. output' \in Outputs /\ used' \in 0..MaxToolCalls
    BY <1>9, AgentAssumption DEF ToolReturns, OutputsOf, Outputs, MayInvoke, LoopOpen,
       TypeOK, LocalsTyped
  <2>2. LocalsTyped'
    BY <1>9, <2>1 DEF ToolReturns, Continue, TypeOK, LocalsTyped, Places
  <2> QED
    BY <1>9, <2>2, Going, SameRows, CountsTyped DEF ToolReturns, Continue, TypeOK, CountNothing
<1>10. CASE RecordTool
  <2>1. RowsTyped'
    <3>1. CASE UNCHANGED rows
      BY <3>1, SameRows DEF TypeOK
    <3>2. CASE /\ toolRows' = Append(toolRows, [tool |-> reply, output |-> output])
               /\ transcript' = AppendEvent(transcript, "tool_call")
               /\ UNCHANGED <<status, runText, findings, gaps, reviews>>
      <4>1. [tool |-> reply, output |-> output] \in ToolRow
        BY <1>10 DEF RecordTool, ToolInv, ToolRow
      <4>2. transcript' \in Seq(Event)
        BY <3>2, AppendTyped DEF TypeOK
      <4>3. toolRows' \in Seq(ToolRow)
        BY <3>2, <4>1 DEF TypeOK, RowsTyped
      <4> QED
        BY <3>2, <4>2, <4>3 DEF TypeOK, RowsTyped
    <3> QED
      BY <1>10, <3>1, <3>2 DEF RecordTool, TxFails
  <2>2. CASE CountNothing /\ hurt' = TRUE /\ Raise
    BY <2>1, <2>2, FailingTyped
  <2>3. CASE /\ CountNothing /\ UNCHANGED locals
             /\ Continue(IF output = "snippet" THEN "answer" ELSE "follow_call")
    <3>1. LocalsTyped'
      BY <2>3, SameLocals DEF Continue, TypeOK, Places
    <3> QED
      BY <2>1, <2>3, <3>1, Going, CountsTyped DEF Continue, TypeOK
  <2> QED
    BY <1>10, <2>2, <2>3 DEF RecordTool, TxFails
<1>11. CASE FastAnswer
  <2>1. Text("snippet") \in Texts
    BY TextTyped
  <2>2. RowsTyped'
    BY <1>11, <2>1, SameRows DEF FastAnswer, TxFails, TypeOK, RowsTyped
  <2>3. CASE CountNothing /\ hurt' = TRUE /\ Raise
    BY <2>2, <2>3, FailingTyped
  <2>4. CASE /\ CountNothing /\ text' = Text("snippet") /\ exit' = "fast_path"
             /\ Continue("loop") /\ UNCHANGED <<attempt, fired, reply, used, output>>
    <3>1. LocalsTyped'
      BY <2>1, <2>4 DEF Continue, TypeOK, LocalsTyped, Places
    <3> QED
      BY <2>2, <2>4, <3>1, Going, CountsTyped DEF Continue, TypeOK
  <2> QED
    BY <1>11, <2>3, <2>4 DEF FastAnswer, TxFails
<1>12. CASE FollowCall
  <2>1. LocalsTyped'
    BY <1>12, TextTyped DEF FollowCall, Continue, TypeOK, LocalsTyped, Places
  <2> QED
    BY <1>12, <2>1, Going, SameRows, CountsTyped DEF FollowCall, Continue, TypeOK, CountNothing
<1>13. CASE FollowCallFails
  BY <1>13, AttemptTyped DEF FollowCallFails
<1>14. CASE Conclude
  <2>1. RowsTyped'
    <3>1. CASE UNCHANGED rows
      BY <3>1, SameRows DEF TypeOK
    <3>2. CASE /\ findings' = WithFinding /\ EvidenceGap
               /\ UNCHANGED <<status, runText, toolRows, transcript>>
      <4>1. gaps' \in Seq(GapTypes) /\ reviews' \in Seq(Triggers)
        BY <3>2, EscalateTyped, Kinds DEF EvidenceGap, TypeOK, RowsTyped
      <4> QED
        BY <3>2, <4>1 DEF WithFinding, TypeOK, RowsTyped, LocalsTyped
    <3> QED
      BY <1>14, <3>1, <3>2 DEF Conclude, TxStopsCounting, TxStops, TxFails
  <2>2. kpi' \in Nat /\ escalated' \in Nat
    BY <1>14, CountsTyped DEF Conclude, TxStopsCounting, TxStops, TxFails, TypeOK
  <2>3. CASE Stops(outcome)
    BY <2>1, <2>2, <2>3, Stopping DEF TypeOK, SeenTyped
  <2>4. CASE CountNothing /\ hurt' = TRUE /\ Raise
    BY <2>1, <2>4, FailingTyped
  <2>5. CASE /\ exit' = IF reply = "finish" THEN "llm_finish" ELSE exit
             /\ Continue("loop") /\ UNCHANGED <<attempt, fired, reply, used, output, text>>
    <3>1. LocalsTyped'
      BY <2>5 DEF Continue, TypeOK, LocalsTyped, Places
    <3> QED
      BY <2>1, <2>2, <2>5, <3>1, Going DEF Continue
  <2> QED
    BY <1>14, <2>3, <2>4, <2>5, Zenon DEF Conclude, TxStopsCounting, TxStops, TxFails
<1>15. CASE ExhaustBudget
  <2>1. RowsTyped'
    <3>1. CASE UNCHANGED rows
      BY <3>1, SameRows DEF TypeOK
    <3>2. CASE /\ Escalate("tool_budget_exhausted", "tool_budget_exhausted")
               /\ UNCHANGED <<status, runText, toolRows, transcript, findings>>
      <4>1. gaps' \in Seq(GapTypes) /\ reviews' \in Seq(Triggers)
        BY <3>2, EscalateTyped, Kinds DEF TypeOK
      <4> QED
        BY <3>2, <4>1 DEF TypeOK, RowsTyped
    <3> QED
      BY <1>15, <3>1, <3>2 DEF ExhaustBudget, TxStopsCounted, TxStops
  <2>2. kpi' \in Nat /\ escalated' \in Nat
    BY <1>15, CountsTyped DEF ExhaustBudget, TxStopsCounted, TxStops, TypeOK
  <2>3. CASE Stops("budget_exhausted")
    BY <2>1, <2>2, <2>3, Stopping DEF Labels
  <2>4. CASE /\ text' = Text("budget") /\ outcome' = "budget_exhausted" /\ pc' = "final"
             /\ UNCHANGED <<request, attempt, fired, reply, used, output, exit,
                            stream, toolMetric, streamMetric, hurt>>
    <3>1. LocalsTyped'
      BY <2>4, TextTyped DEF TypeOK, LocalsTyped, Places
    <3>2. SeenTyped'
      BY <2>2, <2>4 DEF TypeOK, SeenTyped, Labels
    <3> QED
      BY <2>1, <2>4, <3>1, <3>2 DEF TypeOK, request
  <2> QED
    BY <1>15, <2>3, <2>4 DEF ExhaustBudget, TxStopsCounted, TxStops
<1>16. CASE AnswerWithoutTool
  <2>1. RowsTyped'
    <3>1. CASE UNCHANGED rows
      BY <3>1, SameRows DEF TypeOK
    <3>2. CASE /\ findings' = WithFinding
               /\ IF drill = "coverage_gap" THEN Escalate("forced_gap", "forced_drill")
                                            ELSE UNCHANGED <<gaps, reviews>>
               /\ UNCHANGED <<status, runText, toolRows, transcript>>
      <4>1. gaps' \in Seq(GapTypes) /\ reviews' \in Seq(Triggers)
        BY <3>2, EscalateTyped, Kinds DEF TypeOK, RowsTyped
      <4> QED
        BY <3>2, <4>1 DEF WithFinding, TypeOK, RowsTyped, LocalsTyped
    <3> QED
      BY <1>16, <3>1, <3>2 DEF AnswerWithoutTool, TxStopsCounting, TxStops, TxFails
  <2>2. kpi' \in Nat /\ escalated' \in Nat
    BY <1>16, CountsTyped DEF AnswerWithoutTool, TxStopsCounting, TxStops, TxFails, TypeOK
  <2>3. CASE Stops(outcome)
    BY <2>1, <2>2, <2>3, Stopping DEF TypeOK, SeenTyped
  <2>4. CASE CountNothing /\ hurt' = TRUE /\ Raise
    BY <2>1, <2>4, FailingTyped
  <2>5. CASE Continue("final") /\ UNCHANGED locals
    <3>1. LocalsTyped'
      BY <2>5, SameLocals DEF Continue, TypeOK, Places
    <3> QED
      BY <2>1, <2>2, <2>5, <3>1, Going DEF Continue
  <2> QED
    BY <1>16, <2>3, <2>4, <2>5, Zenon DEF AnswerWithoutTool, TxStopsCounting, TxStops, TxFails
<1>17. CASE LoopEnds
  <2>1. LocalsTyped'
    BY <1>17, SameLocals DEF LoopEnds, Continue, TypeOK, Places
  <2> QED
    BY <1>17, <2>1, SameRows, Going, CountsTyped DEF LoopEnds, Continue, TypeOK, CountNothing
<1>18. CASE Finalize
  <2>1. RowsTyped'
    BY <1>18, SameRows, AppendTyped DEF Finalize, AssistantEvent, TxFails, TypeOK, RowsTyped,
       LocalsTyped, Ended
  <2>2. CASE CountNothing /\ hurt' = TRUE /\ Raise
    BY <2>1, <2>2, FailingTyped
  <2>3. CASE CountNothing /\ Continue("send") /\ UNCHANGED locals
    <3>1. LocalsTyped'
      BY <2>3, SameLocals DEF Continue, TypeOK, Places
    <3> QED
      BY <2>1, <2>3, <3>1, Going, CountsTyped DEF Continue, TypeOK
  <2> QED
    BY <1>18, <2>2, <2>3, Zenon DEF Finalize, TxFails
<1>19. CASE SendMessage
  <2>1. SeenTyped'
    BY <1>19 DEF SendMessage, TypeOK, SeenTyped, counted
  <2>2. LocalsTyped'
    BY <1>19 DEF SendMessage, TypeOK, LocalsTyped, locals
  <2> QED
    BY <1>19, <2>1, <2>2, SameRows DEF SendMessage, TypeOK, request
<1>20. CASE SendCompleted
  <2>1. stream' \in Seq({"run_started", "message", "run_completed"})
    BY <1>20 DEF SendCompleted, TypeOK, SeenTyped
  <2>2. toolMetric' \in {"none"} \cup Labels /\ streamMetric' \in {"none", "completed", "error"}
    BY <1>20 DEF SendCompleted, Observe, TypeOK, SeenTyped
  <2>3. SeenTyped'
    BY <1>20, <2>1, <2>2 DEF SendCompleted, TypeOK, SeenTyped, counted
  <2>4. LocalsTyped'
    BY <1>20, SameLocals DEF SendCompleted, TypeOK, Places, Stopped
  <2> QED
    BY <1>20, <2>3, <2>4, SameRows DEF SendCompleted, TypeOK, request
<1>21. CASE Disconnect
  <2>1. toolMetric' \in {"none"} \cup Labels /\ streamMetric' \in {"none", "completed", "error"}
    BY <1>21 DEF Disconnect, Observe, TypeOK, SeenTyped
  <2>2. SeenTyped'
    BY <1>21, <2>1 DEF Disconnect, TypeOK, SeenTyped, counted
  <2>3. LocalsTyped'
    BY <1>21, SameLocals DEF Disconnect, TypeOK, Places, Stopped
  <2> QED
    BY <1>21, <2>2, <2>3, SameRows DEF Disconnect, TypeOK, request
<1>22. CASE WorkerFailsRun
  <2>1. RowsTyped'
    <3>1. Text("error") \in Texts
      BY TextTyped
    <3> QED
      BY <1>22, <3>1 DEF WorkerFailsRun, TypeOK, RowsTyped, Ended
  <2>2. LocalsTyped'
    BY <1>22 DEF WorkerFailsRun, TypeOK, LocalsTyped, locals
  <2> QED
    BY <1>22, <2>1, <2>2, Going, CountsTyped DEF WorkerFailsRun, TypeOK, CountNothing
<1>23. CASE UNCHANGED vars
  <2>1. RowsTyped'
    BY <1>23, SameRows DEF vars, TypeOK
  <2>2. LocalsTyped'
    BY <1>23 DEF vars, TypeOK, LocalsTyped, locals
  <2> QED
    BY <1>23, <2>1, <2>2, Going, CountsTyped DEF vars, TypeOK, CountNothing
<1> QED
  BY <1>1, <1>2, <1>3, <1>4, <1>5, <1>6, <1>7, <1>8, <1>9, <1>10, <1>11, <1>12, <1>13, <1>14,
     <1>15, <1>16, <1>17, <1>18, <1>19, <1>20, <1>21, <1>22, <1>23
  DEF Next, Step, NotRegistered, PolicyDenies

-----------------------------------------------------------------------------
(***************************************************************************)
(* The position of the generator, the run's status and the stream.         *)
(***************************************************************************)
LEMMA Leaving ==
  ASSUME NEW label, Stops(label)
  PROVE  /\ pc' = "raised" \/ (pc' = "cancelled" /\ mode = "sync")
         /\ UNCHANGED <<request, locals, stream>>
BY Zenon DEF Stops, Raise, MayLeave

LEMMA FailedAttempt ==
  ASSUME NEW isDrill \in BOOLEAN, NEW flags, AttemptFails(isDrill, flags)
  PROVE  /\ pc' \in {pc, "raised"}
         /\ UNCHANGED <<request, rows, counted, stream, reply, used, output, exit, text>>
BY DEF AttemptFails, Raise, locals, seenBy

LEMMA PlaceStays ==
  ASSUME TypeOK, PlaceInv, pc \in Working, UNCHANGED <<status, stream, mode>>,
         pc' \in {pc, "raised"} \/ (pc' = "cancelled" /\ mode = "sync")
  PROVE  PlaceInv'
BY DEF PlaceInv, Working, Before, TypeOK, SeenTyped

LEMMA PlaceKept ==
  ASSUME TypeOK, PlaceInv, [Next]_vars
  PROVE  PlaceInv'
<1> USE DEF Working, Before
<1>1. CASE Enqueue
  BY <1>1 DEF Enqueue, PlaceInv, request, seenBy
<1>2. CASE Begin
  BY <1>2, Zenon DEF Begin, Opened, Continue, PlaceInv, request, rows, seenBy
<1>3. CASE FirstCall
  BY <1>3 DEF FirstCall, Continue, PlaceInv, request, rows, seenBy
<1>4. CASE FirstCallFails
  BY <1>4, FailedAttempt, PlaceStays DEF FirstCallFails, request, rows
<1>5. CASE SendStarted
  BY <1>5 DEF SendStarted, PlaceInv, request, rows
<1>6. ASSUME NEW why, pc = "loop", TurnDown(why) PROVE PlaceInv'
  BY <1>6, Leaving, PlaceStays DEF TurnDown, TxStopsCounted, TxStops, Continue, request, rows, seenBy
<1>7. CASE ArgumentsInvalid
  BY <1>7, PlaceStays DEF ArgumentsInvalid, MayInvoke, TxFails, Raise, request, rows
<1>8. CASE ToolFails
  BY <1>8, FailedAttempt, PlaceStays DEF ToolFails, MayInvoke, request, rows
<1>9. CASE ToolReturns
  BY <1>9 DEF ToolReturns, MayInvoke, Continue, PlaceInv, request, rows, seenBy
<1>10. CASE RecordTool
  BY <1>10 DEF RecordTool, TxFails, Raise, Continue, PlaceInv, request, rows, seenBy
<1>11. CASE FastAnswer
  BY <1>11 DEF FastAnswer, TxFails, Raise, Continue, PlaceInv, request, rows, seenBy
<1>12. CASE FollowCall
  BY <1>12 DEF FollowCall, Continue, PlaceInv, request, rows, seenBy
<1>13. CASE FollowCallFails
  BY <1>13, FailedAttempt, PlaceStays DEF FollowCallFails, request, rows
<1>14. CASE Conclude
  BY <1>14, Leaving DEF Conclude, TxStopsCounting, TxStops, TxFails, Raise, Continue, PlaceInv,
     request, rows, seenBy
<1>15. CASE ExhaustBudget
  BY <1>15, Leaving DEF ExhaustBudget, TxStopsCounted, TxStops, PlaceInv, request, rows
<1>16. CASE AnswerWithoutTool
  BY <1>16, Leaving DEF AnswerWithoutTool, TxStopsCounting, TxStops, TxFails, Raise, Continue, PlaceInv,
     request, rows, seenBy
<1>17. CASE LoopEnds
  BY <1>17 DEF LoopEnds, Continue, PlaceInv, request, rows, seenBy
<1>18. CASE Finalize
  BY <1>18 DEF Finalize, TxFails, Raise, Continue, PlaceInv, request, rows, seenBy
<1>19. CASE SendMessage
  BY <1>19 DEF SendMessage, PlaceInv, request, rows
<1>20. CASE SendCompleted
  BY <1>20 DEF SendCompleted, PlaceInv, request, rows
<1>21. CASE Disconnect
  BY <1>21 DEF Disconnect, MayLeave, Stopped, PlaceInv, request, rows
<1>22. CASE WorkerFailsRun
  BY <1>22 DEF WorkerFailsRun, Ended, PlaceInv, request, seenBy
<1>23. CASE UNCHANGED vars
  BY <1>23 DEF vars, request, rows, seenBy, PlaceInv
<1> QED
  BY <1>1, <1>2, <1>3, <1>4, <1>5, <1>6, <1>7, <1>8, <1>9, <1>10, <1>11, <1>12, <1>13, <1>14,
     <1>15, <1>16, <1>17, <1>18, <1>19, <1>20, <1>21, <1>22, <1>23
  DEF Next, Step, NotRegistered, PolicyDenies

-----------------------------------------------------------------------------
(***************************************************************************)
(* Tool calls and their rows.                                              *)
(***************************************************************************)
LEMMA ToolsStay ==
  ASSUME ToolInv, ToolUseBounded, UNCHANGED <<toolRows, task, used>>,
         \/ UNCHANGED <<pc, reply, output>>
         \/ pc' \in {"raised", "cancelled"}
         \/ pc \notin {"record", "raised", "cancelled"} /\ pc' # "record"
  PROVE  ToolInv' /\ ToolUseBounded'
BY DEF ToolInv, ToolUseBounded, Allowed

LEMMA ToolsKept ==
  ASSUME TypeOK, ToolInv, ToolUseBounded, [Next]_vars
  PROVE  ToolInv' /\ ToolUseBounded'
<1>1. CASE Enqueue
  BY <1>1, ToolsStay DEF Enqueue, request, locals
<1>2. CASE Begin
  BY <1>2, ToolsStay DEF Begin, Opened, Continue, request, rows, locals
<1>3. CASE FirstCall
  BY <1>3, ToolsStay DEF FirstCall, Continue, request, rows
<1>4. CASE FirstCallFails
  BY <1>4, FailedAttempt, ToolsStay DEF FirstCallFails, request, rows
<1>5. CASE SendStarted
  BY <1>5, ToolsStay DEF SendStarted, request, rows, locals
<1>6. ASSUME NEW why, pc = "loop", TurnDown(why) PROVE ToolInv' /\ ToolUseBounded'
  BY <1>6, Leaving, ToolsStay DEF TurnDown, TxStopsCounted, TxStops, Continue, request, rows, locals
<1>7. CASE ArgumentsInvalid
  BY <1>7, ToolsStay DEF ArgumentsInvalid, MayInvoke, TxFails, Raise, request, rows, locals
<1>8. CASE ToolFails
  BY <1>8, FailedAttempt, ToolsStay DEF ToolFails, MayInvoke, request, rows
<1>9. CASE ToolReturns
  <2>1. /\ pc = "loop" /\ pc' = "record" /\ used' = used + 1 /\ used < MaxToolCalls
        /\ reply \in Registered /\ Allowed(reply) /\ output' \in OutputsOf(reply)
        /\ UNCHANGED <<task, reply, toolRows>>
    BY <1>9 DEF ToolReturns, MayInvoke, LoopOpen, Continue, request, rows
  <2>2. output' \in Outputs
    BY <2>1 DEF OutputsOf, Outputs
  <2>3. used \in Int /\ MaxToolCalls \in Int /\ Len(toolRows) \in Nat
    BY AgentAssumption DEF TypeOK, LocalsTyped, RowsTyped
  <2> QED
    BY <2>1, <2>2, <2>3 DEF ToolInv, ToolUseBounded, Allowed
<1>10. CASE RecordTool
  <2>1. /\ pc = "record" /\ pc' \in {"answer", "follow_call", "raised"}
        /\ UNCHANGED <<task, used>>
        /\ \/ toolRows' = Append(toolRows, [tool |-> reply, output |-> output])
           \/ UNCHANGED toolRows /\ pc' = "raised"
    BY <1>10 DEF RecordTool, TxFails, Raise, Continue, request, rows, locals
  <2>2. CASE UNCHANGED toolRows /\ pc' = "raised"
    BY <2>1, <2>2, ToolsStay
  <2>3. CASE toolRows' = Append(toolRows, [tool |-> reply, output |-> output])
    <3> DEFINE row == [tool |-> reply, output |-> output]
    <3>1. row \in ToolRow /\ row.tool = reply
      BY <2>1 DEF ToolInv, ToolRow
    <3> HIDE DEF row
    <3>2. /\ Len(toolRows') = Len(toolRows) + 1 /\ DOMAIN toolRows' = 1..Len(toolRows) + 1
          /\ \A i \in DOMAIN toolRows : toolRows'[i] = toolRows[i]
          /\ toolRows'[Len(toolRows) + 1] = row
      BY <2>3, <3>1 DEF row, TypeOK, RowsTyped
    <3>3. \A i \in DOMAIN toolRows' : toolRows'[i].tool \in Registered /\ Allowed(toolRows'[i].tool)
      <4> SUFFICES ASSUME NEW i \in DOMAIN toolRows'
                   PROVE  toolRows'[i].tool \in Registered /\ Allowed(toolRows'[i].tool)
        OBVIOUS
      <4>1. CASE i \in DOMAIN toolRows
        BY <3>2, <4>1 DEF ToolUseBounded
      <4>2. CASE i = Len(toolRows) + 1
        BY <2>1, <3>1, <3>2, <4>2 DEF ToolInv
      <4> QED
        BY <3>2, <4>1, <4>2 DEF TypeOK, RowsTyped
    <3>4. used \in Int /\ Len(toolRows) \in Nat
      BY AgentAssumption DEF TypeOK, LocalsTyped, RowsTyped
    <3> QED
      BY <2>1, <3>2, <3>3, <3>4 DEF ToolInv, ToolUseBounded, Allowed
  <2> QED
    BY <2>1, <2>2, <2>3
<1>11. CASE FastAnswer
  BY <1>11, ToolsStay DEF FastAnswer, TxFails, Raise, Continue, request, rows, locals
<1>12. CASE FollowCall
  BY <1>12, ToolsStay DEF FollowCall, Continue, request, rows
<1>13. CASE FollowCallFails
  BY <1>13, FailedAttempt, ToolsStay DEF FollowCallFails, request, rows
<1>14. CASE Conclude
  BY <1>14, Leaving, ToolsStay DEF Conclude, TxStopsCounting, TxStops, TxFails, Raise, Continue,
     request, rows, locals
<1>15. CASE ExhaustBudget
  BY <1>15, Leaving, ToolsStay DEF ExhaustBudget, TxStopsCounted, TxStops, request, rows, locals
<1>16. CASE AnswerWithoutTool
  BY <1>16, Leaving, ToolsStay DEF AnswerWithoutTool, TxStopsCounting, TxStops, TxFails, Raise,
     Continue, request, rows, locals
<1>17. CASE LoopEnds
  BY <1>17, ToolsStay DEF LoopEnds, Continue, request, rows, locals
<1>18. CASE Finalize
  BY <1>18, ToolsStay DEF Finalize, TxFails, Raise, Continue, request, rows, locals
<1>19. CASE SendMessage
  BY <1>19, ToolsStay DEF SendMessage, request, rows, locals
<1>20. CASE SendCompleted
  BY <1>20, ToolsStay DEF SendCompleted, request, rows, locals
<1>21. CASE Disconnect
  BY <1>21, ToolsStay DEF Disconnect, request, rows, locals
<1>22. CASE WorkerFailsRun
  BY <1>22, ToolsStay DEF WorkerFailsRun, request, locals
<1>23. CASE UNCHANGED vars
  BY <1>23, ToolsStay DEF vars, request, rows, locals
<1> QED
  BY <1>1, <1>2, <1>3, <1>4, <1>5, <1>6, <1>7, <1>8, <1>9, <1>10, <1>11, <1>12, <1>13, <1>14,
     <1>15, <1>16, <1>17, <1>18, <1>19, <1>20, <1>21, <1>22, <1>23
  DEF Next, Step, NotRegistered, PolicyDenies

-----------------------------------------------------------------------------
(***************************************************************************)
(* What stands behind the answer.                                          *)
(***************************************************************************)
LEMMA Appended ==
  ASSUME NEW S, NEW s \in Seq(S), NEW x \in S
  PROVE  Member(x, Append(s, x))
<1>1. Len(s) + 1 \in DOMAIN Append(s, x) /\ Append(s, x)[Len(s) + 1] = x
  OBVIOUS
<1> QED
  BY <1>1 DEF Member

\* A refusal is backed once its gap and its review item are on record.
LEMMA EscalateBacks ==
  ASSUME RowsTyped, NEW why \in Refusals, Escalate(why, why)
  PROVE  Member(why, gaps') /\ Member(why, reviews')
BY Appended, Kinds DEF Escalate, RowsTyped

LEMMA AnswerStays ==
  ASSUME Answered, UNCHANGED rows \/ status' # "completed"
  PROVE  Answered'
BY DEF Answered, Backed, Escalated, rows

LEMMA TextLeaves ==
  ASSUME pc' \in {"raised", "cancelled", "send", "done"}
  PROVE  TextInv'
BY DEF TextInv

LEMMA TextStays ==
  ASSUME TextInv, UNCHANGED <<pc, used, exit, text, findings, gaps, reviews>>
  PROVE  TextInv'
BY DEF TextInv, Backed, Escalated

LEMMA TextKept ==
  ASSUME TypeOK, TextInv, [Next]_vars
  PROVE  TextInv'
<1>1. CASE Enqueue
  BY <1>1, TextStays DEF Enqueue, locals
<1>2. CASE Begin
  BY <1>2, TextLeaves DEF Begin, Continue, TextInv, locals
<1>3. CASE FirstCall
  BY <1>3 DEF FirstCall, Continue, TextInv, Text
<1>4. CASE FirstCallFails
  BY <1>4, FailedAttempt, TextStays, TextLeaves DEF FirstCallFails, rows
<1>5. CASE SendStarted
  BY <1>5 DEF SendStarted, TextInv, locals
<1>6. ASSUME NEW why \in {"tool_not_registered", "tool_policy_denied"}, TurnDown(why)
      PROVE  TextInv'
  <2>1. CASE Stops(outcome)
    BY <2>1, Leaving, TextLeaves
  <2>2. CASE /\ Escalate(why, why) /\ exit' = why /\ text' = Text("refused") /\ Continue("loop")
    <3>1. Member(why, gaps') /\ Member(why, reviews')
      BY <2>2, EscalateBacks, Kinds DEF TypeOK
    <3>2. text'.origin = "refused"
      BY <2>2 DEF Text
    <3>3. Backed(text)'
      BY <3>1, <3>2 DEF Backed, Escalated
    <3> QED
      BY <2>2, <3>3 DEF TextInv, Continue
  <2> QED
    BY <1>6, <2>1, <2>2 DEF TurnDown, TxStopsCounted, TxStops
<1>7. CASE ArgumentsInvalid
  BY <1>7, TextLeaves DEF ArgumentsInvalid, TxFails, Raise
<1>8. CASE ToolFails
  BY <1>8, FailedAttempt, TextStays, TextLeaves DEF ToolFails, rows
<1>9. CASE ToolReturns
  BY <1>9 DEF ToolReturns, MayInvoke, LoopOpen, Continue, TextInv
<1>10. CASE RecordTool
  BY <1>10, TextLeaves DEF RecordTool, TxFails, Raise, Continue, TextInv, locals
<1>11. CASE FastAnswer
  <2>1. CASE Raise
    BY <2>1, TextLeaves DEF Raise
  <2>2. CASE /\ findings' = findings \cup {Text("snippet")} /\ text' = Text("snippet")
             /\ exit' = "fast_path" /\ Continue("loop")
    <3>1. text'.origin = "snippet" /\ text' \in findings'
      BY <2>2 DEF Text
    <3>2. Backed(text)'
      BY <3>1 DEF Backed
    <3> QED
      BY <2>2, <3>2 DEF TextInv, Continue
  <2> QED
    BY <1>11, <2>1, <2>2 DEF FastAnswer, TxFails
<1>12. CASE FollowCall
  BY <1>12 DEF FollowCall, Continue, TextInv, Text
<1>13. CASE FollowCallFails
  BY <1>13, FailedAttempt, TextStays, TextLeaves DEF FollowCallFails, rows
<1>14. CASE Conclude
  <2>1. CASE Raise
    BY <2>1, TextLeaves DEF Raise
  <2>2. CASE Stops(outcome)
    BY <2>2, Leaving, TextLeaves
  <2>3. CASE /\ pc = "conclude" /\ findings' = WithFinding /\ Continue("loop")
             /\ UNCHANGED text
    <3>1. text'.origin = "reply" /\ text' \in findings'
      BY <2>3 DEF TextInv, WithFinding
    <3>2. Backed(text)'
      BY <3>1 DEF Backed
    <3> QED
      BY <2>3, <3>1, <3>2 DEF TextInv, Continue
  <2> QED
    BY <1>14, <2>1, <2>2, <2>3, Zenon DEF Conclude, TxStopsCounting, TxStops, TxFails
<1>15. CASE ExhaustBudget
  <2>1. CASE Stops("budget_exhausted")
    BY <2>1, Leaving, TextLeaves
  <2>2. CASE /\ Escalate("tool_budget_exhausted", "tool_budget_exhausted")
             /\ text' = Text("budget") /\ pc' = "final"
    <3>1. Member("tool_budget_exhausted", gaps') /\ Member("tool_budget_exhausted", reviews')
      BY <2>2, EscalateBacks, Kinds DEF TypeOK
    <3>2. text'.origin = "budget"
      BY <2>2 DEF Text
    <3>3. Backed(text)'
      BY <3>1, <3>2 DEF Backed, Escalated
    <3> QED
      BY <2>2, <3>3 DEF TextInv
  <2> QED
    BY <1>15, <2>1, <2>2 DEF ExhaustBudget, TxStopsCounted, TxStops
<1>16. CASE AnswerWithoutTool
  <2>1. CASE Raise
    BY <2>1, TextLeaves DEF Raise
  <2>2. CASE Stops(outcome)
    BY <2>2, Leaving, TextLeaves
  <2>3. CASE /\ pc = "loop" /\ NeverAsked /\ findings' = WithFinding /\ Continue("final")
             /\ UNCHANGED locals
    <3>1. text'.origin = "reply" /\ text' \in findings'
      BY <2>3 DEF TextInv, NeverAsked, WithFinding, locals
    <3>2. Backed(text)'
      BY <3>1 DEF Backed
    <3> QED
      BY <2>3, <3>2 DEF TextInv, Continue
  <2> QED
    BY <1>16, <2>1, <2>2, <2>3, Zenon DEF AnswerWithoutTool, TxStopsCounting, TxStops, TxFails
<1>17. CASE LoopEnds
  <2>1. Backed(text)
    <3>1. CASE exit # "none"
      BY <1>17, <3>1 DEF LoopEnds, TextInv
    <3>2. CASE exit = "none"
      <4>1. used \in Int /\ MaxToolCalls \in Int
        BY AgentAssumption DEF TypeOK, LocalsTyped
      <4>2. reply = "finish" /\ used # 0
        BY <1>17, <3>2, <4>1 DEF LoopEnds, LoopOpen, OutOfBudget, NeverAsked
      <4> QED
        BY <1>17, <3>2, <4>2 DEF LoopEnds, TextInv, Backed
    <3> QED
      BY <3>1, <3>2
  <2>2. Backed(text)'
    BY <1>17, <2>1 DEF LoopEnds, rows, locals, Backed, Escalated
  <2> QED
    BY <1>17, <2>2 DEF LoopEnds, Continue, TextInv
<1>18. CASE Finalize
  BY <1>18, TextLeaves DEF Finalize, TxFails, Raise, Continue
<1>19. CASE SendMessage
  BY <1>19, TextStays DEF SendMessage, rows, locals
<1>20. CASE SendCompleted
  BY <1>20, TextLeaves DEF SendCompleted
<1>21. CASE Disconnect
  BY <1>21, TextLeaves DEF Disconnect
<1>22. CASE WorkerFailsRun
  BY <1>22, TextStays DEF WorkerFailsRun, locals
<1>23. CASE UNCHANGED vars
  BY <1>23, TextStays DEF vars, rows, locals
<1> QED
  BY <1>1, <1>2, <1>3, <1>4, <1>5, <1>6, <1>7, <1>8, <1>9, <1>10, <1>11, <1>12, <1>13, <1>14,
     <1>15, <1>16, <1>17, <1>18, <1>19, <1>20, <1>21, <1>22, <1>23
  DEF Next, Step, NotRegistered, PolicyDenies

\* Only the last transaction completes a run.
LEMMA StatusAtWork ==
  ASSUME PlaceInv, pc \in Working
  PROVE  status = "started"
BY DEF PlaceInv

LEMMA AnswerKept ==
  ASSUME TypeOK, PlaceInv, TextInv, Answered, [Next]_vars
  PROVE  Answered'
<1> USE DEF Working
<1>1. CASE Enqueue
  BY <1>1, AnswerStays DEF Enqueue
<1>2. CASE Begin
  BY <1>2, AnswerStays DEF Begin, Opened
<1>3. CASE FirstCall
  BY <1>3, AnswerStays DEF FirstCall
<1>4. CASE FirstCallFails
  BY <1>4, FailedAttempt, AnswerStays DEF FirstCallFails
<1>5. CASE SendStarted
  BY <1>5, AnswerStays DEF SendStarted
<1>6. ASSUME NEW why, pc = "loop", TurnDown(why) PROVE Answered'
  BY <1>6, AnswerStays, StatusAtWork DEF TurnDown, TxStopsCounted, TxStops
<1>7. CASE ArgumentsInvalid
  BY <1>7, AnswerStays DEF ArgumentsInvalid, TxFails
<1>8. CASE ToolFails
  BY <1>8, FailedAttempt, AnswerStays DEF ToolFails
<1>9. CASE ToolReturns
  BY <1>9, AnswerStays DEF ToolReturns
<1>10. CASE RecordTool
  BY <1>10, AnswerStays, StatusAtWork DEF RecordTool, TxFails
<1>11. CASE FastAnswer
  BY <1>11, AnswerStays, StatusAtWork DEF FastAnswer, TxFails
<1>12. CASE FollowCall
  BY <1>12, AnswerStays DEF FollowCall
<1>13. CASE FollowCallFails
  BY <1>13, FailedAttempt, AnswerStays DEF FollowCallFails
<1>14. CASE Conclude
  BY <1>14, AnswerStays, StatusAtWork DEF Conclude, TxStopsCounting, TxStops, TxFails
<1>15. CASE ExhaustBudget
  BY <1>15, AnswerStays, StatusAtWork DEF ExhaustBudget, TxStopsCounted, TxStops
<1>16. CASE AnswerWithoutTool
  BY <1>16, AnswerStays, StatusAtWork DEF AnswerWithoutTool, TxStopsCounting, TxStops, TxFails
<1>17. CASE LoopEnds
  BY <1>17, AnswerStays DEF LoopEnds
<1>18. CASE Finalize
  <2>1. CASE UNCHANGED rows
    BY <2>1, AnswerStays
  <2>2. CASE runText' = text /\ UNCHANGED <<findings, gaps, reviews>>
    <3>1. Backed(text)
      BY <1>18 DEF Finalize, TextInv
    <3> QED
      BY <2>2, <3>1 DEF Answered, Backed, Escalated
  <2> QED
    BY <1>18, <2>1, <2>2, Zenon DEF Finalize, TxFails
<1>19. CASE SendMessage
  BY <1>19, AnswerStays DEF SendMessage
<1>20. CASE SendCompleted
  BY <1>20, AnswerStays DEF SendCompleted
<1>21. CASE Disconnect
  BY <1>21, AnswerStays DEF Disconnect
<1>22. CASE WorkerFailsRun
  BY <1>22, AnswerStays DEF WorkerFailsRun
<1>23. CASE UNCHANGED vars
  BY <1>23, AnswerStays DEF vars
<1> QED
  BY <1>1, <1>2, <1>3, <1>4, <1>5, <1>6, <1>7, <1>8, <1>9, <1>10, <1>11, <1>12, <1>13, <1>14,
     <1>15, <1>16, <1>17, <1>18, <1>19, <1>20, <1>21, <1>22, <1>23
  DEF Next, Step, NotRegistered, PolicyDenies

-----------------------------------------------------------------------------
(***************************************************************************)
(* The outcome labels.                                                     *)
(***************************************************************************)
LEMMA LabelsRaise ==
  ASSUME TypeOK, LabelInv, pc \notin Stopped, Raise
  PROVE  LabelInv' /\ LabelsHonest'
BY DEF Raise, Observe, request, TypeOK, LabelInv, LabelsHonest, ObservedAsIs, Stopped

LEMMA LabelsCancelled ==
  ASSUME pc' = "cancelled"
  PROVE  LabelInv' /\ LabelsHonest'
BY DEF LabelInv, LabelsHonest, Stopped

LEMMA LabelsStop ==
  ASSUME TypeOK, LabelInv, pc \notin Stopped, NEW label, Stops(label)
  PROVE  LabelInv' /\ LabelsHonest'
BY LabelsRaise, LabelsCancelled, Zenon DEF Stops

LEMMA LabelsGo ==
  ASSUME LabelInv, pc \notin Stopped \cup {"final", "send"}, pc' \notin Stopped \cup {"send"},
         UNCHANGED <<outcome, toolMetric, streamMetric>>
  PROVE  LabelInv' /\ LabelsHonest'
BY DEF LabelInv, LabelsHonest, ObservedAsIs, Stopped

LEMMA LabelsAttempt ==
  ASSUME TypeOK, LabelInv, pc \notin Stopped \cup {"final", "send"},
         NEW isDrill \in BOOLEAN, NEW flags, AttemptFails(isDrill, flags)
  PROVE  LabelInv' /\ LabelsHonest'
<1>1. CASE LastAttempt
  BY <1>1, LabelsRaise DEF AttemptFails
<1>2. CASE ~LastAttempt
  BY <1>2, LabelsGo DEF AttemptFails, seenBy
<1> QED
  BY <1>1, <1>2

LEMMA LabelsKept ==
  ASSUME TypeOK, PlaceInv, LabelInv, LabelsHonest, [Next]_vars
  PROVE  LabelInv' /\ LabelsHonest'
<1> USE DEF Stopped
<1>1. CASE Enqueue
  BY <1>1 DEF Enqueue, LabelInv, LabelsHonest, ObservedAsIs, request, locals, seenBy
<1>2. CASE Begin
  <2>1. CASE Continue("first_call")
    BY <1>2, <2>1, LabelsGo DEF Begin, Continue, seenBy
  <2>2. CASE /\ pc' = "raised" /\ streamMetric' = IF mode = "sync" THEN "error" ELSE streamMetric
             /\ UNCHANGED <<request, outcome, toolMetric>>
    BY <1>2, <2>2 DEF Begin, LabelInv, LabelsHonest, ObservedAsIs, request
  <2> QED
    BY <1>2, <2>1, <2>2, Zenon DEF Begin
<1>3. CASE FirstCall
  BY <1>3, LabelsGo DEF FirstCall, Continue, seenBy
<1>4. CASE FirstCallFails
  BY <1>4, LabelsAttempt DEF FirstCallFails
<1>5. CASE SendStarted
  BY <1>5, LabelsGo DEF SendStarted
<1>6. ASSUME NEW why, pc = "loop", TurnDown(why) PROVE LabelInv' /\ LabelsHonest'
  <2>1. CASE Stops(outcome)
    BY <1>6, <2>1, LabelsStop
  <2>2. CASE Continue("loop")
    BY <1>6, <2>2, LabelsGo DEF Continue, seenBy
  <2> QED
    BY <1>6, <2>1, <2>2 DEF TurnDown, TxStopsCounted, TxStops
<1>7. CASE ArgumentsInvalid
  BY <1>7, LabelsRaise DEF ArgumentsInvalid, MayInvoke, TxFails
<1>8. CASE ToolFails
  BY <1>8, LabelsAttempt DEF ToolFails, MayInvoke
<1>9. CASE ToolReturns
  BY <1>9, LabelsGo DEF ToolReturns, MayInvoke, Continue, seenBy
<1>10. CASE RecordTool
  BY <1>10, LabelsRaise, LabelsGo DEF RecordTool, TxFails, Continue, seenBy
<1>11. CASE FastAnswer
  BY <1>11, LabelsRaise, LabelsGo DEF FastAnswer, TxFails, Continue, seenBy
<1>12. CASE FollowCall
  BY <1>12, LabelsGo DEF FollowCall, Continue, seenBy
<1>13. CASE FollowCallFails
  BY <1>13, LabelsAttempt DEF FollowCallFails
<1>14. CASE Conclude
  <2>1. CASE Raise
    BY <1>14, <2>1, LabelsRaise DEF Conclude
  <2>2. CASE Stops(outcome)
    BY <1>14, <2>2, LabelsStop DEF Conclude
  <2>3. CASE Continue("loop")
    BY <1>14, <2>3, LabelsGo DEF Conclude, Continue, seenBy
  <2> QED
    BY <1>14, <2>1, <2>2, <2>3, Zenon DEF Conclude, TxStopsCounting, TxStops, TxFails
<1>15. CASE ExhaustBudget
  <2>1. CASE Stops("budget_exhausted")
    BY <1>15, <2>1, LabelsStop DEF ExhaustBudget
  <2>2. CASE /\ text' = Text("budget") /\ outcome' = "budget_exhausted" /\ pc' = "final"
             /\ UNCHANGED <<toolMetric, streamMetric>>
    BY <1>15, <2>2 DEF ExhaustBudget, Text, LabelInv, LabelsHonest, ObservedAsIs
  <2> QED
    BY <1>15, <2>1, <2>2 DEF ExhaustBudget, TxStopsCounted, TxStops
<1>16. CASE AnswerWithoutTool
  <2>1. CASE Raise
    BY <1>16, <2>1, LabelsRaise DEF AnswerWithoutTool
  <2>2. CASE Stops(outcome)
    BY <1>16, <2>2, LabelsStop DEF AnswerWithoutTool
  <2>3. CASE Continue("final")
    BY <1>16, <2>3, LabelsGo DEF AnswerWithoutTool, Continue, seenBy
  <2> QED
    BY <1>16, <2>1, <2>2, <2>3, Zenon DEF AnswerWithoutTool, TxStopsCounting, TxStops, TxFails
<1>17. CASE LoopEnds
  BY <1>17, LabelsGo DEF LoopEnds, Continue, seenBy
<1>18. CASE Finalize
  <2>1. CASE Raise
    BY <1>18, <2>1, LabelsRaise DEF Finalize
  <2>2. CASE runText' = text /\ Continue("send") /\ UNCHANGED locals
    BY <1>18, <2>2 DEF Finalize, Continue, LabelInv, LabelsHonest, ObservedAsIs, seenBy, locals
  <2> QED
    BY <1>18, <2>1, <2>2, Zenon DEF Finalize, TxFails
<1>19. CASE SendMessage
  BY <1>19 DEF SendMessage, LabelInv, LabelsHonest, ObservedAsIs, rows, locals
<1>20. CASE SendCompleted
  BY <1>20 DEF SendCompleted, Observe, PlaceInv, LabelInv, LabelsHonest, ObservedAsIs,
     TypeOK, SeenTyped, Labels, request, rows
<1>21. CASE Disconnect
  BY <1>21, LabelsCancelled DEF Disconnect
<1>22. CASE WorkerFailsRun
  BY <1>22 DEF WorkerFailsRun, Ended, LabelInv, LabelsHonest, ObservedAsIs, request, seenBy
<1>23. CASE UNCHANGED vars
  BY <1>23 DEF vars, request, rows, locals, seenBy, LabelInv, LabelsHonest, ObservedAsIs
<1> QED
  BY <1>1, <1>2, <1>3, <1>4, <1>5, <1>6, <1>7, <1>8, <1>9, <1>10, <1>11, <1>12, <1>13, <1>14,
     <1>15, <1>16, <1>17, <1>18, <1>19, <1>20, <1>21, <1>22, <1>23
  DEF Next, Step, NotRegistered, PolicyDenies

-----------------------------------------------------------------------------
(***************************************************************************)
(* The counters.                                                           *)
(***************************************************************************)
Longer == Len(gaps') = Len(gaps) + 1 /\ Len(reviews') = Len(reviews) + 1
Even   == UNCHANGED <<gaps, reviews>>

LEMMA EscalateLonger ==
  ASSUME RowsTyped, NEW gap \in GapTypes, NEW trigger \in Triggers, Escalate(gap, trigger)
  PROVE  Longer
BY DEF Escalate, Longer, RowsTyped

LEMMA CountersStay ==
  ASSUME CountersHonest, Even, CountNothing,
         \/ pc \notin {"raised", "cancelled"}
         \/ UNCHANGED pc /\ (status' = "completed" => status = "completed")
  PROVE  CountersHonest'
BY DEF CountersHonest, Even, CountNothing, counted

LEMMA CountersEscalate ==
  ASSUME TypeOK, CountersHonest, pc \notin {"raised", "cancelled"}, Longer, CountBoth
  PROVE  CountersHonest'
<1>1. /\ kpi = Len(gaps) /\ escalated = Len(reviews)
      /\ Len(gaps) \in Nat /\ Len(reviews) \in Nat
  BY DEF CountersHonest, TypeOK, RowsTyped
<1>2. /\ kpi' = Len(gaps') /\ escalated' = Len(reviews')
      /\ Len(gaps') \in Nat /\ Len(reviews') \in Nat
  BY <1>1 DEF Longer, CountBoth
<1> QED
  BY <1>2 DEF CountersHonest

\* Inside a transaction that escalates, one counter may be ahead or behind by one.
LEMMA CountersStop ==
  ASSUME TypeOK, CountersHonest, pc \notin {"raised", "cancelled"}, status' # "completed",
         pc' \in {"raised", "cancelled"},
         \/ (Longer \/ Even) /\ CountGap
         \/ Longer /\ CountBoth
         \/ Even /\ (CountNothing \/ CountGap \/ CountBoth)
  PROVE  CountersHonest'
<1> USE DEF CountersHonest, TypeOK, RowsTyped, SeenTyped
<1>1. CASE Longer /\ CountGap
  BY <1>1 DEF Longer, CountGap
<1>2. CASE Longer /\ CountBoth
  BY <1>2 DEF Longer, CountBoth
<1>3. CASE Even /\ CountNothing
  BY <1>3 DEF Even, CountNothing, counted
<1>4. CASE Even /\ CountGap
  BY <1>4 DEF Even, CountGap
<1>5. CASE Even /\ CountBoth
  BY <1>5 DEF Even, CountBoth
<1> QED
  BY <1>1, <1>2, <1>3, <1>4, <1>5

LEMMA CountersKept ==
  ASSUME TypeOK, PlaceInv, CountersHonest, [Next]_vars
  PROVE  CountersHonest'
<1> USE DEF Even, Working
<1>1. CASE Enqueue
  BY <1>1, CountersStay DEF Enqueue, CountNothing, locals
<1>2. CASE Begin
  BY <1>2, CountersStay DEF Begin, Opened, rows
<1>3. CASE FirstCall
  BY <1>3, CountersStay DEF FirstCall, CountNothing, rows
<1>4. CASE FirstCallFails
  BY <1>4, FailedAttempt, CountersStay DEF FirstCallFails, CountNothing, rows
<1>5. CASE SendStarted
  BY <1>5, CountersStay DEF SendStarted, CountNothing, rows
<1>6. ASSUME NEW why \in {"tool_not_registered", "tool_policy_denied"}, pc = "loop", TurnDown(why)
      PROVE  CountersHonest'
  <2>1. status = "started"
    BY <1>6, StatusAtWork
  <2>2. CASE /\ Escalate(why, why) \/ UNCHANGED rows
             /\ status' = status /\ CountGap /\ Stops(outcome)
    <3>1. Longer \/ Even
      BY <2>2, EscalateLonger, Kinds DEF TypeOK, rows
    <3> QED
      BY <1>6, <2>1, <2>2, <3>1, Leaving, CountersStop
  <2>3. CASE Escalate(why, why) /\ CountBoth
    <3>1. Longer
      BY <2>3, EscalateLonger, Kinds DEF TypeOK
    <3> QED
      BY <1>6, <2>3, <3>1, CountersEscalate
  <2> QED
    BY <1>6, <2>2, <2>3 DEF TurnDown, TxStopsCounted, TxStops, rows
<1>7. CASE ArgumentsInvalid
  BY <1>7, CountersStay DEF ArgumentsInvalid, MayInvoke, TxFails, rows
<1>8. CASE ToolFails
  BY <1>8, FailedAttempt, CountersStay DEF ToolFails, MayInvoke, CountNothing, rows
<1>9. CASE ToolReturns
  BY <1>9, CountersStay DEF ToolReturns, MayInvoke, CountNothing, rows
<1>10. CASE RecordTool
  BY <1>10, CountersStay DEF RecordTool, TxFails, rows
<1>11. CASE FastAnswer
  BY <1>11, CountersStay DEF FastAnswer, TxFails, rows
<1>12. CASE FollowCall
  BY <1>12, CountersStay DEF FollowCall, CountNothing, rows
<1>13. CASE FollowCallFails
  BY <1>13, FailedAttempt, CountersStay DEF FollowCallFails, CountNothing, rows
<1>14. CASE Conclude
  <2>1. pc = "conclude" /\ status = "started"
    BY <1>14, StatusAtWork DEF Conclude
  <2>2. CASE CountNothing /\ ((output # "empty" /\ EvidenceGap) \/ UNCHANGED rows)
    BY <2>1, <2>2, CountersStay DEF EvidenceGap, rows
  <2>3. CASE output = "empty" /\ EvidenceGap /\ CountBoth
    <3>1. Longer
      BY <2>3, EscalateLonger, Kinds DEF EvidenceGap, TypeOK
    <3> QED
      BY <2>1, <2>3, <3>1, CountersEscalate
  <2>4. CASE UNCHANGED rows /\ (CountNothing \/ CountGap \/ CountBoth) /\ Stops(outcome)
    BY <2>1, <2>4, Leaving, CountersStop DEF rows
  <2> QED
    BY <1>14, <2>2, <2>3, <2>4, Zenon DEF Conclude, TxStopsCounting, TxStops, TxFails
<1>15. CASE ExhaustBudget
  <2>1. pc = "loop" /\ status = "started"
    BY <1>15, StatusAtWork DEF ExhaustBudget
  <2>2. CASE /\ Escalate("tool_budget_exhausted", "tool_budget_exhausted") \/ UNCHANGED rows
             /\ status' = status /\ CountGap /\ Stops("budget_exhausted")
    <3>1. Longer \/ Even
      BY <2>2, EscalateLonger, Kinds DEF TypeOK, rows
    <3> QED
      BY <2>1, <2>2, <3>1, Leaving, CountersStop
  <2>3. CASE Escalate("tool_budget_exhausted", "tool_budget_exhausted") /\ CountBoth
    <3>1. Longer
      BY <2>3, EscalateLonger, Kinds DEF TypeOK
    <3> QED
      BY <2>1, <2>3, <3>1, CountersEscalate
  <2> QED
    BY <1>15, <2>2, <2>3 DEF ExhaustBudget, TxStopsCounted, TxStops, rows
<1>16. CASE AnswerWithoutTool
  <2>1. pc = "loop" /\ status = "started"
    BY <1>16, StatusAtWork DEF AnswerWithoutTool
  <2>2. CASE CountNothing /\ (Even \/ UNCHANGED rows)
    BY <2>1, <2>2, CountersStay DEF rows
  <2>3. CASE Escalate("forced_gap", "forced_drill") /\ CountBoth
    <3>1. Longer
      BY <2>3, EscalateLonger, Kinds DEF TypeOK
    <3> QED
      BY <2>1, <2>3, <3>1, CountersEscalate
  <2>4. CASE UNCHANGED rows /\ (CountNothing \/ CountGap \/ CountBoth) /\ Stops(outcome)
    BY <2>1, <2>4, Leaving, CountersStop DEF rows
  <2> QED
    BY <1>16, <2>2, <2>3, <2>4, Zenon DEF AnswerWithoutTool, TxStopsCounting, TxStops, TxFails
<1>17. CASE LoopEnds
  BY <1>17, CountersStay DEF LoopEnds, CountNothing, rows
<1>18. CASE Finalize
  BY <1>18, CountersStay DEF Finalize, TxFails, rows
<1>19. CASE SendMessage
  BY <1>19, CountersStay DEF SendMessage, CountNothing, rows
<1>20. CASE SendCompleted
  BY <1>20, CountersStay DEF SendCompleted, CountNothing, rows
<1>21. CASE Disconnect
  BY <1>21, CountersStay DEF Disconnect, Stopped, CountNothing, rows
<1>22. CASE WorkerFailsRun
  BY <1>22, CountersStay DEF WorkerFailsRun, CountNothing, locals
<1>23. CASE UNCHANGED vars
  BY <1>23, CountersStay DEF vars, CountNothing, rows
<1> QED
  BY <1>1, <1>2, <1>3, <1>4, <1>5, <1>6, <1>7, <1>8, <1>9, <1>10, <1>11, <1>12, <1>13, <1>14,
     <1>15, <1>16, <1>17, <1>18, <1>19, <1>20, <1>21, <1>22, <1>23
  DEF Next, Step, NotRegistered, PolicyDenies

-----------------------------------------------------------------------------
(***************************************************************************)
(* Drills and attempts.                                                    *)
(***************************************************************************)
Drilled == DrillInv /\ OnceDrillsAbsorbed

LEMMA DrillStays ==
  ASSUME Drilled, UNCHANGED <<pc, attempt, drill, fired, hurt>>
  PROVE  Drilled'
BY DEF Drilled, DrillInv, OnceDrillsAbsorbed

LEMMA NoAttempts ==
  ASSUME attempt' = 0, pc' # "raised"
  PROVE  Drilled'
BY DEF Drilled, DrillInv, OnceDrillsAbsorbed

\* Positions after the attempts, and the one whose attempts no drill spoils.
LEMMA NoDrillThere ==
  ASSUME pc' \in {"follow_call", "final", "send", "done", "cancelled"}
  PROVE  Drilled'
BY DEF Drilled, DrillInv, OnceDrillsAbsorbed

LEMMA HurtRaise ==
  ASSUME hurt' = TRUE, pc' = "raised"
  PROVE  Drilled'
<1>1. DrillInv'
  BY DEF DrillInv
<1>2. OnceDrillsAbsorbed'
  BY Zenon DEF OnceDrillsAbsorbed
<1> QED
  BY <1>1, <1>2 DEF Drilled

LEMMA DrillStops ==
  ASSUME NEW label, Stops(label)
  PROVE  Drilled'
<1>1. CASE hurt' = TRUE /\ Raise
  BY <1>1, HurtRaise DEF Raise
<1>2. CASE pc' = "cancelled"
  BY <1>2, NoDrillThere
<1> QED
  BY <1>1, <1>2, Zenon DEF Stops

LEMMA FirstCallDrilled ==
  ASSUME TypeOK, Drilled, FirstCallFails
  PROVE  Drilled'
<1>1. CASE ~DrillHitsLLM
  <2>1. AttemptFails(FALSE, {})
    BY <1>1 DEF FirstCallFails
  <2>2. hurt' = TRUE
    BY <2>1 DEF AttemptFails
  <2>3. CASE pc' = "raised"
    BY <2>2, <2>3, HurtRaise
  <2>4. CASE pc' = "first_call"
    BY <2>2, <2>4 DEF Drilled, DrillInv, OnceDrillsAbsorbed
  <2> QED
    BY <2>1, <2>3, <2>4, FailedAttempt DEF FirstCallFails
<1>2. CASE DrillHitsLLM
  <2> DEFINE flags == IF drill \in OnceLLM THEN {"llm"} ELSE {}
  <2>1. pc = "first_call" /\ AttemptFails(TRUE, flags)
    BY <1>2 DEF FirstCallFails
  <2>2. hurt' = hurt /\ UNCHANGED drill
    BY <2>1, FailedAttempt DEF AttemptFails, request
  <2>3. CASE LastAttempt
    <3>1. pc' = "raised"
      BY <2>1, <2>3 DEF AttemptFails, Raise
    <3>2. MaxRetries >= 2 => attempt > 0
      BY <2>3, AgentAssumption DEF LastAttempt, TypeOK, LocalsTyped
    <3>3. MaxRetries >= 2 /\ ~hurt => drill \in PermanentLLM
      BY <1>2, <2>1, <3>2 DEF DrillHitsLLM, Drilled, DrillInv
    <3> QED
      BY <2>2, <3>1, <3>3 DEF Drilled, DrillInv, OnceDrillsAbsorbed
  <2>4. CASE ~LastAttempt
    <3>1. pc' = "first_call" /\ fired' = fired \cup flags
      BY <2>1, <2>4 DEF AttemptFails
    <3>2. drill \in PermanentLLM \/ (drill \in OnceLLM /\ "llm" \in fired')
      BY <1>2, <3>1 DEF DrillHitsLLM
    <3> QED
      BY <2>2, <3>1, <3>2 DEF Drilled, DrillInv, OnceDrillsAbsorbed
  <2> QED
    BY <2>3, <2>4
<1> QED
  BY <1>1, <1>2

LEMMA ToolDrilled ==
  ASSUME TypeOK, Drilled, ToolFails
  PROVE  Drilled'
<1>1. CASE ~DrillHitsTool
  <2>1. pc = "loop" /\ AttemptFails(FALSE, {})
    BY <1>1 DEF ToolFails, MayInvoke
  <2>2. hurt' = TRUE
    BY <2>1 DEF AttemptFails
  <2>3. CASE pc' = "raised"
    BY <2>2, <2>3, HurtRaise
  <2>4. CASE pc' = "loop"
    BY <2>2, <2>4 DEF Drilled, DrillInv, OnceDrillsAbsorbed
  <2> QED
    BY <2>1, <2>3, <2>4, FailedAttempt
<1>2. CASE DrillHitsTool
  <2> DEFINE flags == IF drill \in OnceTool THEN {"tool"} ELSE {}
  <2>1. pc = "loop" /\ AttemptFails(TRUE, flags)
    BY <1>2 DEF ToolFails, MayInvoke
  <2>2. hurt' = hurt /\ UNCHANGED drill
    BY <2>1, FailedAttempt DEF AttemptFails, request
  <2>3. CASE LastAttempt
    <3>1. pc' = "raised"
      BY <2>1, <2>3 DEF AttemptFails, Raise
    <3>2. MaxRetries >= 2 => attempt > 0
      BY <2>3, AgentAssumption DEF LastAttempt, TypeOK, LocalsTyped
    <3>3. MaxRetries >= 2 /\ ~hurt => drill \in PermanentTool
      BY <1>2, <2>1, <3>2 DEF DrillHitsTool, Drilled, DrillInv
    <3> QED
      BY <2>2, <3>1, <3>3 DEF Drilled, DrillInv, OnceDrillsAbsorbed
  <2>4. CASE ~LastAttempt
    <3>1. pc' = "loop" /\ fired' = fired \cup flags
      BY <2>1, <2>4 DEF AttemptFails
    <3>2. drill \in PermanentTool \/ (drill \in OnceTool /\ "tool" \in fired')
      BY <1>2, <3>1 DEF DrillHitsTool
    <3> QED
      BY <2>2, <3>1, <3>2 DEF Drilled, DrillInv, OnceDrillsAbsorbed
  <2> QED
    BY <2>3, <2>4
<1> QED
  BY <1>1, <1>2

LEMMA DrillKept ==
  ASSUME TypeOK, Drilled, [Next]_vars
  PROVE  Drilled'
<1>1. CASE Enqueue
  BY <1>1, DrillStays DEF Enqueue, request, locals
<1>2. CASE Begin
  <2>1. CASE Continue("first_call") /\ UNCHANGED locals
    BY <1>2, <2>1, NoAttempts DEF Begin, Continue, Drilled, DrillInv, locals
  <2>2. CASE hurt' = TRUE /\ pc' = "raised"
    BY <2>2, HurtRaise
  <2> QED
    BY <1>2, <2>1, <2>2, Zenon DEF Begin
<1>3. CASE FirstCall
  BY <1>3, NoAttempts DEF FirstCall, Continue
<1>4. CASE FirstCallFails
  BY <1>4, FirstCallDrilled
<1>5. CASE SendStarted
  BY <1>5, NoAttempts DEF SendStarted, Drilled, DrillInv, locals
<1>6. ASSUME NEW why, pc = "loop", TurnDown(why) PROVE Drilled'
  <2>1. CASE Stops(outcome)
    BY <2>1, DrillStops
  <2>2. CASE Continue("loop") /\ UNCHANGED <<attempt, fired>>
    BY <1>6, <2>2, DrillStays DEF Continue, request
  <2> QED
    BY <1>6, <2>1, <2>2 DEF TurnDown, TxStopsCounted, TxStops
<1>7. CASE ArgumentsInvalid
  BY <1>7, HurtRaise DEF ArgumentsInvalid, TxFails, Raise
<1>8. CASE ToolFails
  BY <1>8, ToolDrilled
<1>9. CASE ToolReturns
  BY <1>9, NoAttempts DEF ToolReturns, Continue
<1>10. CASE RecordTool
  <2>1. CASE hurt' = TRUE /\ Raise
    BY <2>1, HurtRaise DEF Raise
  <2>2. CASE pc' \in {"answer", "follow_call"} /\ UNCHANGED locals
    BY <1>10, <2>2, NoAttempts DEF RecordTool, Drilled, DrillInv, locals
  <2> QED
    BY <1>10, <2>1, <2>2 DEF RecordTool, TxFails, Continue
<1>11. CASE FastAnswer
  <2>1. CASE hurt' = TRUE /\ Raise
    BY <2>1, HurtRaise DEF Raise
  <2>2. CASE Continue("loop") /\ UNCHANGED attempt
    BY <1>11, <2>2, NoAttempts DEF FastAnswer, Continue, Drilled, DrillInv
  <2> QED
    BY <1>11, <2>1, <2>2 DEF FastAnswer, TxFails
<1>12. CASE FollowCall
  BY <1>12, NoAttempts DEF FollowCall, Continue
<1>13. CASE FollowCallFails
  <2>1. pc = "follow_call" /\ AttemptFails(FALSE, {})
    BY <1>13 DEF FollowCallFails
  <2>2. hurt' = TRUE
    BY <2>1 DEF AttemptFails
  <2> QED
    BY <2>1, <2>2, FailedAttempt, HurtRaise, NoDrillThere
<1>14. CASE Conclude
  <2>1. CASE hurt' = TRUE /\ Raise
    BY <2>1, HurtRaise DEF Raise
  <2>2. CASE Stops(outcome)
    BY <2>2, DrillStops
  <2>3. CASE Continue("loop") /\ UNCHANGED attempt
    BY <1>14, <2>3, NoAttempts DEF Conclude, Continue, Drilled, DrillInv
  <2> QED
    BY <1>14, <2>1, <2>2, <2>3, Zenon DEF Conclude, TxStopsCounting, TxStops, TxFails
<1>15. CASE ExhaustBudget
  BY <1>15, DrillStops, NoDrillThere DEF ExhaustBudget, TxStopsCounted, TxStops
<1>16. CASE AnswerWithoutTool
  <2>1. CASE hurt' = TRUE /\ Raise
    BY <2>1, HurtRaise DEF Raise
  <2>2. CASE Stops(outcome)
    BY <2>2, DrillStops
  <2>3. CASE Continue("final")
    BY <2>3, NoDrillThere DEF Continue
  <2> QED
    BY <1>16, <2>1, <2>2, <2>3, Zenon DEF AnswerWithoutTool, TxStopsCounting, TxStops, TxFails
<1>17. CASE LoopEnds
  BY <1>17, NoDrillThere DEF LoopEnds, Continue
<1>18. CASE Finalize
  <2>1. CASE hurt' = TRUE /\ Raise
    BY <2>1, HurtRaise DEF Raise
  <2>2. CASE Continue("send")
    BY <2>2, NoDrillThere DEF Continue
  <2> QED
    BY <1>18, <2>1, <2>2, Zenon DEF Finalize, TxFails
<1>19. CASE SendMessage
  BY <1>19, NoDrillThere DEF SendMessage
<1>20. CASE SendCompleted
  BY <1>20, NoDrillThere DEF SendCompleted
<1>21. CASE Disconnect
  BY <1>21, NoDrillThere DEF Disconnect
<1>22. CASE WorkerFailsRun
  BY <1>22, DrillStays DEF WorkerFailsRun, request, locals
<1>23. CASE UNCHANGED vars
  BY <1>23, DrillStays DEF vars, request, locals
<1> QED
  BY <1>1, <1>2, <1>3, <1>4, <1>5, <1>6, <1>7, <1>8, <1>9, <1>10, <1>11, <1>12, <1>13, <1>14,
     <1>15, <1>16, <1>17, <1>18, <1>19, <1>20, <1>21, <1>22, <1>23
  DEF Next, Step, NotRegistered, PolicyDenies

-----------------------------------------------------------------------------
LEMMA InitHolds == Init => CoreInv
<1> SUFFICES ASSUME Init PROVE CoreInv
  OBVIOUS
<1>1. TypeOK
  BY InitTyped
<1>2. PlaceInv
  BY DEF Init, PlaceInv, Working, Before
<1>3. ToolInv /\ ToolUseBounded
  <2>1. pc = "begin" /\ used = 0 /\ Len(toolRows) = 0 /\ DOMAIN toolRows = {}
    BY DEF Init
  <2> QED
    BY <2>1, AgentAssumption DEF ToolInv, ToolUseBounded
<1>4. TextInv /\ Answered
  BY DEF Init, TextInv, Answered
<1>5. LabelInv /\ LabelsHonest
  BY DEF Init, LabelInv, LabelsHonest, ObservedAsIs
<1>6. CountersHonest
  <2>1. kpi = 0 /\ escalated = 0 /\ Len(gaps) = 0 /\ Len(reviews) = 0
    BY DEF Init
  <2> QED
    BY <2>1 DEF CountersHonest
<1>7. DrillInv /\ OnceDrillsAbsorbed
  BY DEF Init, DrillInv, OnceDrillsAbsorbed
<1>8. StreamHonest
  BY <1>2 DEF PlaceInv, StreamHonest
<1> QED
  BY <1>1, <1>2, <1>3, <1>4, <1>5, <1>6, <1>7, <1>8 DEF CoreInv

LEMMA NextHolds == CoreInv /\ [Next]_vars => CoreInv'
<1> SUFFICES ASSUME CoreInv, [Next]_vars PROVE CoreInv'
  OBVIOUS
<1>1. TypeOK' /\ PlaceInv'
  BY NextTyped, PlaceKept DEF CoreInv
<1>2. ToolInv' /\ ToolUseBounded'
  BY ToolsKept DEF CoreInv
<1>3. TextInv' /\ Answered'
  BY TextKept, AnswerKept DEF CoreInv
<1>4. LabelInv' /\ LabelsHonest'
  BY LabelsKept DEF CoreInv
<1>5. CountersHonest'
  BY CountersKept DEF CoreInv
<1>6. DrillInv' /\ OnceDrillsAbsorbed'
  BY DrillKept DEF CoreInv, Drilled
<1>7. StreamHonest'
  BY <1>1 DEF PlaceInv, StreamHonest
<1> QED
  BY <1>1, <1>2, <1>3, <1>4, <1>5, <1>6, <1>7 DEF CoreInv

\* The inductive invariant holds throughout every run of the agent.
THEOREM Invariance == Spec => []CoreInv
  BY InitHolds, NextHolds, PTL DEF Spec

\* Every variable keeps its type.
THEOREM TypeCorrect == Spec => []TypeOK
<1>1. CoreInv => TypeOK
  BY DEF CoreInv
<1> QED
  BY <1>1, Invariance, PTL

\* At most MaxToolCalls tools run, each of them registered and allowed for the
\* task, and all but the one in flight are on record, whatever the model asks
\* for and wherever the run stops.
THEOREM ToolUse == Spec => []ToolUseBounded
<1>1. CoreInv => ToolUseBounded
  BY DEF CoreInv
<1> QED
  BY <1>1, Invariance, PTL

\* The answer of a completed run is the claim of a recorded finding, or a refusal
\* that is on record as a gap with a review item.
THEOREM AnswerOnRecord == Spec => []Answered
<1>1. CoreInv => Answered
  BY DEF CoreInv
<1> QED
  BY <1>1, Invariance, PTL

\* A client that saw the answer finds the run completed.
THEOREM StreamedIsDurable == Spec => []StreamHonest
<1>1. CoreInv => StreamHonest
  BY DEF CoreInv
<1> QED
  BY <1>1, Invariance, PTL

\* Unless the client left, the outcome labels tell what became of the run.
THEOREM LabelsTrue == Spec => []LabelsHonest
<1>1. CoreInv => LabelsHonest
  BY DEF CoreInv
<1> QED
  BY <1>1, Invariance, PTL

\* The counters of gaps and escalations agree with the rows, but for one of a
\* run that stopped inside a transaction.
THEOREM CountersTrue == Spec => []CountersHonest
<1>1. CoreInv => CountersHonest
  BY DEF CoreInv
<1> QED
  BY <1>1, Invariance, PTL

\* The retry absorbs a drill that fails once, for any number of attempts from two.
THEOREM DrillsAbsorbed == Spec => []OnceDrillsAbsorbed
<1>1. CoreInv => OnceDrillsAbsorbed
  BY DEF CoreInv
<1> QED
  BY <1>1, Invariance, PTL

-----------------------------------------------------------------------------
(***************************************************************************)
(* The run's life cycle.                                                   *)
(***************************************************************************)
Moves == \/ UNCHANGED status
         \/ status = "none" /\ status' \in {"queued", "started"}
         \/ status = "queued" /\ status' \in {"started", "failed"}
         \/ status = "started" /\ status' \in {"completed", "failed"}

LEMMA StatusMoves ==
  ASSUME TypeOK, PlaceInv, [Next]_vars
  PROVE  Moves
<1> USE DEF Moves, Working
<1>1. CASE Enqueue
  BY <1>1 DEF Enqueue
<1>2. CASE Begin
  <2>1. status \in {"none", "queued"}
    BY <1>2 DEF Begin, PlaceInv
  <2> QED
    BY <1>2, <2>1 DEF Begin, Opened, rows
<1>3. CASE FirstCall
  BY <1>3 DEF FirstCall, rows
<1>4. CASE FirstCallFails
  BY <1>4, FailedAttempt DEF FirstCallFails, rows
<1>5. CASE SendStarted
  BY <1>5 DEF SendStarted, rows
<1>6. ASSUME NEW why, TurnDown(why) PROVE Moves
  BY <1>6 DEF TurnDown, TxStopsCounted, TxStops, rows
<1>7. CASE ArgumentsInvalid
  BY <1>7 DEF ArgumentsInvalid, TxFails, rows
<1>8. CASE ToolFails
  BY <1>8, FailedAttempt DEF ToolFails, rows
<1>9. CASE ToolReturns
  BY <1>9 DEF ToolReturns, rows
<1>10. CASE RecordTool
  BY <1>10 DEF RecordTool, TxFails, rows
<1>11. CASE FastAnswer
  BY <1>11 DEF FastAnswer, TxFails, rows
<1>12. CASE FollowCall
  BY <1>12 DEF FollowCall, rows
<1>13. CASE FollowCallFails
  BY <1>13, FailedAttempt DEF FollowCallFails, rows
<1>14. CASE Conclude
  BY <1>14, Zenon DEF Conclude, TxStopsCounting, TxStops, TxFails, rows
<1>15. CASE ExhaustBudget
  BY <1>15 DEF ExhaustBudget, TxStopsCounted, TxStops, rows
<1>16. CASE AnswerWithoutTool
  BY <1>16, Zenon DEF AnswerWithoutTool, TxStopsCounting, TxStops, TxFails, rows
<1>17. CASE LoopEnds
  BY <1>17 DEF LoopEnds, rows
<1>18. CASE Finalize
  <2>1. status = "started"
    BY <1>18, StatusAtWork DEF Finalize
  <2>2. status' = "completed" \/ UNCHANGED status
    BY <1>18, Zenon DEF Finalize, TxFails, rows
  <2> QED
    BY <2>1, <2>2
<1>19. CASE SendMessage
  BY <1>19 DEF SendMessage, rows
<1>20. CASE SendCompleted
  BY <1>20 DEF SendCompleted, rows
<1>21. CASE Disconnect
  BY <1>21 DEF Disconnect, rows
<1>22. CASE WorkerFailsRun
  BY <1>22 DEF WorkerFailsRun, PlaceInv, Ended, TypeOK, RowsTyped
<1>23. CASE UNCHANGED vars
  BY <1>23 DEF vars, rows
<1> QED
  BY <1>1, <1>2, <1>3, <1>4, <1>5, <1>6, <1>7, <1>8, <1>9, <1>10, <1>11, <1>12, <1>13, <1>14,
     <1>15, <1>16, <1>17, <1>18, <1>19, <1>20, <1>21, <1>22, <1>23
  DEF Next, Step, NotRegistered, PolicyDenies

\* The agent loop implements the life cycle of its run.
THEOREM Refinement == Spec => RefinesLifecycle
<1> DEFINE mapped == [r \in {"the run"} |-> status]
<1>1. Init => Lifecycle!Init
  BY DEF Init, Lifecycle!Init
<1>2. CoreInv /\ [Next]_vars => [Lifecycle!Next]_mapped
  <2> SUFFICES ASSUME CoreInv, [Next]_vars PROVE [Lifecycle!Next]_mapped
    OBVIOUS
  <2>1. Moves
    BY StatusMoves DEF CoreInv
  <2> USE DEF Lifecycle!Move
  <2>2. status = "none" /\ status' = "queued" => Lifecycle!Submit("the run")
    BY Zenon DEF Lifecycle!Submit
  <2>3. status = "none" /\ status' = "started" => Lifecycle!Open("the run")
    BY Zenon DEF Lifecycle!Open
  <2>4. status = "queued" /\ status' = "started" => Lifecycle!Start("the run")
    BY Zenon DEF Lifecycle!Start
  <2>5. status = "started" /\ status' = "completed" => Lifecycle!Complete("the run")
    BY Zenon DEF Lifecycle!Complete
  <2>6. status \in {"queued", "started"} /\ status' = "failed" => Lifecycle!Fail("the run")
    BY Zenon DEF Lifecycle!Fail
  <2>7. UNCHANGED status => UNCHANGED mapped
    OBVIOUS
  <2>8. \/ Lifecycle!Submit("the run") \/ Lifecycle!Open("the run")
        \/ Lifecycle!Execute("the run") \/ UNCHANGED mapped
    BY <2>1, <2>2, <2>3, <2>4, <2>5, <2>6, <2>7, Zenon DEF Moves, Lifecycle!Execute
  <2> QED
    BY <2>8, Zenon DEF Lifecycle!Next
<1> QED
  BY <1>1, <1>2, Invariance, PTL DEF Spec, RefinesLifecycle, Lifecycle!Spec
=============================================================================
