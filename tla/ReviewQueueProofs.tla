------------------------- MODULE ReviewQueueProofs --------------------------
(***************************************************************************)
(* Proofs about ReviewQueue for any numbers of runs and requests, any      *)
(* statuses and resolvers, whether or not agents and transactions fail.    *)
(***************************************************************************)
EXTENDS ReviewQueue, FiniteSetTheorems, TLAPS

-----------------------------------------------------------------------------
(***************************************************************************)
(* Rows and counts.                                                        *)
(***************************************************************************)
RowStatuses    == {"none", "pending"} \cup Statuses
RowResolutions == Patches \cup {Nobody}
RowResolvers   == Resolvers \cup {Nobody}

LEMMA RowsAre == Rows = [status : RowStatuses, resolution : RowResolutions, resolver : RowResolvers]
BY DEF Rows, RowStatuses, RowResolutions, RowResolvers

LEMMA RowTyped ==
  ASSUME NEW s \in RowStatuses, NEW n \in RowResolutions, NEW v \in RowResolvers
  PROVE  /\ Row(s, n, v) \in Rows
         /\ Row(s, n, v).status = s /\ Row(s, n, v).resolution = n /\ Row(s, n, v).resolver = v
BY RowsAre DEF Row

LEMMA RowFields ==
  ASSUME NEW x \in Rows
  PROVE  /\ x.status \in RowStatuses /\ x.resolution \in RowResolutions /\ x.resolver \in RowResolvers
         /\ x = Row(x.status, x.resolution, x.resolver)
BY RowsAre DEF Row

LEMMA FirstRows ==
  /\ Absent \in Rows /\ Fresh \in Rows /\ Absent # Fresh
  /\ Absent.status = "none" /\ Fresh.status = "pending"
<1>1. "none" \in RowStatuses /\ "pending" \in RowStatuses
  BY DEF RowStatuses
<1>2. Nobody \in RowResolutions /\ Nobody \in RowResolvers
  BY DEF RowResolutions, RowResolvers
<1>3. /\ Absent \in Rows /\ Absent.status = "none"
      /\ Fresh \in Rows /\ Fresh.status = "pending"
  BY <1>1, <1>2, RowTyped DEF Absent, Fresh
<1> QED
  BY <1>3

LEMMA PendingBound ==
  ASSUME NEW rows
  PROVE  Pending(rows) \in 0..Cardinality(Runs)
<1> DEFINE open == {r \in Runs : rows[r].status = "pending"}
<1>1. IsFiniteSet(Runs) /\ open \in SUBSET Runs
  BY ReviewAssumption
<1>2. IsFiniteSet(open) /\ Cardinality(open) <= Cardinality(Runs)
  BY <1>1, FS_Subset
<1>3. Cardinality(open) \in Nat /\ Cardinality(Runs) \in Nat
  BY <1>1, <1>2, FS_CardinalityType
<1> QED
  BY <1>2, <1>3 DEF Pending

\* What an UPDATE leaves is a row, and the request's own if the row is as it
\* was when the request loaded it.
LEMMA UpdatedTyped ==
  ASSUME TypeOK, NEW p \in Patches, item[p] \in Runs
  PROVE  /\ Updated(p) \in Rows
         /\ seen[p] = row[item[p]] => Updated(p) = body[p]
<1>1. body[p] \in Rows /\ row[item[p]] \in Rows
  BY DEF TypeOK
<1> DEFINE s == Written(p, "status")
           n == Written(p, "resolution")
           v == Written(p, "resolver")
<1>2. s \in RowStatuses /\ n \in RowResolutions /\ v \in RowResolvers
  BY <1>1, RowFields DEF Written
<1>3. seen[p] = row[item[p]] =>
          s = body[p].status /\ n = body[p].resolution /\ v = body[p].resolver
  BY DEF Written
<1> HIDE DEF s, n, v
<1>4. Row(s, n, v) \in Rows
  BY <1>2, RowTyped
<1>5. seen[p] = row[item[p]] => Row(s, n, v) = body[p]
  BY <1>1, <1>3, RowFields
<1> QED
  BY <1>4, <1>5 DEF Updated, s, n, v

-----------------------------------------------------------------------------
(***************************************************************************)
(* Types.                                                                  *)
(***************************************************************************)
LEMMA InitTyped == Init => TypeOK
<1> SUFFICES ASSUME Init PROVE TypeOK
  OBVIOUS
<1>1. Cardinality(Runs) \in Nat
  BY ReviewAssumption, FS_CardinalityType
<1>2. serial \in BOOLEAN
  BY Zenon DEF Init
<1> QED
  BY <1>1, <1>2, FirstRows DEF Init, TypeOK

LEMMA AnswerTyped ==
  ASSUME TypeOK, NEW p \in Patches, Answer(p)
  PROVE  /\ pc' \in [Patches -> {"idle", "loaded", "flushed", "counted", "committed", "answered"}]
         /\ item' \in [Patches -> Runs \cup {Nobody}]
         /\ body' \in [Patches -> Rows] /\ seen' \in [Patches -> Rows]
         /\ count' \in [Runs \cup Patches -> 0..Cardinality(Runs)]
<1>1. Cardinality(Runs) \in Nat
  BY ReviewAssumption, FS_CardinalityType
<1> QED
  BY <1>1, FirstRows DEF Answer, Goto, TypeOK

LEMMA NextTyped ==
  ASSUME TypeOK, PlaceInv, [Next]_vars
  PROVE  TypeOK'
<1> USE DEF Walk, Goto
<1>a. Cardinality(Runs) \in Nat
  BY ReviewAssumption, FS_CardinalityType
<1>1. ASSUME NEW r \in Runs, Escalate(r) PROVE TypeOK'
  <2>1. serial' \in BOOLEAN
    BY <1>1, Zenon DEF Escalate
  <2> QED
    BY <1>1, <2>1, FirstRows DEF Escalate, TypeOK
<1>2. ASSUME NEW r \in Runs, RunCounts(r) PROVE TypeOK'
  BY <1>2, PendingBound DEF RunCounts, TypeOK
<1>3. ASSUME NEW r \in Runs, RunShows(r) PROVE TypeOK'
  <2>1. serial' \in BOOLEAN
    BY <1>3, Zenon DEF RunShows, TypeOK
  <2>2. gauge' \in 0..Cardinality(Runs)
    BY <1>3 DEF RunShows, TypeOK
  <2> QED
    BY <1>a, <1>3, <2>1, <2>2 DEF RunShows, TypeOK
<1>4. ASSUME NEW r \in Runs, AgentRaises(r) PROVE TypeOK'
  BY <1>4 DEF AgentRaises, TypeOK
<1>5. ASSUME NEW p \in Patches, Load(p) PROVE TypeOK'
  <2>1. PICK r \in Runs, s \in Statuses \cup {"pending"}, n \in Resolvers \cup {Nobody} :
             IF row[r] = Absent
             THEN Answer(p) /\ UNCHANGED serial
             ELSE /\ pc' = [pc EXCEPT ![p] = "loaded"]
                  /\ item' = [item EXCEPT ![p] = r]
                  /\ body' = [body EXCEPT ![p] = Row(s, p, n)]
                  /\ seen' = [seen EXCEPT ![p] = row[r]]
                  /\ serial' = (Busy = {})
                  /\ UNCHANGED count
    BY <1>5 DEF Load
  <2>2. UNCHANGED <<row, stage, gauge, last>>
    BY <1>5 DEF Load
  <2>3. Row(s, p, n) \in Rows
    BY RowTyped DEF RowStatuses, RowResolutions, RowResolvers
  <2>4. serial' \in BOOLEAN
    BY <2>1, Zenon DEF TypeOK
  <2>5. CASE row[r] = Absent
    BY <2>1, <2>2, <2>4, <2>5, AnswerTyped DEF TypeOK
  <2>6. CASE row[r] # Absent
    BY <2>1, <2>2, <2>3, <2>4, <2>6 DEF TypeOK
  <2> QED
    BY <2>5, <2>6
<1>6. ASSUME NEW p \in Patches, Flush(p) PROVE TypeOK'
  BY <1>6 DEF Flush, TypeOK
<1>7. ASSUME NEW p \in Patches, PatchCounts(p) PROVE TypeOK'
  BY <1>7, PendingBound DEF PatchCounts, TypeOK
<1>8. ASSUME NEW p \in Patches, Commit(p) PROVE TypeOK'
  <2>1. item[p] \in Runs
    BY <1>8 DEF Commit, PlaceInv
  <2>2. Updated(p) \in Rows /\ body[p] \in Rows
    BY <2>1, UpdatedTyped DEF TypeOK
  <2> QED
    BY <1>8, <2>1, <2>2, FirstRows DEF Commit, Applied, TypeOK
<1>9. ASSUME NEW p \in Patches, PatchShows(p) PROVE TypeOK'
  BY <1>9, AnswerTyped DEF PatchShows, TypeOK
<1>10. ASSUME NEW p \in Patches, PatchFails(p) PROVE TypeOK'
  <2>1. /\ Answer(p) /\ UNCHANGED <<stage, gauge>> /\ serial' \in BOOLEAN
        /\ UNCHANGED <<row, last>> \/ (pc[p] = "counted" /\ Applied(p))
    BY <1>10 DEF PatchFails
  <2>2. CASE UNCHANGED <<row, last>>
    BY <2>1, <2>2, AnswerTyped DEF TypeOK
  <2>3. CASE pc[p] = "counted" /\ Applied(p)
    <3>1. item[p] \in Runs
      BY <2>3 DEF PlaceInv
    <3>2. Updated(p) \in Rows /\ body[p] \in Rows
      BY <3>1, UpdatedTyped DEF TypeOK
    <3>3. row' \in [Runs -> Rows] /\ last' \in [Runs -> Rows]
      BY <2>3, <3>1, <3>2, FirstRows DEF Applied, TypeOK
    <3> QED
      BY <2>1, <3>3, AnswerTyped DEF TypeOK
  <2> QED
    BY <2>1, <2>2, <2>3
<1>11. CASE UNCHANGED vars
  BY <1>11 DEF vars, TypeOK
<1> QED
  BY <1>1, <1>2, <1>3, <1>4, <1>5, <1>6, <1>7, <1>8, <1>9, <1>10, <1>11
  DEF Next, RunStep, PatchStep

-----------------------------------------------------------------------------
(***************************************************************************)
(* What a step does to the rows.  Only Escalate, Commit and a failing      *)
(* PATCH whose commit is applied write one.                                *)
(***************************************************************************)
LEMMA Answered ==
  ASSUME TypeOK, NEW p \in Patches, Answer(p)
  PROVE  /\ pc'[p] = "answered"
         /\ \A q \in Patches \ {p} : /\ pc'[q] = pc[q] /\ item'[q] = item[q] /\ body'[q] = body[q]
                                     /\ seen'[q] = seen[q] /\ count'[q] = count[q]
         /\ \A r \in Runs : count'[r] = count[r]
<1>1. \A r \in Runs : r # p
  BY ReviewAssumption
<1> QED
  BY <1>1 DEF Answer, Goto, TypeOK

\* A request that loads a row names one that its run has left.
LEMMA Loading ==
  ASSUME NEW p \in Patches, Load(p)
  PROVE  /\ UNCHANGED <<row, stage, gauge, last>> /\ pc[p] = "idle"
         /\ \/ Answer(p) /\ UNCHANGED serial
            \/ /\ \E r \in Runs : row[r] # Absent /\ item' = [item EXCEPT ![p] = r]
               /\ pc' = [pc EXCEPT ![p] = "loaded"]
               /\ serial' = (Busy = {})
               /\ UNCHANGED count
BY Zenon DEF Load, Goto

LEMMA PlaceKept ==
  ASSUME TypeOK, PlaceInv, [Next]_vars
  PROVE  PlaceInv'
<1> USE DEF Walk, Goto
<1>1. ASSUME NEW r \in Runs, Escalate(r) PROVE PlaceInv'
  BY <1>1 DEF Escalate, TypeOK, PlaceInv
<1>2. ASSUME NEW r \in Runs, RunCounts(r) PROVE PlaceInv'
  BY <1>2 DEF RunCounts, TypeOK, PlaceInv
<1>3. ASSUME NEW r \in Runs, RunShows(r) PROVE PlaceInv'
  BY <1>3 DEF RunShows, TypeOK, PlaceInv
<1>4. ASSUME NEW r \in Runs, AgentRaises(r) PROVE PlaceInv'
  BY <1>4 DEF AgentRaises, TypeOK, PlaceInv
<1>5. ASSUME NEW p \in Patches, Load(p) PROVE PlaceInv'
  <2>1. UNCHANGED <<row, stage, last>>
    BY <1>5, Loading
  <2>2. CASE Answer(p)
    BY <2>1, <2>2, Answered DEF PlaceInv
  <2>3. CASE /\ \E r \in Runs : row[r] # Absent /\ item' = [item EXCEPT ![p] = r]
             /\ pc' = [pc EXCEPT ![p] = "loaded"]
    BY <2>1, <2>3 DEF PlaceInv, TypeOK
  <2> QED
    BY <1>5, <2>2, <2>3, Loading
<1>6. ASSUME NEW p \in Patches, Flush(p) PROVE PlaceInv'
  BY <1>6 DEF Flush, TypeOK, PlaceInv
<1>7. ASSUME NEW p \in Patches, PatchCounts(p) PROVE PlaceInv'
  BY <1>7 DEF PatchCounts, TypeOK, PlaceInv
<1>8. ASSUME NEW p \in Patches, Commit(p) PROVE PlaceInv'
  BY <1>8 DEF Commit, Applied, TypeOK, PlaceInv
<1>9. ASSUME NEW p \in Patches, PatchShows(p) PROVE PlaceInv'
  BY <1>9, Answered DEF PatchShows, PlaceInv
<1>10. ASSUME NEW p \in Patches, PatchFails(p) PROVE PlaceInv'
  <2>1. Answer(p) /\ UNCHANGED stage /\ (UNCHANGED <<row, last>> \/ (pc[p] = "counted" /\ Applied(p)))
    BY <1>10 DEF PatchFails
  <2>2. \A r \in Runs : stage[r] = "working" => row'[r] = row[r] /\ last'[r] = last[r]
    BY <2>1 DEF Applied, TypeOK, PlaceInv
  <2> QED
    BY <2>1, <2>2, Answered DEF PlaceInv
<1>11. CASE UNCHANGED vars
  BY <1>11 DEF vars, PlaceInv
<1> QED
  BY <1>1, <1>2, <1>3, <1>4, <1>5, <1>6, <1>7, <1>8, <1>9, <1>10, <1>11
  DEF Next, RunStep, PatchStep

LEMMA RowKept ==
  ASSUME TypeOK, PlaceInv, RowIsOneRequests, [Next]_vars
  PROVE  RowIsOneRequests'
<1>1. ASSUME NEW r \in Runs, Escalate(r) PROVE RowIsOneRequests'
  BY <1>1 DEF Escalate, TypeOK, PlaceInv, RowIsOneRequests
<1>2. ASSUME NEW p \in Patches, pc[p] = "counted", Applied(p) PROVE RowIsOneRequests'
  <2>1. item[p] \in Runs
    BY <1>2 DEF PlaceInv
  <2>2. seen[p] = row[item[p]] => Updated(p) = body[p]
    BY <2>1, UpdatedTyped
  <2> QED
    BY <1>2, <2>1, <2>2 DEF Applied, TypeOK, RowIsOneRequests
<1>3. ASSUME UNCHANGED <<row, last>> PROVE RowIsOneRequests'
  BY <1>3 DEF RowIsOneRequests
<1>4. ASSUME NEW p \in Patches, Load(p) PROVE RowIsOneRequests'
  BY <1>3, <1>4, Loading
<1>5. ASSUME NEW p \in Patches, Commit(p) PROVE RowIsOneRequests'
  BY <1>2, <1>5 DEF Commit
<1>6. ASSUME NEW p \in Patches, PatchFails(p) PROVE RowIsOneRequests'
  BY <1>2, <1>3, <1>6 DEF PatchFails
<1> QED
  BY <1>1, <1>3, <1>4, <1>5, <1>6
  DEF Next, RunStep, PatchStep, RunCounts, RunShows, AgentRaises, Flush, PatchCounts, PatchShows,
      vars
-----------------------------------------------------------------------------
(***************************************************************************)
(* The gauge, when operations do not overlap.                              *)
(***************************************************************************)
Alone == \A x, y \in Busy : x = y

CountedBy(p) == /\ pc[p] = "counted" => count[p] = Pending(Visible(p))
                /\ pc[p] = "committed" => count[p] = Pending(row)

Counted == /\ \A r \in Runs : stage[r] = "counted" => count[r] = Pending(row)
           /\ \A p \in Patches : CountedBy(p)

Shown == Busy = {} => gauge = Pending(row)

LEMMA SerialMeans == SerialInv <=> (serial => Alone /\ Counted /\ Shown)
BY Zenon DEF SerialInv, Alone, Counted, CountedBy, Shown

LEMMA SerialMeansNext == SerialInv' <=> (serial' => Alone' /\ Counted' /\ Shown')
<1>1. (SerialInv <=> (serial => Alone /\ Counted /\ Shown))'
  BY SerialMeans, PTL
<1> QED
  BY <1>1

LEMMA BusyWho ==
  ASSUME TypeOK
  PROVE  /\ \A r \in Runs : r \in Busy <=> stage[r] \in {"escalated", "counted"}
         /\ \A p \in Patches : p \in Busy <=> pc[p] \notin {"idle", "answered"}
         /\ Busy \subseteq Runs \cup Patches
BY ReviewAssumption DEF Busy

LEMMA BusyWhoNext ==
  ASSUME TypeOK'
  PROVE  /\ \A r \in Runs : r \in Busy' <=> stage'[r] \in {"escalated", "counted"}
         /\ \A p \in Patches : p \in Busy' <=> pc'[p] \notin {"idle", "answered"}
         /\ Busy' \subseteq Runs \cup Patches
BY ReviewAssumption DEF Busy

\* When nobody was busy, the one that begins has counted nothing.
LEMMA Begins ==
  ASSUME TypeOK, TypeOK', Busy = {}, NEW x \in Runs \cup Patches,
         \/ x \in Runs /\ stage' = [stage EXCEPT ![x] = "escalated"] /\ UNCHANGED pc
         \/ x \in Patches /\ pc' = [pc EXCEPT ![x] = "loaded"] /\ UNCHANGED stage
  PROVE  Alone' /\ Counted' /\ Shown'
<1>1. /\ \A r \in Runs : stage[r] \notin {"escalated", "counted"}
      /\ \A p \in Patches : pc[p] \in {"idle", "answered"}
  BY BusyWho
<1>2. /\ \A r \in Runs : stage'[r] # "counted" /\ (stage'[r] = "escalated" <=> r = x)
      /\ \A p \in Patches : /\ pc'[p] \notin {"counted", "committed"}
                            /\ pc'[p] \notin {"idle", "answered"} <=> p = x
  <2>1. CASE x \in Runs /\ stage' = [stage EXCEPT ![x] = "escalated"] /\ UNCHANGED pc
    BY <1>1, <2>1, ReviewAssumption DEF TypeOK
  <2>2. CASE x \in Patches /\ pc' = [pc EXCEPT ![x] = "loaded"] /\ UNCHANGED stage
    BY <1>1, <2>2, ReviewAssumption DEF TypeOK
  <2> QED
    BY <2>1, <2>2
<1>3. \A y \in Busy' : y = x
  BY <1>2, BusyWhoNext
<1>4. x \in Busy'
  BY <1>2, BusyWhoNext
<1> QED
  BY <1>2, <1>3, <1>4 DEF Alone, Counted, CountedBy, Shown

\* The only busy one goes on, or is over with the gauge set.
LEMMA GoesOn ==
  ASSUME TypeOK, TypeOK', Alone, NEW x \in Busy,
         \A r \in Runs \ {x} : stage'[r] = stage[r],
         \A p \in Patches \ {x} : pc'[p] = pc[p],
         x \in Runs => (stage'[x] = "counted" => count'[x] = Pending(row')),
         x \in Patches => CountedBy(x)',
         x \in Busy' \/ gauge' = Pending(row')
  PROVE  Alone' /\ Counted' /\ Shown'
<1>1. \A y \in Busy : y = x
  BY DEF Alone
<1>2. /\ \A r \in Runs \ {x} : stage'[r] \notin {"escalated", "counted"}
      /\ \A p \in Patches \ {x} : pc'[p] \in {"idle", "answered"}
  BY <1>1, BusyWho
<1>3. \A y \in Busy' : y = x
  BY <1>2, BusyWhoNext
<1>4. Alone' /\ Shown'
  BY <1>3 DEF Alone, Shown
<1>5. Counted'
  <2>1. \A r \in Runs : stage'[r] = "counted" => count'[r] = Pending(row')
    BY <1>2
  <2>2. ASSUME NEW p \in Patches PROVE CountedBy(p)'
    <3>1. CASE p # x
      BY <1>2, <3>1 DEF CountedBy
    <3>2. CASE p = x
      BY <3>2
    <3> QED
      BY <3>1, <3>2
  <2> QED
    BY <2>1, <2>2 DEF Counted
<1> QED
  BY <1>4, <1>5
LEMMA SerialKept ==
  ASSUME TypeOK, TypeOK', PlaceInv, SerialInv, [Next]_vars
  PROVE  SerialInv'
<1>s. SUFFICES ASSUME serial' PROVE Alone' /\ Counted' /\ Shown'
  BY SerialMeansNext
<1> USE DEF Walk, Goto
<1>1. ASSUME NEW r \in Runs, Escalate(r) PROVE Alone' /\ Counted' /\ Shown'
  <2>1. Busy = {}
    BY <1>s, <1>1, Zenon DEF Escalate
  <2> QED
    BY <1>1, <2>1, Begins DEF Escalate
<1>2. ASSUME NEW r \in Runs, RunCounts(r) PROVE Alone' /\ Counted' /\ Shown'
  <2>1. Alone /\ Counted
    BY <1>s, <1>2, SerialMeans, Zenon DEF RunCounts
  <2>2. r \in Busy /\ r \in Busy' /\ r \notin Patches
    BY <1>2, BusyWho, BusyWhoNext, ReviewAssumption DEF RunCounts, TypeOK
  <2>3. count'[r] = Pending(row')
    BY <1>2 DEF RunCounts, TypeOK
  <2> QED
    BY <1>2, <2>1, <2>2, <2>3, GoesOn DEF RunCounts, TypeOK
<1>3. ASSUME NEW r \in Runs, RunShows(r) PROVE Alone' /\ Counted' /\ Shown'
  <2>1. serial /\ gauge' = count[r]
    BY <1>s, <1>3, Zenon DEF RunShows
  <2>2. Alone /\ Counted
    BY <2>1, SerialMeans, Zenon
  <2>3. r \in Busy /\ r \notin Patches /\ stage[r] = "counted" /\ stage'[r] = "ended"
    BY <1>3, BusyWho, ReviewAssumption DEF RunShows, TypeOK
  <2>4. gauge' = Pending(row')
    BY <1>3, <2>1, <2>2, <2>3 DEF RunShows, Counted
  <2> QED
    BY <1>3, <2>2, <2>3, <2>4, GoesOn DEF RunShows, TypeOK
<1>4. ASSUME NEW r \in Runs, AgentRaises(r) PROVE FALSE
  BY <1>s, <1>4, Zenon DEF AgentRaises
<1>5. ASSUME NEW p \in Patches, Load(p) PROVE Alone' /\ Counted' /\ Shown'
  <2>1. UNCHANGED <<row, stage, gauge, last>> /\ pc[p] = "idle"
    BY <1>5, Loading
  <2>2. CASE Answer(p) /\ UNCHANGED serial
    <3>1. Alone /\ Counted /\ Shown
      BY <1>s, <2>2, SerialMeans, Zenon
    <3>2. /\ pc'[p] = "answered" /\ \A r \in Runs : count'[r] = count[r]
          /\ \A q \in Patches \ {p} : pc'[q] = pc[q] /\ count'[q] = count[q]
                                     /\ item'[q] = item[q] /\ body'[q] = body[q] /\ seen'[q] = seen[q]
      BY <2>2, Answered
    <3>3. Busy' = Busy
      BY <2>1, <3>2, BusyWho, BusyWhoNext
    <3>4. \A q \in Patches \ {p} : Visible(q)' = Visible(q)
      BY <2>1, <3>2 DEF Visible, Updated, Written
    <3> QED
      BY <2>1, <3>1, <3>2, <3>3, <3>4 DEF Alone, Counted, CountedBy, Shown
  <2>3. CASE pc' = [pc EXCEPT ![p] = "loaded"] /\ serial' = (Busy = {})
    <3>1. Busy = {}
      BY <1>s, <2>3, Zenon
    <3> QED
      BY <2>1, <2>3, <3>1, Begins
  <2> QED
    BY <1>5, <2>2, <2>3, Loading
<1>6. ASSUME NEW p \in Patches, Flush(p) PROVE Alone' /\ Counted' /\ Shown'
  <2>1. Alone
    BY <1>s, <1>6, SerialMeans, Zenon DEF Flush
  <2>2. p \in Busy /\ p \in Busy' /\ p \notin Runs /\ pc'[p] = "flushed"
    BY <1>6, BusyWho, BusyWhoNext, ReviewAssumption DEF Flush, TypeOK
  <2> QED
    BY <1>6, <2>1, <2>2, GoesOn DEF Flush, TypeOK, CountedBy
<1>7. ASSUME NEW p \in Patches, PatchCounts(p) PROVE Alone' /\ Counted' /\ Shown'
  <2>1. Alone
    BY <1>s, <1>7, SerialMeans, Zenon DEF PatchCounts
  <2>2. p \in Busy /\ p \in Busy' /\ p \notin Runs /\ pc'[p] = "counted"
    BY <1>7, BusyWho, BusyWhoNext, ReviewAssumption DEF PatchCounts, TypeOK
  <2>3. Visible(p)' = Visible(p)
    BY <1>7 DEF PatchCounts, Visible, Updated, Written
  <2>4. count'[p] = Pending(Visible(p)')
    BY <1>7, <2>3 DEF PatchCounts, TypeOK
  <2> QED
    BY <1>7, <2>1, <2>2, <2>4, GoesOn DEF PatchCounts, TypeOK, CountedBy
<1>8. ASSUME NEW p \in Patches, Commit(p) PROVE Alone' /\ Counted' /\ Shown'
  <2>1. Alone /\ Counted
    BY <1>s, <1>8, SerialMeans, Zenon DEF Commit
  <2>2. p \in Busy /\ p \in Busy' /\ p \notin Runs /\ pc'[p] = "committed"
    BY <1>8, BusyWho, BusyWhoNext, ReviewAssumption DEF Commit, TypeOK
  <2>3. count'[p] = Pending(row')
    BY <1>8, <2>1 DEF Commit, Applied, Counted, CountedBy, Visible
  <2> QED
    BY <1>8, <2>1, <2>2, <2>3, GoesOn DEF Commit, TypeOK, CountedBy
<1>9. ASSUME NEW p \in Patches, PatchShows(p) PROVE Alone' /\ Counted' /\ Shown'
  <2>1. Alone /\ Counted
    BY <1>s, <1>9, SerialMeans, Zenon DEF PatchShows
  <2>2. p \in Busy /\ p \notin Runs /\ pc[p] = "committed"
    BY <1>9, BusyWho, ReviewAssumption DEF PatchShows
  <2>3. gauge' = Pending(row')
    BY <1>9, <2>1, <2>2 DEF PatchShows, Counted, CountedBy
  <2>4. pc'[p] = "answered" /\ \A q \in Patches \ {p} : pc'[q] = pc[q]
    BY <1>9, Answered DEF PatchShows
  <2> QED
    BY <1>9, <2>1, <2>2, <2>3, <2>4, GoesOn DEF PatchShows, CountedBy
<1>10. ASSUME NEW p \in Patches, PatchFails(p) PROVE FALSE
  BY <1>s, <1>10, Zenon DEF PatchFails
<1>11. CASE UNCHANGED vars
  <2>1. Alone /\ Counted /\ Shown
    BY <1>s, <1>11, SerialMeans, Zenon DEF vars
  <2> QED
    BY <1>11, <2>1 DEF vars, Alone, Counted, CountedBy, Shown, Busy, Visible, Updated, Written
<1> QED
  BY <1>1, <1>2, <1>3, <1>4, <1>5, <1>6, <1>7, <1>8, <1>9, <1>10, <1>11
  DEF Next, RunStep, PatchStep

-----------------------------------------------------------------------------
LEMMA InitHolds == Init => IInv
<1> SUFFICES ASSUME Init PROVE IInv
  OBVIOUS
<1>1. TypeOK
  BY InitTyped
<1>2. PlaceInv /\ RowIsOneRequests
  BY DEF Init, PlaceInv, RowIsOneRequests
<1>3. SerialInv
  BY Zenon DEF Init, SerialInv
<1> QED
  BY <1>1, <1>2, <1>3 DEF IInv

LEMMA NextHolds == IInv /\ [Next]_vars => IInv'
BY NextTyped, PlaceKept, RowKept, SerialKept DEF IInv

\* The inductive invariant holds throughout, for any number of runs and requests.
THEOREM Invariance == Spec => []IInv
BY InitHolds, NextHolds, PTL DEF Spec

\* Every variable keeps its type.
THEOREM TypeCorrect == Spec => []TypeOK
<1>1. IInv => TypeOK
  BY DEF IInv
<1> QED
  BY <1>1, Invariance, PTL

\* The gauge is the number of pending items whenever the last operation ran
\* alone and set it, however many runs and requests there are.
THEOREM GaugeExact == Spec => []GaugeExactWhenSerial
<1>1. IInv => GaugeExactWhenSerial
  <2> SUFFICES ASSUME IInv, Quiet, serial
               PROVE  gauge = Cardinality({r \in Runs : row[r].status = "pending"})
    BY Zenon DEF GaugeExactWhenSerial
  <2>1. Shown
    BY SerialMeans, Zenon DEF IInv
  <2> QED
    BY <2>1, Zenon DEF Shown, Quiet, Pending
<1> QED
  BY <1>1, Invariance, PTL

\* The columns of two requests mix in one item only when one of them committed
\* after the other had loaded the row.
THEOREM RowOfOneRequest == Spec => []RowIsOneRequests
<1>1. IInv => RowIsOneRequests
  BY DEF IInv
<1> QED
  BY <1>1, Invariance, PTL
=============================================================================
