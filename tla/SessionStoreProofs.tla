------------------------- MODULE SessionStoreProofs -------------------------
(***************************************************************************)
(* Proofs about SessionStore for any number of requests of a session.      *)
(***************************************************************************)
EXTENDS SessionStore, FiniteSetTheorems, TLAPS

Placed == RowInv /\ MadeInv /\ PlaceInv

LEMMA InitHolds == Init => IInv
  BY DEF Init, IInv, TypeOK, RowInv, MadeInv, PlaceInv, KnownInv, ManifestHonest,
         States, Phases, Positions, Opening, Opened

-----------------------------------------------------------------------------
(***************************************************************************)
(* Types.                                                                  *)
(***************************************************************************)
LEMMA NextTyped == IInv /\ [Next]_vars => TypeOK'
<1> SUFFICES ASSUME IInv, [Next]_vars PROVE TypeOK'
  OBVIOUS
<1> USE DEF IInv, TypeOK, Goto, Phases, Positions, Opening, Opened
<1>1. ASSUME NEW q \in Requests, Look(q) PROVE TypeOK'
  BY <1>1 DEF Look, States
<1>2. ASSUME NEW q \in Requests, Create(q) PROVE TypeOK'
  BY <1>2 DEF Create, Refuse
<1>3. ASSUME NEW q \in Requests, FactLook(q) PROVE TypeOK'
  BY <1>3 DEF FactLook, Upsert
<1>4. ASSUME NEW q \in Requests, FactWrite(q) PROVE TypeOK'
  BY <1>4 DEF FactWrite
<1>5. ASSUME NEW q \in Requests, Open(q) PROVE TypeOK'
  <2>1. target[q] \in Requests
    BY <1>5 DEF Open, PlaceInv
  <2> QED
    BY <1>5, <2>1 DEF Open
<1>6. ASSUME NEW q \in Requests, OpeningFails(q) PROVE TypeOK'
  BY <1>6 DEF OpeningFails, Refuse
<1>7. ASSUME NEW q \in Requests, Reload(q) PROVE TypeOK'
  BY <1>7 DEF Reload, States
<1>8. ASSUME NEW q \in Requests, CloseWrite(q) PROVE TypeOK'
  BY <1>8 DEF CloseWrite
<1>9. ASSUME NEW q \in Requests, CloseCommit(q) PROVE TypeOK'
  BY <1>9 DEF CloseCommit, ManifestAfter
<1>10. ASSUME NEW q \in Requests, Raise(q) PROVE TypeOK'
  BY <1>10 DEF Raise
<1>11. CASE UNCHANGED vars
  BY <1>11 DEF vars
<1> QED
  BY <1>1, <1>2, <1>3, <1>4, <1>5, <1>6, <1>7, <1>8, <1>9, <1>10, <1>11 DEF Next, Step

-----------------------------------------------------------------------------
(***************************************************************************)
(* Rows, uncommitted rows and places.                                      *)
(***************************************************************************)

\* An action that writes no session row leaves the set of them alone.
LEMMA StatesStay == UNCHANGED states => States' = States
  BY DEF States

LEMMA CreatePlaced ==
  ASSUME IInv, NEW q \in Requests, Create(q)
  PROVE  Placed'
<1> USE DEF IInv, TypeOK
<1>1. States' = States
  BY StatesStay DEF Create
<1>2. RowInv'
  BY <1>1 DEF Create, RowInv
<1>3. ~made[q]
  BY DEF Create, KeyFree
<1>4. MadeInv'
  BY <1>1, <1>3 DEF Create, KeyFree, Refuse, Goto, MadeInv
<1>5. PlaceInv'
  BY <1>1, <1>3 DEF Create, Refuse, Goto, PlaceInv, Opened
<1> QED
  BY <1>2, <1>4, <1>5 DEF Placed

LEMMA FactLookPlaced ==
  ASSUME IInv, NEW q \in Requests, FactLook(q)
  PROVE  Placed'
<1> USE DEF IInv, TypeOK
<1>1. States' = States
  BY StatesStay DEF FactLook
<1>2. RowInv'
  BY <1>1 DEF FactLook, RowInv
<1>3. made[q] <=> facts = {}
  BY DEF FactLook, RowInv, MadeInv, PlaceInv
<1>4. MadeInv'
  BY <1>1, <1>3 DEF FactLook, Upsert, Goto, MadeInv
<1>5. PlaceInv'
  BY <1>1, <1>3 DEF FactLook, Upsert, Goto, PlaceInv, Opened
<1> QED
  BY <1>2, <1>4, <1>5 DEF Placed

\* The commit: either it brings the first session row and the first fact, or
\* it writes to rows that are there.
LEMMA OpenPlaced ==
  ASSUME IInv, NEW q \in Requests, Open(q)
  PROVE  Placed'
<1> USE DEF IInv, TypeOK, Open, Goto
<1>1. CASE made[q]
  <2>1. target[q] = q /\ States = {} /\ facts = {}
    BY <1>1 DEF PlaceInv, MadeInv, RowInv
  <2>2. States' = {q} /\ facts' = {q}
    BY <1>1, <2>1 DEF States
  <2>3. \A p \in Requests : ~made'[p]
    BY <1>1 DEF MadeInv
  <2>4. \A p \in Requests \ {q} : pc[p] # "updating" /\ pc[p] # "adding" /\ pc[p] # "written" /\ pc[p] # "found"
    BY <1>1, <2>1 DEF PlaceInv, MadeInv
  <2>5. RowInv'
    BY <2>2 DEF RowInv
  <2>6. MadeInv'
    BY <2>3 DEF MadeInv
  <2>7. PlaceInv'
    BY <2>2, <2>3, <2>4 DEF PlaceInv, Opened
  <2> QED
    BY <2>5, <2>6, <2>7 DEF Placed
<1>2. CASE ~made[q]
  <2>1. target[q] \in facts /\ States # {}
    BY <1>2 DEF PlaceInv
  <2>2. States' = States /\ facts' = facts /\ made' = made
    BY <1>2, <2>1 DEF States
  <2>3. RowInv'
    BY <2>2 DEF RowInv
  <2>4. MadeInv'
    BY <2>1, <2>2 DEF MadeInv
  <2>5. PlaceInv'
    BY <2>1, <2>2 DEF PlaceInv, Opened
  <2> QED
    BY <2>3, <2>4, <2>5 DEF Placed
<1> QED
  BY <1>1, <1>2

\* The manifest's update touches the rows that are there.
LEMMA CloseCommitPlaced ==
  ASSUME IInv, NEW q \in Requests, CloseCommit(q)
  PROVE  Placed'
<1> USE DEF IInv, TypeOK, CloseCommit, Goto
<1>1. States' = States
  BY DEF ManifestAfter, States
<1>2. RowInv'
  BY <1>1 DEF RowInv
<1>3. MadeInv'
  BY <1>1 DEF MadeInv
<1>4. PlaceInv'
  BY <1>1 DEF PlaceInv, Opened
<1> QED
  BY <1>2, <1>3, <1>4 DEF Placed

LEMMA NextPlaced == IInv /\ [Next]_vars => Placed'
<1> SUFFICES ASSUME IInv, [Next]_vars PROVE Placed'
  OBVIOUS
<1> USE DEF Placed, IInv, TypeOK, RowInv, MadeInv, PlaceInv, Goto, Opened
<1>1. ASSUME NEW q \in Requests, Look(q) PROVE Placed'
  BY <1>1, StatesStay DEF Look
<1>2. ASSUME NEW q \in Requests, FactWrite(q) PROVE Placed'
  BY <1>2, StatesStay DEF FactWrite
<1>3. ASSUME NEW q \in Requests, OpeningFails(q) PROVE Placed'
  BY <1>3, StatesStay DEF OpeningFails, Refuse
<1>4. ASSUME NEW q \in Requests, Reload(q) PROVE Placed'
  BY <1>4, StatesStay DEF Reload
<1>5. ASSUME NEW q \in Requests, CloseWrite(q) PROVE Placed'
  BY <1>5, StatesStay DEF CloseWrite
<1>6. ASSUME NEW q \in Requests, Raise(q) PROVE Placed'
  BY <1>6, StatesStay DEF Raise
<1>7. CASE UNCHANGED vars
  BY <1>7, StatesStay DEF vars
<1> QED
  BY <1>1, <1>2, <1>3, <1>4, <1>5, <1>6, <1>7, CreatePlaced, FactLookPlaced, OpenPlaced,
     CloseCommitPlaced DEF Next, Step

-----------------------------------------------------------------------------
(***************************************************************************)
(* The manifest.                                                           *)
(***************************************************************************)
Told == KnownInv /\ ManifestHonest

\* Before the first session row no run has completed; the row says "intake".
LEMMA OpenTold ==
  ASSUME IInv, NEW q \in Requests, Open(q)
  PROVE  Told'
<1> USE DEF IInv, TypeOK, Open, Goto
<1>1. \A p \in Requests : pc'[p] = "done" <=> pc[p] = "done"
  OBVIOUS
<1>2. KnownInv'
  BY <1>1 DEF KnownInv
<1>3. ManifestHonest'
  <2>1. CASE made[q]
    BY <1>1, <2>1 DEF ManifestHonest, MadeInv, PlaceInv, Opened, States
  <2>2. CASE ~made[q]
    BY <1>1, <2>2 DEF ManifestHonest, States
  <2> QED
    BY <2>1, <2>2
<1> QED
  BY <1>2, <1>3 DEF Told

\* The last transaction of a run whose object is up to date finds the row so.
LEMMA CloseCommitTold ==
  ASSUME IInv, NEW q \in Requests, CloseCommit(q)
  PROVE  Told'
<1> USE DEF IInv, TypeOK, CloseCommit, Goto
<1>1. pc'[q] = "done"
  OBVIOUS
<1>2. KnownInv'
  BY <1>1 DEF KnownInv
<1>3. \A s \in States' : states'[s] = "completed"
  <2>1. CASE Stale(q)
    BY <2>1 DEF ManifestAfter, States
  <2>2. CASE ~Stale(q)
    BY <2>2 DEF ManifestAfter, Stale, KnownInv, ManifestHonest, States
  <2> QED
    BY <2>1, <2>2
<1> QED
  BY <1>1, <1>2, <1>3 DEF Told, ManifestHonest

LEMMA NextTold == IInv /\ [Next]_vars => Told'
<1> SUFFICES ASSUME IInv, [Next]_vars PROVE Told'
  OBVIOUS
<1> USE DEF Told, IInv, TypeOK, KnownInv, ManifestHonest, Goto, States
<1>1. ASSUME NEW q \in Requests, Look(q) PROVE Told'
  BY <1>1 DEF Look
<1>2. ASSUME NEW q \in Requests, Create(q) PROVE Told'
  BY <1>2 DEF Create, Refuse
<1>3. ASSUME NEW q \in Requests, FactLook(q) PROVE Told'
  BY <1>3 DEF FactLook, Upsert
<1>4. ASSUME NEW q \in Requests, FactWrite(q) PROVE Told'
  BY <1>4 DEF FactWrite
<1>5. ASSUME NEW q \in Requests, OpeningFails(q) PROVE Told'
  BY <1>5 DEF OpeningFails, Refuse, Opening
<1>6. ASSUME NEW q \in Requests, Reload(q) PROVE Told'
  BY <1>6 DEF Reload
<1>7. ASSUME NEW q \in Requests, CloseWrite(q) PROVE Told'
  BY <1>7 DEF CloseWrite
<1>8. ASSUME NEW q \in Requests, Raise(q) PROVE Told'
  BY <1>8 DEF Raise
<1>9. CASE UNCHANGED vars
  BY <1>9 DEF vars
<1> QED
  BY <1>1, <1>2, <1>3, <1>4, <1>5, <1>6, <1>7, <1>8, <1>9, OpenTold, CloseCommitTold
  DEF Next, Step

-----------------------------------------------------------------------------
(***************************************************************************)
(* The theorems.                                                           *)
(***************************************************************************)

\* Every reachable state of the rows of a session satisfies the inductive
\* invariant, for any number of racing requests.
THEOREM Invariance == Spec => []IInv
<1>1. IInv /\ [Next]_vars => IInv'
  BY NextTyped, NextPlaced, NextTold DEF IInv, Placed, Told
<1> QED
  BY InitHolds, <1>1, PTL DEF Spec

\* However many first requests race, get_or_create leaves one session row.
THEOREM OneSessionRow == Spec => []OneState
<1>1. IInv => OneState
  <2> SUFFICES ASSUME IInv PROVE OneState
    OBVIOUS
  <2>1. CASE States = {}
    BY <2>1, FS_EmptySet DEF OneState
  <2>2. ASSUME NEW s, States = {s} PROVE OneState
    <3>1. Cardinality(States) = 1
      BY <2>2, FS_Singleton
    <3> QED
      BY <3>1 DEF OneState
  <2> QED
    BY <2>1, <2>2 DEF IInv, RowInv
<1> QED
  BY Invariance, <1>1, PTL

\* upsert_fact leaves one fact in a session that has a row, although no
\* constraint keeps a second one out.
THEOREM OneFactRow == Spec => []OneFact
<1>1. IInv => OneFact
  <2> SUFFICES ASSUME IInv PROVE OneFact
    OBVIOUS
  <2>1. CASE States = {}
    BY <2>1 DEF OneFact, IInv, RowInv
  <2>2. CASE States # {}
    <3>1. PICK s, f : States = {s} /\ facts = {f}
      BY <2>2 DEF IInv, RowInv
    <3> QED
      BY <3>1, FS_Singleton DEF OneFact
  <2> QED
    BY <2>1, <2>2
<1> QED
  BY Invariance, <1>1, PTL

\* The manifest says "completed" exactly when a run of the session has
\* completed, from objects of whatever age it is written.
THEOREM ManifestTells == Spec => []ManifestHonest
  BY Invariance, PTL DEF IInv
=============================================================================
