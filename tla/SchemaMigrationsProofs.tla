----------------------- MODULE SchemaMigrationsProofs -----------------------
(***************************************************************************)
(* Proofs of the invariants of SchemaMigrations, for any set of servers    *)
(* and any number of scripts cut short.                                    *)
(***************************************************************************)
EXTENDS SchemaMigrations, SequenceTheorems, TLAPS

-----------------------------------------------------------------------------
(***************************************************************************)
(* Statements in a row: joining two parts of a script, taking the first    *)
(* statement off a plan.                                                   *)
(***************************************************************************)
List(p) == p \in Seq(ToSet(p))

IsJoin(p, q, s) ==
    /\ List(s) /\ DOMAIN s = 1..Len(s) /\ Len(s) = Len(p) + Len(q)
    /\ Len(p) \in Nat /\ DOMAIN p = 1..Len(p) /\ Len(q) \in Nat /\ DOMAIN q = 1..Len(q)
    /\ \A i \in 1..Len(p) : s[i] = p[i]
    /\ \A i \in 1..Len(q) : s[Len(p) + i] = q[i]

LEMMA Joined ==
  ASSUME NEW p, NEW q, List(p), List(q)
  PROVE  IsJoin(p, q, p \o q)
<1> DEFINE S == ToSet(p) \cup ToSet(q)
           s == p \o q
<1>1. p \in Seq(S) /\ q \in Seq(S)
  <2>1. p \in Seq(ToSet(p)) /\ q \in Seq(ToSet(q))
    BY DEF List
  <2> HIDE DEF List
  <2>2. ToSet(p) \subseteq S /\ ToSet(q) \subseteq S
    OBVIOUS
  <2> HIDE DEF S
  <2> QED
    BY <2>1, <2>2
<1> HIDE DEF S
<1>2. s \in Seq(S) /\ Len(s) = Len(p) + Len(q)
  BY <1>1, ConcatProperties
<1>3. Len(p) \in Nat /\ DOMAIN p = 1..Len(p) /\ Len(q) \in Nat /\ DOMAIN q = 1..Len(q)
  BY <1>1
<1>4. \A i \in 1..Len(p) + Len(q) : s[i] = IF i <= Len(p) THEN p[i] ELSE q[i - Len(p)]
  BY <1>1, ConcatProperties
<1>5. Len(s) \in Nat /\ DOMAIN s = 1..Len(s)
  BY <1>2
<1>6. List(s)
  <2> HIDE DEF s
  <2>1. s = [i \in 1..Len(s) |-> s[i]]
    BY <1>2
  <2>2. \A i \in 1..Len(s) : s[i] \in ToSet(s)
    BY <1>5 DEF ToSet
  <2>3. s \in [1..Len(s) -> ToSet(s)]
    BY <2>1, <2>2
  <2> QED
    BY <2>3, <1>5, SeqDef DEF List
<1> HIDE DEF s
<1>7. /\ \A i \in 1..Len(p) : s[i] = p[i]
      /\ \A i \in 1..Len(q) : s[Len(p) + i] = q[i]
  BY <1>3, <1>4
<1> QED
  BY <1>2, <1>3, <1>5, <1>6, <1>7 DEF IsJoin, s

\* The members of the sets Added, Filled, Dropped.
LEMMA Members ==
  ASSUME NEW p, NEW o
  PROVE  /\ o \in Added(p)   <=> \E i \in DOMAIN p : p[i].op = "add" /\ p[i].what = o
         /\ o \in Filled(p)  <=> \E i \in DOMAIN p : p[i].op = "fill" /\ p[i].what = o
         /\ o \in Dropped(p) <=> \E i \in DOMAIN p : p[i].op = "drop" /\ p[i].what = o
BY DEF Added, Filled, Dropped, ToSet

LEMMA JoinedSets ==
  ASSUME NEW p, NEW q, List(p), List(q)
  PROVE  /\ Added(p \o q) = Added(p) \cup Added(q)
         /\ Filled(p \o q) = Filled(p) \cup Filled(q)
         /\ Dropped(p \o q) = Dropped(p) \cup Dropped(q)
<1> DEFINE s == p \o q
<1>1. IsJoin(p, q, s)
  BY Joined
<1> HIDE DEF s
<1>2. \A k \in DOMAIN s :
          (k \in DOMAIN p /\ s[k] = p[k]) \/ (k - Len(p) \in DOMAIN q /\ s[k] = q[k - Len(p)])
  <2> TAKE k \in DOMAIN s
  <2>1. k \in 1..(Len(p) + Len(q))
    BY <1>1 DEF IsJoin
  <2>2. CASE k <= Len(p)
    BY <1>1, <2>1, <2>2 DEF IsJoin
  <2>3. CASE k > Len(p)
    <3>1. k - Len(p) \in 1..Len(q) /\ Len(p) + (k - Len(p)) = k
      <4>1. Len(p) \in Nat /\ Len(q) \in Nat
        BY <1>1 DEF IsJoin
      <4> QED
        BY <2>1, <2>3, <4>1
    <3>2. s[Len(p) + (k - Len(p))] = q[k - Len(p)]
      BY <1>1, <3>1, Zenon DEF IsJoin
    <3> QED
      BY <1>1, <3>1, <3>2 DEF IsJoin
  <2> QED
    BY <1>1, <2>1, <2>2, <2>3 DEF IsJoin
<1>3. \A k \in DOMAIN p : k \in DOMAIN s /\ s[k] = p[k]
  BY <1>1 DEF IsJoin
<1>4. \A k \in DOMAIN q : Len(p) + k \in DOMAIN s /\ s[Len(p) + k] = q[k]
  BY <1>1 DEF IsJoin
<1>5. \A o : o \in Added(s) <=> o \in Added(p) \cup Added(q)
  BY <1>2, <1>3, <1>4, Members
<1>6. \A o : o \in Filled(s) <=> o \in Filled(p) \cup Filled(q)
  BY <1>2, <1>3, <1>4, Members
<1>7. \A o : o \in Dropped(s) <=> o \in Dropped(p) \cup Dropped(q)
  BY <1>2, <1>3, <1>4, Members
<1> QED
  BY <1>5, <1>6, <1>7 DEF s

IsTail(p, t) == /\ List(t) /\ Len(t) \in Nat /\ DOMAIN t = 1..Len(t)
                /\ Len(p) = Len(t) + 1 /\ DOMAIN p = 1..Len(p) /\ Head(p) = p[1]
                /\ \A i \in 1..Len(t) : t[i] = p[i + 1]

LEMMA Tailed ==
  ASSUME NEW p, List(p), p # <<>>
  PROVE  IsTail(p, Tail(p))
<1> DEFINE S == ToSet(p)
           t == Tail(p)
<1>1. p \in Seq(S)
  BY DEF List
<1> HIDE DEF S
<1>2. t \in Seq(S) /\ Len(t) = Len(p) - 1 /\ \A i \in 1..Len(t) : t[i] = p[i + 1]
  BY <1>1, HeadTailProperties
<1>3. Len(p) \in Nat /\ DOMAIN p = 1..Len(p) /\ Head(p) = p[1]
  BY <1>1
<1> HIDE DEF t
<1>4. Len(t) \in Nat /\ DOMAIN t = 1..Len(t)
  BY <1>2
<1>5. List(t)
  <2>1. t = [i \in 1..Len(t) |-> t[i]]
    BY <1>2
  <2>2. \A i \in 1..Len(t) : t[i] \in ToSet(t)
    BY <1>4 DEF ToSet
  <2>3. t \in [1..Len(t) -> ToSet(t)]
    BY <2>1, <2>2
  <2> QED
    BY <2>3, <1>4, SeqDef DEF List
<1> QED
  BY <1>2, <1>3, <1>4, <1>5 DEF IsTail, t

LEMMA TailSets ==
  ASSUME NEW p, List(p), p # <<>>
  PROVE  /\ Added(p) = Added(Tail(p)) \cup (IF Head(p).op = "add" THEN {Head(p).what} ELSE {})
         /\ Filled(p) = Filled(Tail(p)) \cup (IF Head(p).op = "fill" THEN {Head(p).what} ELSE {})
         /\ Dropped(p) = Dropped(Tail(p)) \cup (IF Head(p).op = "drop" THEN {Head(p).what} ELSE {})
<1> DEFINE t == Tail(p)
<1>1. IsTail(p, t)
  BY Tailed
<1> HIDE DEF t
<1>2. /\ 1 \in DOMAIN p /\ Head(p) = p[1]
      /\ \A k \in DOMAIN p : k = 1 \/ (k - 1 \in DOMAIN t /\ p[k] = t[k - 1])
      /\ \A k \in DOMAIN t : k + 1 \in DOMAIN p /\ p[k + 1] = t[k]
  <2>1. \A k \in DOMAIN p : k = 1 \/ (k - 1 \in DOMAIN t /\ p[k] = t[k - 1])
    <3> TAKE k \in DOMAIN p
    <3>1. CASE k # 1
      <4>1. k - 1 \in 1..Len(t) /\ (k - 1) + 1 = k
        BY <1>1, <3>1 DEF IsTail
      <4> QED
        BY <1>1, <4>1 DEF IsTail
    <3> QED
      BY <3>1
  <2> QED
    BY <1>1, <2>1 DEF IsTail
<1>3. \A o : o \in Added(p) <=> o \in Added(t) \/ (Head(p).op = "add" /\ o = Head(p).what)
  BY <1>2, Members
<1>4. \A o : o \in Filled(p) <=> o \in Filled(t) \/ (Head(p).op = "fill" /\ o = Head(p).what)
  BY <1>2, Members
<1>5. \A o : o \in Dropped(p) <=> o \in Dropped(t) \/ (Head(p).op = "drop" /\ o = Head(p).what)
  BY <1>2, Members
<1> QED
  BY <1>3, <1>4, <1>5 DEF t

-----------------------------------------------------------------------------
(***************************************************************************)
(* Ready, of a joined script and of the tail of a plan.                    *)
(***************************************************************************)
Builds(p)  == \A i \in DOMAIN p : p[i].op \in {"skip", "add", "fill", "stamp"}
Removes(p) == \A i \in DOMAIN p : p[i].op \in {"drop", "stamp"}

Left(has, p) == {o \in has : \A d \in Dropped(p) : ~Belongs(o, d)}

\* Where a member of a joined script, and those before it, come from.
InFirst(p, s, k) == /\ k \in DOMAIN p /\ s[k] = p[k]
                    /\ \A j \in 1..(k - 1) : j \in DOMAIN p /\ s[j] = p[j]

InSecond(p, q, s, k, i) ==
    /\ s[k] = q[i]
    /\ \A j \in DOMAIN p : j \in 1..(k - 1) /\ s[j] = p[j]
    /\ \A j \in 1..(i - 1) : \E h \in 1..(k - 1) : s[h] = q[j]
    /\ \A h \in 1..(k - 1) : (\E j \in DOMAIN p : s[h] = p[j]) \/ (\E j \in 1..(i - 1) : s[h] = q[j])

LEMMA Places ==
  ASSUME NEW p, NEW q, NEW s, IsJoin(p, q, s), NEW k \in DOMAIN s
  PROVE  InFirst(p, s, k) \/ \E i \in DOMAIN q : InSecond(p, q, s, k, i)
<1> DEFINE m == Len(p)
           n == Len(q)
<1>1. /\ m \in Nat /\ n \in Nat /\ k \in 1..(m + n)
      /\ DOMAIN p = 1..m /\ DOMAIN q = 1..n
  BY DEF IsJoin
<1>2. \A j \in 1..m : s[j] = p[j]
  BY DEF IsJoin
<1>3. \A j \in 1..n : s[m + j] = q[j]
  BY DEF IsJoin
<1> HIDE DEF m, n
<1>4. CASE k <= m
  <2>1. k \in 1..m /\ \A j \in 1..(k - 1) : j \in 1..m
    BY <1>1, <1>4
  <2> QED
    BY <1>1, <1>2, <2>1 DEF InFirst
<1>5. CASE k > m
  <2> DEFINE i == k - m
  <2>1. i \in 1..n /\ k = m + i
    BY <1>1, <1>5
  <2> HIDE DEF i
  <2>2. s[k] = q[i]
    BY <1>3, <2>1
  <2>3. \A j \in 1..m : j \in 1..(k - 1) /\ s[j] = p[j]
    BY <1>1, <1>2, <1>5
  <2>4. \A j \in 1..(i - 1) : m + j \in 1..(k - 1) /\ j \in 1..n
    BY <1>1, <2>1
  <2>5. \A j \in 1..(i - 1) : \E h \in 1..(k - 1) : s[h] = q[j]
    BY <1>3, <2>4
  <2>6. \A h \in 1..(k - 1) : (\E j \in 1..m : s[h] = p[j]) \/ (\E j \in 1..(i - 1) : s[h] = q[j])
    <3> TAKE h \in 1..(k - 1)
    <3>1. CASE h <= m
      <4>1. h \in 1..m
        BY <1>1, <3>1
      <4> QED
        BY <1>2, <4>1
    <3>2. CASE h > m
      <4>1. h - m \in 1..(i - 1) /\ h - m \in 1..n /\ m + (h - m) = h
        BY <1>1, <2>1, <3>2
      <4>2. s[m + (h - m)] = q[h - m]
        BY <1>3, <4>1
      <4> QED
        BY <4>1, <4>2
    <3>3. h <= m \/ h > m
      BY <1>1
    <3> QED
      BY <3>1, <3>2, <3>3, Zenon
  <2>7. DOMAIN p = 1..m /\ DOMAIN q = 1..n
    BY <1>1
  <2>8. InSecond(p, q, s, k, i)
    BY <2>2, <2>3, <2>5, <2>6, <2>7, Zenon DEF InSecond
  <2> QED
    BY <2>1, <2>7, <2>8
<1> QED
  BY <1>1, <1>4, <1>5

\* A script is ready if its first part is, and its second part is after it.
LEMMA BuildsInTurn ==
  ASSUME NEW on, NEW has, NEW p, NEW q, List(p), List(q), Builds(p), Builds(q),
         Ready(on, p, has), Ready(on, q, has \cup Added(p))
  PROVE  Ready(on, p \o q, has) /\ Builds(p \o q)
<1> DEFINE s == p \o q
<1>0. IsJoin(p, q, s)
  BY Joined
<1> HIDE DEF s
<1> SUFFICES ASSUME NEW k \in DOMAIN s
             PROVE  Finds(on, s, k, has) /\ s[k].op \in {"skip", "add", "fill", "stamp"}
  BY DEF s, Ready, Builds
<1>1. CASE InFirst(p, s, k)
  <2>1. Finds(on, p, k, has) /\ p[k].op \in {"skip", "add", "fill", "stamp"}
    BY <1>1 DEF Ready, Builds, InFirst
  <2> QED
    BY <1>1, <2>1 DEF Finds, InFirst
<1>2. ASSUME NEW i \in DOMAIN q, InSecond(p, q, s, k, i)
      PROVE  Finds(on, s, k, has) /\ s[k].op \in {"skip", "add", "fill", "stamp"}
  <2>1. Finds(on, q, i, has \cup Added(p)) /\ q[i].op \in {"skip", "add", "fill", "stamp"}
    BY <1>2 DEF Ready, Builds
  <2>2. \A o : o \in Added(p) <=> \E j \in DOMAIN p : Adds(p[j], o)
    BY Members DEF Adds
  <2>3. \A o : (\E h \in 1..(k - 1) : Adds(s[h], o))
               <=> (o \in Added(p) \/ \E j \in 1..(i - 1) : Adds(q[j], o))
    BY <1>2, <2>2, Zenon DEF InSecond
  <2>4. CASE q[i].op = "add"
    <3>1. /\ q[i].what \notin has \cup Added(p)
          /\ \A j \in 1..(i - 1) : ~Adds(q[j], q[i].what)
          /\ \A n \in Needs(on, q[i].what) : n \in has \cup Added(p)
                                         \/ \E j \in 1..(i - 1) : Adds(q[j], n)
      BY <2>1, <2>4, Zenon DEF Finds
    <3>2. \A j \in 1..(k - 1) : ~Adds(s[j], q[i].what)
      BY <2>3, <3>1, Zenon
    <3>3. \A n \in Needs(on, q[i].what) : n \in has \/ \E j \in 1..(k - 1) : Adds(s[j], n)
      BY <2>3, <3>1
    <3> QED
      BY <1>2, <2>4, <3>1, <3>2, <3>3 DEF Finds, InSecond
  <2>5. CASE q[i].op = "fill"
    <3>1. q[i].what \in has \cup Added(p) \/ \E j \in 1..(i - 1) : Adds(q[j], q[i].what)
      BY <2>1, <2>5 DEF Finds
    <3>2. q[i].what \in has \/ \E j \in 1..(k - 1) : Adds(s[j], q[i].what)
      BY <2>3, <3>1
    <3> QED
      BY <1>2, <2>5, <3>2 DEF Finds, InSecond
  <2> QED
    BY <1>2, <2>1, <2>4, <2>5 DEF Finds, InSecond
<1> QED
  BY <1>0, <1>1, <1>2, Places

LEMMA RemovesInTurn ==
  ASSUME NEW on, NEW has, NEW p, NEW q, List(p), List(q), Removes(p), Removes(q),
         Ready(on, p, has), Ready(on, q, Left(has, p))
  PROVE  /\ Ready(on, p \o q, has) /\ Removes(p \o q)
         /\ Left(has, p \o q) = Left(Left(has, p), q)
<1> DEFINE s == p \o q
<1>0. IsJoin(p, q, s)
  BY Joined
<1>3. Left(has, s) = Left(Left(has, p), q)
  BY JoinedSets DEF Left
<1> HIDE DEF s
<1> SUFFICES ASSUME NEW k \in DOMAIN s
             PROVE  Finds(on, s, k, has) /\ s[k].op \in {"drop", "stamp"}
  BY <1>3 DEF s, Ready, Removes
<1>1. CASE InFirst(p, s, k)
  <2>1. Finds(on, p, k, has) /\ p[k].op \in {"drop", "stamp"}
    BY <1>1 DEF Ready, Removes, InFirst
  <2> QED
    BY <1>1, <2>1 DEF Finds, InFirst
<1>2. ASSUME NEW i \in DOMAIN q, InSecond(p, q, s, k, i)
      PROVE  Finds(on, s, k, has) /\ s[k].op \in {"drop", "stamp"}
  <2>1. Finds(on, q, i, Left(has, p)) /\ q[i].op \in {"drop", "stamp"}
    BY <1>2 DEF Ready, Removes
  <2>2. \A o : o \in Left(has, p) <=> o \in has /\ ~\E j \in DOMAIN p : Takes(p[j], o)
    BY Members DEF Takes, Left
  <2>3. \A o : (\E h \in 1..(k - 1) : Takes(s[h], o))
               <=> ((\E j \in DOMAIN p : Takes(p[j], o)) \/ (\E j \in 1..(i - 1) : Takes(q[j], o)))
    BY <1>2, Zenon DEF InSecond
  <2>4. CASE q[i].op = "drop"
    <3>1. /\ q[i].what \in Left(has, p)
          /\ \A j \in 1..(i - 1) : ~Takes(q[j], q[i].what)
          /\ \A b \in Blocks(on, q[i].what) : b \in Left(has, p) => \E j \in 1..(i - 1) : Takes(q[j], b)
      BY <2>1, <2>4, Zenon DEF Finds
    <3>2. q[i].what \in has /\ \A j \in 1..(k - 1) : ~Takes(s[j], q[i].what)
      BY <2>2, <2>3, <3>1, Zenon
    <3>3. \A b \in Blocks(on, q[i].what) : b \in has => \E j \in 1..(k - 1) : Takes(s[j], b)
      BY <2>2, <2>3, <3>1, Zenon
    <3> QED
      BY <1>2, <2>4, <3>2, <3>3 DEF Finds, InSecond
  <2> QED
    BY <1>2, <2>1, <2>4 DEF Finds, InSecond
<1> QED
  BY <1>0, <1>1, <1>2, Places

\* The objects after a statement.
After(s, has) == CASE s.op = "add" -> has \cup {s.what}
                   [] s.op = "drop" -> {o \in has : ~Belongs(o, s.what)}
                   [] OTHER -> has

\* The first statement of a plan that is ready is accepted.
LEMMA FirstAccepted ==
  ASSUME NEW on, NEW has, NEW p, List(p), p # <<>>, Ready(on, p, has)
  PROVE  Accepts(on, Head(p), has)
<1>1. IsTail(p, Tail(p))
  BY Tailed
<1>2. 1 \in DOMAIN p /\ Head(p) = p[1]
  BY <1>1 DEF IsTail
<1>3. Finds(on, p, 1, has)
  BY <1>2 DEF Ready
<1>4. 1..(1 - 1) = {}
  OBVIOUS
<1> QED
  BY <1>2, <1>3, <1>4 DEF Finds, Accepts

\* What a plan that is ready adds is new.
LEMMA AddsNew ==
  ASSUME NEW on, NEW has, NEW p, Ready(on, p, has)
  PROVE  Added(p) \cap has = {}
BY Members DEF Ready, Finds

\* The places of a plan behind its first statement.
Behind(p, t, i) == /\ p[i + 1] = t[i] /\ i + 1 \in DOMAIN p
                   /\ p[1] = Head(p) /\ 1 \in 1..((i + 1) - 1)
                   /\ \A j \in 1..(i - 1) : \E h \in 1..((i + 1) - 1) : p[h] = t[j]
                   /\ \A h \in 1..((i + 1) - 1) : p[h] = Head(p) \/ \E j \in 1..(i - 1) : p[h] = t[j]

LEMMA Behinds ==
  ASSUME NEW p, NEW t, IsTail(p, t), NEW i \in DOMAIN t
  PROVE  Behind(p, t, i)
<1>1. /\ Len(t) \in Nat /\ i \in 1..Len(t) /\ DOMAIN p = 1..(Len(t) + 1)
      /\ Head(p) = p[1]
  BY DEF IsTail
<1>2. \A j \in 1..Len(t) : t[j] = p[j + 1]
  BY DEF IsTail
<1>3. \A j \in 1..(i - 1) : j \in 1..Len(t) /\ j + 1 \in 1..((i + 1) - 1)
  BY <1>1
<1>4. \A j \in 1..(i - 1) : \E h \in 1..((i + 1) - 1) : p[h] = t[j]
  BY <1>2, <1>3
<1>5. \A h \in 1..((i + 1) - 1) : p[h] = Head(p) \/ \E j \in 1..(i - 1) : p[h] = t[j]
  <2> TAKE h \in 1..((i + 1) - 1)
  <2>1. CASE h # 1
    <3>1. h - 1 \in 1..(i - 1) /\ h - 1 \in 1..Len(t) /\ (h - 1) + 1 = h
      BY <1>1, <2>1
    <3>2. t[h - 1] = p[(h - 1) + 1]
      BY <1>2, <3>1
    <3> QED
      BY <3>1, <3>2
  <2> QED
    BY <1>1, <2>1
<1>6. i + 1 \in 1..(Len(t) + 1) /\ 1 \in 1..((i + 1) - 1)
  BY <1>1
<1>7. p[i + 1] = t[i]
  BY <1>1, <1>2
<1> QED
  BY <1>1, <1>4, <1>5, <1>6, <1>7 DEF Behind

\* The rest of a plan that is ready is ready after its first statement.
LEMMA RestReady ==
  ASSUME NEW on, NEW has, NEW p, List(p), p # <<>>, Builds(p) \/ Removes(p), Ready(on, p, has)
  PROVE  Ready(on, Tail(p), After(Head(p), has))
<1> DEFINE t == Tail(p)
           now == After(Head(p), has)
<1>1. IsTail(p, t)
  BY Tailed
<1> HIDE DEF t
<1> SUFFICES ASSUME NEW i \in DOMAIN t
             PROVE  Finds(on, t, i, now)
  BY DEF Ready, t
<1>2. Behind(p, t, i)
  BY <1>1, Behinds
<1>3. Finds(on, p, i + 1, has)
  BY <1>2 DEF Ready, Behind
<1>4. 1 \in DOMAIN p /\ Head(p) = p[1]
  BY <1>1 DEF IsTail
<1>5. t[i].op = "add" \/ t[i].op = "fill" => Head(p).op # "drop"
  BY <1>2, <1>4 DEF Builds, Removes, Behind
<1>6. t[i].op = "drop" => Head(p).op # "add"
  BY <1>2, <1>4 DEF Builds, Removes, Behind
<1>7. Head(p).op # "drop" => \A o : o \in now <=> o \in has \/ Adds(Head(p), o)
  BY DEF After, Adds
<1>8. Head(p).op # "add" => \A o : o \in now <=> o \in has /\ ~Takes(Head(p), o)
  BY DEF After, Takes
<1> HIDE DEF now
<1>9. \A o : (\E h \in 1..((i + 1) - 1) : Adds(p[h], o))
              <=> (Adds(Head(p), o) \/ \E j \in 1..(i - 1) : Adds(t[j], o))
  BY <1>2, Zenon DEF Behind
<1>10. \A o : (\E h \in 1..((i + 1) - 1) : Takes(p[h], o))
              <=> (Takes(Head(p), o) \/ \E j \in 1..(i - 1) : Takes(t[j], o))
  BY <1>2, Zenon DEF Behind
<1>11. p[i + 1] = t[i]
  BY <1>2 DEF Behind
<1>12. CASE t[i].op = "add"
  <2>1. /\ t[i].what \notin has
        /\ \A j \in 1..((i + 1) - 1) : ~Adds(p[j], t[i].what)
        /\ \A n \in Needs(on, t[i].what) : n \in has \/ \E j \in 1..((i + 1) - 1) : Adds(p[j], n)
    BY <1>3, <1>11, <1>12, Zenon DEF Finds
  <2>2. t[i].what \notin now /\ \A j \in 1..(i - 1) : ~Adds(t[j], t[i].what)
    BY <1>5, <1>7, <1>9, <1>12, <2>1, Zenon
  <2>3. \A n \in Needs(on, t[i].what) : n \in now \/ \E j \in 1..(i - 1) : Adds(t[j], n)
    BY <1>5, <1>7, <1>9, <1>12, <2>1, Zenon
  <2> QED
    BY <1>12, <2>2, <2>3 DEF Finds
<1>13. CASE t[i].op = "fill"
  <2>1. t[i].what \in has \/ \E j \in 1..((i + 1) - 1) : Adds(p[j], t[i].what)
    BY <1>3, <1>11, <1>13, Zenon DEF Finds
  <2>2. t[i].what \in now \/ \E j \in 1..(i - 1) : Adds(t[j], t[i].what)
    BY <1>5, <1>7, <1>9, <1>13, <2>1, Zenon
  <2> QED
    BY <1>13, <2>2 DEF Finds
<1>14. CASE t[i].op = "drop"
  <2>1. /\ t[i].what \in has
        /\ \A j \in 1..((i + 1) - 1) : ~Takes(p[j], t[i].what)
        /\ \A b \in Blocks(on, t[i].what) :
               b \in has => \E j \in 1..((i + 1) - 1) : Takes(p[j], b)
    BY <1>3, <1>11, <1>14, Zenon DEF Finds
  <2>2. t[i].what \in now /\ \A j \in 1..(i - 1) : ~Takes(t[j], t[i].what)
    BY <1>6, <1>8, <1>10, <1>14, <2>1, Zenon
  <2>3. \A b \in Blocks(on, t[i].what) : b \in now => \E j \in 1..(i - 1) : Takes(t[j], b)
    BY <1>6, <1>8, <1>10, <1>14, <2>1, Zenon
  <2> QED
    BY <1>14, <2>2, <2>3 DEF Finds
<1> QED
  BY <1>12, <1>13, <1>14 DEF Finds

-----------------------------------------------------------------------------
(***************************************************************************)
(* Lists of names and of objects.                                          *)
(***************************************************************************)
\* A list without repetitions, and what it holds.
Lists(s, S) == /\ List(s) /\ ToSet(s) = S /\ Len(s) \in Nat /\ DOMAIN s = 1..Len(s)
               /\ \A i, j \in DOMAIN s : s[i] = s[j] => i = j

LEMMA ListIntro ==
  ASSUME NEW n \in Nat, NEW f, f = [i \in 1..n |-> f[i]]
  PROVE  List(f) /\ Len(f) = n /\ DOMAIN f = 1..n
<1>1. DOMAIN f = 1..n
  OBVIOUS
<1>2. \A i \in 1..n : f[i] \in ToSet(f)
  BY <1>1 DEF ToSet
<1>3. f \in [1..n -> ToSet(f)]
  BY <1>2
<1>4. f \in Seq(ToSet(f))
  BY <1>3, SeqDef
<1>5. Len(f) \in Nat /\ DOMAIN f = 1..Len(f)
  BY <1>4
<1>6. Len(f) = n
  BY <1>1, <1>5
<1> QED
  BY <1>1, <1>4, <1>6 DEF List

LEMMA OneName ==
  ASSUME NEW a
  PROVE  Lists(<<a>>, {a})
<1>1. List(<<a>>)
  <2>1. <<a>> \in Seq({a})
    OBVIOUS
  <2>2. ToSet(<<a>>) = {a}
    BY DEF ToSet
  <2> QED
    BY <2>1, <2>2 DEF List
<1> QED
  BY <1>1 DEF Lists, ToSet

LEMMA TwoNames ==
  ASSUME NEW a, NEW b, a # b
  PROVE  Lists(<<a, b>>, {a, b})
<1>1. ToSet(<<a, b>>) = {a, b}
  BY DEF ToSet
<1>2. List(<<a, b>>)
  <2>1. <<a, b>> \in Seq({a, b})
    OBVIOUS
  <2> QED
    BY <1>1, <2>1 DEF List
<1>3. Len(<<a, b>>) = 2 /\ DOMAIN <<a, b>> = 1..2
  OBVIOUS
<1>4. \A i, j \in 1..2 : <<a, b>>[i] = <<a, b>>[j] => i = j
  OBVIOUS
<1> QED
  BY <1>1, <1>2, <1>3, <1>4 DEF Lists

LEMMA Reversed ==
  ASSUME NEW s, NEW S, Lists(s, S)
  PROVE  Lists(Reverse(s), S)
<1> DEFINE n == Len(s)
           r == Reverse(s)
<1>1. n \in Nat /\ DOMAIN s = 1..n /\ ToSet(s) = S /\ \A i, j \in 1..n : s[i] = s[j] => i = j
  BY DEF Lists
<1>2. r = [i \in 1..n |-> s[(n - i) + 1]]
  BY DEF Reverse
<1> HIDE DEF n, r
<1>3. r = [i \in 1..n |-> r[i]]
  BY <1>2
<1>4. List(r) /\ Len(r) = n /\ DOMAIN r = 1..n
  BY <1>1, <1>3, ListIntro
<1>5. \A i \in 1..n : (n - i) + 1 \in 1..n /\ (n - ((n - i) + 1)) + 1 = i
  BY <1>1
<1>6. \A i \in 1..n : r[i] = s[(n - i) + 1]
  BY <1>2
<1>7. \A i, j \in 1..n : r[i] = r[j] => i = j
  BY <1>1, <1>5, <1>6
<1>8. \A i \in 1..n : s[i] = r[(n - i) + 1]
  BY <1>5, <1>6
<1>9. \A x : x \in ToSet(r) <=> x \in ToSet(s)
  BY <1>1, <1>4, <1>5, <1>6, <1>8 DEF ToSet
<1> QED
  BY <1>1, <1>4, <1>7, <1>9 DEF Lists, r

LEMMA ContractNames ==
  Lists(ContractColumns, {"request_id", "session_id", "trace_id", "task_type",
                          "user_constraints", "priority", "deadline", "attachments"})
<1> DEFINE S == {"request_id", "session_id", "trace_id", "task_type",
                 "user_constraints", "priority", "deadline", "attachments"}
<1>1. Len(ContractColumns) = 8 /\ DOMAIN ContractColumns = 1..8 /\ ContractColumns \in Seq(S)
  BY DEF ContractColumns
<1>2. ToSet(ContractColumns) = S
  BY DEF ToSet, ContractColumns
<1>3. \A i, j \in 1..8 : ContractColumns[i] = ContractColumns[j] => i = j
  BY DEF ContractColumns
<1> QED
  BY <1>1, <1>2, <1>3 DEF Lists, List

LEMMA FilledNames ==
  Lists(FilledColumns, {"request_id", "session_id", "trace_id", "task_type",
                        "user_constraints", "priority", "attachments"})
<1> DEFINE S == {"request_id", "session_id", "trace_id", "task_type",
                 "user_constraints", "priority", "attachments"}
<1>1. Len(FilledColumns) = 7 /\ DOMAIN FilledColumns = 1..7 /\ FilledColumns \in Seq(S)
  BY DEF FilledColumns
<1>2. ToSet(FilledColumns) = S
  BY DEF ToSet, FilledColumns
<1>3. \A i, j \in 1..7 : FilledColumns[i] = FilledColumns[j] => i = j
  BY DEF FilledColumns
<1> QED
  BY <1>1, <1>2, <1>3 DEF Lists, List

LEMMA KeyNames == Lists(Keys, {"request_id", "session_id", "trace_id"})
<1>1. Len(Keys) = 3 /\ DOMAIN Keys = 1..3 /\ Keys \in Seq({"request_id", "session_id", "trace_id"})
  BY DEF Keys
<1>2. ToSet(Keys) = {"request_id", "session_id", "trace_id"}
  BY DEF ToSet, Keys
<1>3. \A i, j \in 1..3 : Keys[i] = Keys[j] => i = j
  BY DEF Keys
<1> QED
  BY <1>1, <1>2, <1>3 DEF Lists, List

LEMMA OutboxNames ==
  Lists(OutboxIndexed, {"event_type", "aggregate_id", "run_id", "request_id", "status"})
<1> DEFINE S == {"event_type", "aggregate_id", "run_id", "request_id", "status"}
<1>1. Len(OutboxIndexed) = 5 /\ DOMAIN OutboxIndexed = 1..5 /\ OutboxIndexed \in Seq(S)
  BY DEF OutboxIndexed
<1>2. ToSet(OutboxIndexed) = S
  BY DEF ToSet, OutboxIndexed
<1>3. \A i, j \in 1..5 : OutboxIndexed[i] = OutboxIndexed[j] => i = j
  BY DEF OutboxIndexed
<1> QED
  BY <1>1, <1>2, <1>3 DEF Lists, List

LEMMA ObjectsListed ==
  ASSUME NEW t, NEW cols, NEW S, Lists(cols, S)
  PROVE  /\ Lists(Columns(t, cols), {Column(t, c) : c \in S})
         /\ Lists(Indexes(t, cols), {Index(t, c) : c \in S})
<1> DEFINE n == Len(cols)
           x == Columns(t, cols)
           y == Indexes(t, cols)
<1>1. n \in Nat /\ DOMAIN cols = 1..n /\ ToSet(cols) = S
      /\ \A i, j \in 1..n : cols[i] = cols[j] => i = j
  BY DEF Lists
<1> HIDE DEF n
<1>2. x = [i \in 1..n |-> Column(t, cols[i])] /\ y = [i \in 1..n |-> Index(t, cols[i])]
  BY <1>1 DEF Columns, Indexes
<1> HIDE DEF x, y
<1>3. x = [i \in 1..n |-> x[i]] /\ y = [i \in 1..n |-> y[i]]
  BY <1>2
<1>4. /\ List(x) /\ Len(x) = n /\ DOMAIN x = 1..n
      /\ List(y) /\ Len(y) = n /\ DOMAIN y = 1..n
  BY <1>1, <1>3, ListIntro
<1>5. \A i \in 1..n : x[i] = Column(t, cols[i]) /\ y[i] = Index(t, cols[i])
  BY <1>2
<1>6. \A c, d : (Column(t, c) = Column(t, d) => c = d) /\ (Index(t, c) = Index(t, d) => c = d)
  BY DEF Column, Index
<1>7. \A i, j \in 1..n : (x[i] = x[j] => i = j) /\ (y[i] = y[j] => i = j)
  BY <1>1, <1>5, <1>6
<1>8. \A c : c \in S <=> \E i \in 1..n : cols[i] = c
  BY <1>1 DEF ToSet
<1>9. \A o : /\ o \in ToSet(x) <=> o \in {Column(t, c) : c \in S}
             /\ o \in ToSet(y) <=> o \in {Index(t, c) : c \in S}
  BY <1>4, <1>5, <1>8 DEF ToSet
<1> QED
  BY <1>1, <1>4, <1>7, <1>9 DEF Lists, x, y

-----------------------------------------------------------------------------
(***************************************************************************)
(* The parts upgrades are made of: what each adds and fills, and when it   *)
(* is ready.                                                               *)
(***************************************************************************)
Part(p, adds, fills) ==
    /\ List(p) /\ \A i \in DOMAIN p : p[i].op \in {"skip", "add", "fill"}
    /\ Added(p) = adds /\ Filled(p) = fills /\ Dropped(p) = {}

LEMMA JoinedOps ==
  ASSUME NEW p, NEW q, List(p), List(q), NEW ops,
         \A i \in DOMAIN p : p[i].op \in ops, \A i \in DOMAIN q : q[i].op \in ops
  PROVE  List(p \o q) /\ \A i \in DOMAIN (p \o q) : (p \o q)[i].op \in ops
<1> DEFINE s == p \o q
<1>1. IsJoin(p, q, s)
  BY Joined
<1> HIDE DEF s
<1>2. \A k \in DOMAIN s : s[k].op \in ops
  BY <1>1, Places DEF InFirst, InSecond
<1> QED
  BY <1>1, <1>2 DEF IsJoin, s

LEMMA JoinedParts ==
  ASSUME NEW p, NEW q, NEW A, NEW B, NEW F, NEW G, Part(p, A, F), Part(q, B, G)
  PROVE  Part(p \o q, A \cup B, F \cup G)
<1>1. List(p) /\ List(q)
  BY DEF Part
<1>2. List(p \o q) /\ \A i \in DOMAIN (p \o q) : (p \o q)[i].op \in {"skip", "add", "fill"}
  BY <1>1, JoinedOps DEF Part
<1>3. /\ Added(p \o q) = Added(p) \cup Added(q)
      /\ Filled(p \o q) = Filled(p) \cup Filled(q)
      /\ Dropped(p \o q) = Dropped(p) \cup Dropped(q)
  BY <1>1, JoinedSets
<1>4. /\ Added(p) = A /\ Filled(p) = F /\ Dropped(p) = {}
      /\ Added(q) = B /\ Filled(q) = G /\ Dropped(q) = {}
  BY DEF Part
<1>5. Added(p \o q) = A \cup B /\ Filled(p \o q) = F \cup G /\ Dropped(p \o q) = {}
  BY <1>3, <1>4
<1> QED
  BY <1>2, <1>5 DEF Part

\* A part that is ready after another makes the two ready.
LEMMA PartsInTurn ==
  ASSUME NEW on, NEW has, NEW p, NEW q, NEW A, NEW B, NEW F, NEW G,
         Part(p, A, F), Part(q, B, G), Ready(on, p, has), Ready(on, q, has \cup A)
  PROVE  Ready(on, p \o q, has)
<1>1. List(p) /\ List(q) /\ Builds(p) /\ Builds(q) /\ Added(p) = A
  BY DEF Part, Builds
<1> QED
  BY <1>1, BuildsInTurn

LEMMA NothingPart ==
  ASSUME NEW on, NEW has
  PROVE  Part(<<>>, {}, {}) /\ Ready(on, <<>>, has)
<1>1. DOMAIN <<>> = {}
  OBVIOUS
<1>2. List(<<>>)
  BY DEF List
<1>3. Added(<<>>) = {} /\ Filled(<<>>) = {} /\ Dropped(<<>>) = {}
  BY <1>1, Members
<1> QED
  BY <1>1, <1>2, <1>3 DEF Part, Ready

LEMMA OnePart ==
  ASSUME NEW o
  PROVE  /\ Part(<<Add(o)>>, {o}, {})
         /\ \A on, has : o \notin has /\ Needs(on, o) \subseteq has => Ready(on, <<Add(o)>>, has)
<1> DEFINE p == <<Add(o)>>
<1>1. List(p)
  BY OneName DEF Lists
<1>2. DOMAIN p = {1} /\ p[1].op = "add" /\ p[1].what = o
  BY DEF Add
<1> HIDE DEF p
<1>3. Added(p) = {o} /\ Filled(p) = {} /\ Dropped(p) = {}
  BY <1>2, Members
<1>4. ASSUME NEW on, NEW has, o \notin has, Needs(on, o) \subseteq has
      PROVE  Ready(on, p, has)
  <2>1. 1..(1 - 1) = {}
    OBVIOUS
  <2> QED
    BY <1>2, <1>4, <2>1 DEF Ready, Finds
<1> QED
  BY <1>1, <1>2, <1>3, <1>4 DEF Part, p

LEMMA MissingPart ==
  ASSUME NEW objs, NEW S, Lists(objs, S), NEW has
  PROVE  /\ Part(Missing(objs, has), S \ has, {})
         /\ \A on, now : (S \cap now \subseteq has /\ \A o \in S \ has : Needs(on, o) \subseteq now)
                            => Ready(on, Missing(objs, has), now)
<1> DEFINE p == Missing(objs, has)
           n == Len(objs)
<1>1. n \in Nat /\ DOMAIN objs = 1..n /\ ToSet(objs) = S /\ \A i, j \in 1..n : objs[i] = objs[j] => i = j
  BY DEF Lists
<1> HIDE DEF n
<1>2. p = [i \in 1..n |-> IF objs[i] \in has THEN Skip(objs[i]) ELSE Add(objs[i])]
  BY <1>1 DEF Missing
<1> HIDE DEF p
<1>3. p = [i \in 1..n |-> p[i]]
  BY <1>2
<1>4. List(p) /\ Len(p) = n /\ DOMAIN p = 1..n
  BY <1>1, <1>3, ListIntro
<1>5. \A i \in 1..n : p[i].op = (IF objs[i] \in has THEN "skip" ELSE "add") /\ p[i].what = objs[i]
  BY <1>2 DEF Skip, Add
<1>6. \A o : o \in S <=> \E i \in 1..n : objs[i] = o
  BY <1>1 DEF ToSet
<1>7. Added(p) = S \ has /\ Filled(p) = {} /\ Dropped(p) = {}
  BY <1>4, <1>5, <1>6, Members
<1>8. ASSUME NEW on, NEW now, S \cap now \subseteq has, \A o \in S \ has : Needs(on, o) \subseteq now
      PROVE  Ready(on, p, now)
  <2> SUFFICES ASSUME NEW i \in 1..n, p[i].op = "add"
               PROVE  Finds(on, p, i, now)
    BY <1>4, <1>5 DEF Ready, Finds
  <2>1. p[i].what = objs[i] /\ objs[i] \in S \ has
    BY <1>5, <1>6
  <2>2. \A j \in 1..(i - 1) : j \in 1..n /\ j # i
    BY <1>1
  <2>3. \A j \in 1..(i - 1) : ~Adds(p[j], p[i].what)
    BY <1>1, <1>5, <2>1, <2>2 DEF Adds
  <2>4. p[i].what \notin now /\ Needs(on, p[i].what) \subseteq now
    BY <1>8, <2>1
  <2> QED
    BY <2>3, <2>4 DEF Finds
<1> QED
  BY <1>4, <1>5, <1>7, <1>8 DEF Part, p

LEMMA ObjectFields ==
  ASSUME NEW t, NEW c
  PROVE  /\ Table(t).kind = "table" /\ Table(t).of = t /\ Table(t).name = t
         /\ Column(t, c).kind = "column" /\ Column(t, c).of = t /\ Column(t, c).name = c
         /\ Index(t, c).kind = "index" /\ Index(t, c).of = t /\ Index(t, c).name = c
         /\ Table(t) # Column(t, c) /\ Table(t) # Index(t, c) /\ Column(t, c) # Index(t, c)
<1>1. Table(t).kind # Column(t, c).kind /\ Table(t).kind # Index(t, c).kind
      /\ Column(t, c).kind # Index(t, c).kind
  BY DEF Table, Column, Index
<1> QED
  BY <1>1 DEF Table, Column, Index

LEMMA DeclaredObjects ==
  ASSUME NEW t, NEW cols, NEW o
  PROVE  /\ o \in Declared(t, cols) <=> o = Table(t) \/ \E c \in ToSet(cols) : o = Index(t, c)
         /\ o \in Declared(t, cols) => o.of = t
<1>1. o \in ToSet(Indexes(t, cols)) <=> \E c \in ToSet(cols) : o = Index(t, c)
  BY DEF Indexes, ToSet
<1>2. o \in Declared(t, cols) <=> o = Table(t) \/ \E c \in ToSet(cols) : o = Index(t, c)
  BY <1>1 DEF Declared
<1> QED
  BY <1>2, ObjectFields

\* What columns and indexes need: their table, and an index of a column
\* added later that column.
LEMMA NeedsOfColumns ==
  ASSUME NEW on, NEW t, NEW c
  PROVE  /\ Needs(on, Column(t, c)) = {Table(t)}
         /\ Needs(on, Index(t, c)) \subseteq {Table(t), Column("runs", c)}
         /\ ~Late(Index(t, c)) => Needs(on, Index(t, c)) = {Table(t)}
<1>1. ~IsTable(Column(t, c)) /\ ~IsTable(Index(t, c)) /\ ~IsIndex(Column(t, c))
  BY ObjectFields DEF IsTable, IsIndex
<1>2. Column(t, c).of = t /\ Index(t, c).of = t /\ Index(t, c).name = c
  BY ObjectFields
<1>3. Needs(on, Column(t, c)) = {Table(t)}
  BY <1>1, <1>2 DEF Needs
<1>4. Needs(on, Index(t, c)) = {Table(t)} \cup {p \in {Column("runs", c)} : Late(Index(t, c))}
  BY <1>1, <1>2 DEF Needs, IsIndex, Index
<1> QED
  BY <1>3, <1>4

LEMMA CreatePart ==
  ASSUME NEW t, NEW cols, NEW S, Lists(cols, S)
  PROVE  /\ Part(CreateTable(t, cols), Declared(t, cols), {})
         /\ \A on, has : /\ \A o \in has : o.of # t
                         /\ Needs(on, Table(t)) \subseteq has
                         /\ \A c \in S : ~Late(Index(t, c))
                         => Ready(on, CreateTable(t, cols), has)
<1> DEFINE x == Indexes(t, cols)
           I == {Index(t, c) : c \in S}
           a == <<Add(Table(t))>>
           b == AddAll(x)
<1>1. Lists(x, I)
  BY ObjectsListed
<1>2. b = Missing(x, {})
  BY DEF AddAll, Missing
<1>3. Part(b, I, {})
  BY <1>1, <1>2, MissingPart
<1>4. Part(a, {Table(t)}, {})
  BY OnePart
<1>5. Declared(t, cols) = {Table(t)} \cup I
  BY <1>1 DEF Declared, Lists
<1>6. Part(a \o b, Declared(t, cols), {})
  BY <1>3, <1>4, <1>5, JoinedParts
<1>7. ASSUME NEW on, NEW has, \A o \in has : o.of # t, Needs(on, Table(t)) \subseteq has,
             \A c \in S : ~Late(Index(t, c))
      PROVE  Ready(on, a \o b, has)
  <2>1. Table(t) \notin has
    BY <1>7, ObjectFields
  <2>2. Ready(on, a, has)
    BY <1>7, <2>1, OnePart
  <2>3. I \cap (has \cup {Table(t)}) \subseteq {}
    BY <1>7, ObjectFields
  <2>4. \A o \in I \ {} : Needs(on, o) \subseteq has \cup {Table(t)}
    BY <1>7, NeedsOfColumns
  <2> HIDE DEF I, x, a
  <2>6. \A s, now : (I \cap now \subseteq {} /\ \A o \in I \ {} : Needs(s, o) \subseteq now)
                       => Ready(s, Missing(x, {}), now)
    BY <1>1, MissingPart, Zenon
  <2>5. Ready(on, b, has \cup {Table(t)})
    BY <1>2, <2>3, <2>4, <2>6
  <2> HIDE DEF b
  <2> QED
    BY <1>3, <1>4, <2>2, <2>5, PartsInTurn
<1> QED
  BY <1>6, <1>7 DEF CreateTable

\* A table with its indexes, unless the table is there.
New(t, cols, has) == IF Table(t) \in has THEN {} ELSE Declared(t, cols)

LEMMA MissingTablePart ==
  ASSUME NEW t, NEW cols, NEW S, Lists(cols, S), NEW has
  PROVE  /\ Part(MissingTable(t, cols, has), New(t, cols, has), {})
         /\ \A on, more :
                /\ Housed(has) /\ \A o \in more : o.of # t
                /\ Needs(on, Table(t)) \subseteq has \cup more
                /\ \A c \in S : ~Late(Index(t, c))
                => Ready(on, MissingTable(t, cols, has), has \cup more)
<1>1. CASE Table(t) \in has
  BY <1>1, NothingPart DEF MissingTable, New
<1>2. CASE Table(t) \notin has
  <2>1. Part(CreateTable(t, cols), Declared(t, cols), {})
    BY CreatePart
  <2>2. ASSUME NEW on, NEW more, Housed(has), \A o \in more : o.of # t,
               Needs(on, Table(t)) \subseteq has \cup more, \A c \in S : ~Late(Index(t, c))
        PROVE  Ready(on, CreateTable(t, cols), has \cup more)
    <3>1. \A o \in has \cup more : o.of # t
      BY <1>2, <2>2 DEF Housed
    <3> QED
      BY <2>2, <3>1, CreatePart
  <2> QED
    BY <1>2, <2>1, <2>2 DEF MissingTable, New
<1> QED
  BY <1>1, <1>2

\* When a table can be created after more has been added to the schema that
\* the script's guards looked at.
Fits(on, has, more, t, S) == /\ Housed(has) /\ \A o \in more : o.of # t
                             /\ Needs(on, Table(t)) \subseteq has \cup more
                             /\ \A c \in S : ~Late(Index(t, c))

LEMMA MissingTableReady ==
  ASSUME NEW on, NEW has, NEW more, NEW t, NEW cols, NEW S, Lists(cols, S), Fits(on, has, more, t, S)
  PROVE  Ready(on, MissingTable(t, cols, has), has \cup more)
<1>1. \A s, m : /\ Housed(has) /\ \A o \in m : o.of # t
                /\ Needs(s, Table(t)) \subseteq has \cup m
                /\ \A c \in S : ~Late(Index(t, c))
                => Ready(s, MissingTable(t, cols, has), has \cup m)
  BY MissingTablePart, Zenon
<1> QED
  BY <1>1, Zenon DEF Fits

LEMMA FillsPart ==
  /\ Part(Fills, {}, Required)
  /\ \A on, has : Required \subseteq has => Ready(on, Fills, has)
<1> DEFINE n == Len(FilledColumns)
           S == {"request_id", "session_id", "trace_id", "task_type",
                 "user_constraints", "priority", "attachments"}
<1>1. n \in Nat /\ DOMAIN FilledColumns = 1..n /\ ToSet(FilledColumns) = S
  BY FilledNames DEF Lists
<1> HIDE DEF n
<1>2. Fills = [i \in 1..n |-> Fill(FilledColumns[i])]
  BY <1>1 DEF Fills
<1>3. Fills = [i \in 1..n |-> Fills[i]]
  BY <1>2
<1>4. List(Fills) /\ Len(Fills) = n /\ DOMAIN Fills = 1..n
  BY <1>1, <1>3, ListIntro
<1>5. \A i \in 1..n : Fills[i].op = "fill" /\ Fills[i].what = Column("runs", FilledColumns[i])
  BY <1>2 DEF Fill
<1>6. \A o : o \in Required <=> \E i \in 1..n : Column("runs", FilledColumns[i]) = o
  BY <1>1 DEF ToSet, Required
<1>7. Added(Fills) = {} /\ Filled(Fills) = Required /\ Dropped(Fills) = {}
  <2>1. \A o : o \notin Added(Fills) /\ o \notin Dropped(Fills)
    BY <1>4, <1>5, Members
  <2>2. \A o : o \in Filled(Fills) <=> \E i \in 1..n : Fills[i].op = "fill" /\ Fills[i].what = o
    BY <1>4, Members
  <2>3. \A o : o \in Filled(Fills) <=> o \in Required
    BY <1>5, <1>6, <2>2
  <2> QED
    BY <2>1, <2>3
<1>8. ASSUME NEW on, NEW has, Required \subseteq has
      PROVE  Ready(on, Fills, has)
  BY <1>4, <1>5, <1>6, <1>8 DEF Ready, Finds
<1> QED
  BY <1>4, <1>5, <1>7, <1>8 DEF Part

-----------------------------------------------------------------------------
(***************************************************************************)
(* The upgrades: what they add, and what the schema must have for them.    *)
(***************************************************************************)
LEMMA ForeignKeys ==
  ASSUME NEW x \in References
  PROVE  /\ x[1] # "users" /\ x[1] # "session_states"
         /\ x[1] = "runs" => x[2] = "users"
         /\ x[1] \in {"messages", "tool_calls", "findings", "coverage_gaps", "human_review_items",
                      "run_transcript_events", "outbox_events"} => x[2] = "runs"
         /\ x[1] \in {"facts_blocks", "scratchpads"} => x[2] = "session_states"
         /\ x[1] = "provenances" => x[2] = "findings"
         /\ x[2] = "users" => x[1] = "runs"
         /\ x[2] = "runs" => x[1] \in {"messages", "tool_calls", "findings", "coverage_gaps",
                         "human_review_items", "run_transcript_events", "outbox_events"}
         /\ x[2] = "session_states" => x[1] \in {"facts_blocks", "scratchpads"}
         /\ x[2] = "findings" => x[1] = "provenances"
         /\ x[2] \in {"users", "runs", "session_states", "findings"}
BY DEF References, References1, References2, References3, References4, References5

\* What tables need, and which tables keep them from going.
LEMMA NeedsOfTables ==
  ASSUME NEW on
  PROVE  /\ Needs(on, Table("users")) = {}
         /\ Needs(on, Table("session_states")) = {}
         /\ Needs(on, Table("runs")) \subseteq {Table("users")}
         /\ \A t \in {"messages", "tool_calls", "findings", "coverage_gaps", "human_review_items",
                      "run_transcript_events", "outbox_events"} :
                Needs(on, Table(t)) \subseteq {Table("runs")}
         /\ \A t \in {"facts_blocks", "scratchpads"} :
                Needs(on, Table(t)) \subseteq {Table("session_states")}
         /\ Needs(on, Table("provenances")) \subseteq {Table("findings")}
<1>1. ASSUME NEW t, NEW n \in Needs(on, Table(t))
      PROVE  \E x \in References : x[1] = t /\ n = Table(x[2])
  <2>1. IsTable(Table(t)) /\ Table(t).of = t
    BY ObjectFields DEF IsTable
  <2>2. n \in {Table(r[2]) : r \in {x \in Referring(on) : x[1] = t}}
    BY <2>1, <1>1 DEF Needs
  <2>3. Referring(on) \subseteq References
    BY DEF Referring
  <2> QED
    BY <2>2, <2>3
<1>2. ASSUME NEW t, NEW u, \A x \in References : x[1] = t => x[2] = u
      PROVE  Needs(on, Table(t)) \subseteq {Table(u)}
  BY <1>1, <1>2
<1>3. ASSUME NEW t, \A x \in References : x[1] # t
      PROVE  Needs(on, Table(t)) = {}
  BY <1>1, <1>3
<1>4. Needs(on, Table("users")) = {} /\ Needs(on, Table("session_states")) = {}
  BY <1>3, ForeignKeys
<1>5. /\ Needs(on, Table("runs")) \subseteq {Table("users")}
      /\ Needs(on, Table("provenances")) \subseteq {Table("findings")}
  BY <1>2, ForeignKeys
<1>6. ASSUME NEW t \in {"messages", "tool_calls", "findings", "coverage_gaps", "human_review_items",
                        "run_transcript_events", "outbox_events"}
      PROVE  Needs(on, Table(t)) \subseteq {Table("runs")}
  BY <1>2, ForeignKeys
<1>7. ASSUME NEW t \in {"facts_blocks", "scratchpads"}
      PROVE  Needs(on, Table(t)) \subseteq {Table("session_states")}
  BY <1>2, ForeignKeys
<1> QED
  BY <1>4, <1>5, <1>6, <1>7

LEMMA NotLate ==
  ASSUME NEW t, NEW c, t # "runs" \/ c \in {"status", "user_id"}
  PROVE  ~Late(Index(t, c))
BY ObjectFields, ContractNames DEF Late, Lists

\* What each upgrade adds, given the objects that are there.
New1 == Declared("users", <<"email">>) \cup Declared("runs", <<"status", "user_id">>)
        \cup Declared("messages", <<"role", "run_id">>) \cup Declared("tool_calls", <<"run_id">>)

RunColumns == {Column("runs", c) : c \in ToSet(ContractColumns)}
RunIndexes == {Index("runs", c) : c \in ToSet(Keys)}

NewState(has) == New("session_states", <<"session_id">>, has)
                 \cup New("facts_blocks", <<"key", "session_state_id">>, has)
                 \cup New("scratchpads", <<"kind", "session_state_id">>, has)
New2(has) == (RunColumns \ has) \cup (RunIndexes \ has) \cup NewState(has)

New3(has) == New("findings", <<"run_id">>, has) \cup New("provenances", <<"finding_id">>, has)
             \cup New("coverage_gaps", <<"run_id">>, has)
             \cup New("human_review_items", <<"run_id", "trigger_class">>, has)

ReviewColumns == {Column("human_review_items", c) : c \in {"resolved_at", "resolution", "resolver"}}
New4(has) == New("run_transcript_events", <<"run_id", "seq">>, has) \cup (ReviewColumns \ has)

New5(has) == New("outbox_events", OutboxIndexed, has)

LEMMA Up1Part ==
  /\ Part(Up1, New1, {})
  /\ \A on : Ready(on, Up1, {})
<1> DEFINE u == CreateTable("users", <<"email">>)
           r == CreateTable("runs", <<"status", "user_id">>)
           m == CreateTable("messages", <<"role", "run_id">>)
           c == CreateTable("tool_calls", <<"run_id">>)
           U == Declared("users", <<"email">>)
           R == Declared("runs", <<"status", "user_id">>)
           M == Declared("messages", <<"role", "run_id">>)
           C == Declared("tool_calls", <<"run_id">>)
<1>1. /\ Part(u, U, {}) /\ \A on : Ready(on, u, {})
  <2>1. Lists(<<"email">>, {"email"})
    BY OneName
  <2> QED
    BY <2>1, CreatePart, NeedsOfTables, NotLate
<1>2. /\ Part(r, R, {}) /\ \A on : Ready(on, r, U)
  <2>1. Lists(<<"status", "user_id">>, {"status", "user_id"})
    BY TwoNames
  <2>2. \A o \in U : o.of # "runs"
    BY DeclaredObjects
  <2>3. Table("users") \in U
    BY DeclaredObjects
  <2> HIDE DEF U
  <2> QED
    BY <2>1, <2>2, <2>3, CreatePart, NeedsOfTables, NotLate
<1>3. /\ Part(m, M, {}) /\ \A on : Ready(on, m, U \cup R)
  <2>1. Lists(<<"role", "run_id">>, {"role", "run_id"})
    BY TwoNames
  <2>2. \A o \in U \cup R : o.of # "messages"
    BY DeclaredObjects
  <2>3. Table("runs") \in U \cup R
    BY DeclaredObjects
  <2> HIDE DEF U, R
  <2> QED
    BY <2>1, <2>2, <2>3, CreatePart, NeedsOfTables, NotLate
<1>4. /\ Part(c, C, {}) /\ \A on : Ready(on, c, U \cup R \cup M)
  <2>1. Lists(<<"run_id">>, {"run_id"})
    BY OneName
  <2>2. \A o \in U \cup R \cup M : o.of # "tool_calls"
    BY DeclaredObjects
  <2>3. Table("runs") \in U \cup R \cup M
    BY DeclaredObjects
  <2> HIDE DEF U, R, M
  <2> QED
    BY <2>1, <2>2, <2>3, CreatePart, NeedsOfTables, NotLate
<1> HIDE DEF u, r, m, c, U, R, M, C
<1>5. Part(u \o r, U \cup R, {}) /\ \A on : Ready(on, u \o r, {})
  <2>1. Part(u \o r, U \cup R, {} \cup {})
    BY <1>1, <1>2, JoinedParts
  <2>2. ASSUME NEW on PROVE Ready(on, u \o r, {})
    <3>1. Ready(on, r, {} \cup U)
      BY <1>2
    <3> QED
      BY <1>1, <1>2, <3>1, PartsInTurn
  <2> QED
    BY <2>1, <2>2
<1>6. Part((u \o r) \o m, U \cup R \cup M, {}) /\ \A on : Ready(on, (u \o r) \o m, {})
  <2>1. Part((u \o r) \o m, U \cup R \cup M, {} \cup {})
    BY <1>3, <1>5, JoinedParts
  <2>2. ASSUME NEW on PROVE Ready(on, (u \o r) \o m, {})
    <3>1. Ready(on, m, {} \cup (U \cup R))
      BY <1>3
    <3> QED
      BY <1>3, <1>5, <3>1, PartsInTurn
  <2> QED
    BY <2>1, <2>2
<1>7. Part(((u \o r) \o m) \o c, U \cup R \cup M \cup C, {})
      /\ \A on : Ready(on, ((u \o r) \o m) \o c, {})
  <2>1. Part(((u \o r) \o m) \o c, U \cup R \cup M \cup C, {} \cup {})
    BY <1>4, <1>6, JoinedParts
  <2>2. ASSUME NEW on PROVE Ready(on, ((u \o r) \o m) \o c, {})
    <3>1. Ready(on, c, {} \cup (U \cup R \cup M))
      BY <1>4
    <3> QED
      BY <1>4, <1>6, <3>1, PartsInTurn
  <2> QED
    BY <2>1, <2>2
<1> QED
  BY <1>7 DEF Up1, New1, u, r, m, c, U, R, M, C

LEMMA StatePart ==
  ASSUME NEW has
  PROVE  /\ Part(StateTables(has), NewState(has), {})
         /\ \A on, more : Housed(has) /\ (\A o \in more : o.of = "runs")
                              => Ready(on, StateTables(has), has \cup more)
<1> DEFINE s == MissingTable("session_states", <<"session_id">>, has)
           f == MissingTable("facts_blocks", <<"key", "session_state_id">>, has)
           p == MissingTable("scratchpads", <<"kind", "session_state_id">>, has)
           S == New("session_states", <<"session_id">>, has)
           F == New("facts_blocks", <<"key", "session_state_id">>, has)
           P == New("scratchpads", <<"kind", "session_state_id">>, has)
<1>1. /\ Lists(<<"session_id">>, {"session_id"})
      /\ Lists(<<"key", "session_state_id">>, {"key", "session_state_id"})
      /\ Lists(<<"kind", "session_state_id">>, {"kind", "session_state_id"})
  BY OneName, TwoNames
<1>2. Part(s, S, {}) /\ Part(f, F, {}) /\ Part(p, P, {})
  BY <1>1, MissingTablePart
<1>3. /\ \A o \in S : o.of = "session_states"
      /\ \A o \in F : o.of = "facts_blocks"
      /\ \A o \in P : o.of = "scratchpads"
      /\ Table("session_states") \in has \cup S
  BY DeclaredObjects DEF New
<1>4. Part((s \o f) \o p, S \cup F \cup P, {})
  <2> HIDE DEF s, f, p, S, F, P
  <2>1. Part(s \o f, S \cup F, {} \cup {})
    BY <1>2, JoinedParts
  <2>2. Part((s \o f) \o p, S \cup F \cup P, ({} \cup {}) \cup {})
    BY <1>2, <2>1, JoinedParts
  <2> QED
    BY <2>2
<1>5. ASSUME NEW on, NEW more, Housed(has), \A o \in more : o.of = "runs"
      PROVE  Ready(on, (s \o f) \o p, has \cup more)
  <2>1. /\ Needs(on, Table("session_states")) = {}
        /\ Needs(on, Table("facts_blocks")) \subseteq {Table("session_states")}
        /\ Needs(on, Table("scratchpads")) \subseteq {Table("session_states")}
    BY NeedsOfTables
  <2>2. Ready(on, s, has \cup more)
    <3>1. \A o \in more : o.of # "session_states"
      BY <1>5
    <3>2. Needs(on, Table("session_states")) \subseteq has \cup more
      BY <2>1
    <3>3. \A c \in {"session_id"} : ~Late(Index("session_states", c))
      BY NotLate
    <3>4. Fits(on, has, more, "session_states", {"session_id"})
      BY <1>5, <3>1, <3>2, <3>3 DEF Fits
    <3> QED
      BY <1>1, <3>4, MissingTableReady
  <2>3. Ready(on, f, has \cup (more \cup S))
    <3>1. \A o \in more \cup S : o.of # "facts_blocks"
      BY <1>3, <1>5
    <3>2. Needs(on, Table("facts_blocks")) \subseteq has \cup (more \cup S)
      BY <1>3, <2>1
    <3>3. \A c \in {"key", "session_state_id"} : ~Late(Index("facts_blocks", c))
      BY NotLate
    <3>4. Fits(on, has, more \cup S, "facts_blocks", {"key", "session_state_id"})
      BY <1>5, <3>1, <3>2, <3>3 DEF Fits
    <3> HIDE DEF S
    <3> QED
      BY <1>1, <3>4, MissingTableReady
  <2>4. Ready(on, p, has \cup (more \cup S \cup F))
    <3>1. \A o \in more \cup S \cup F : o.of # "scratchpads"
      BY <1>3, <1>5
    <3>2. Needs(on, Table("scratchpads")) \subseteq has \cup (more \cup S \cup F)
      BY <1>3, <2>1
    <3>3. \A c \in {"kind", "session_state_id"} : ~Late(Index("scratchpads", c))
      BY NotLate
    <3>4. Fits(on, has, more \cup S \cup F, "scratchpads", {"kind", "session_state_id"})
      BY <1>5, <3>1, <3>2, <3>3 DEF Fits
    <3> HIDE DEF S, F
    <3> QED
      BY <1>1, <3>4, MissingTableReady
  <2> HIDE DEF s, f, p, S, F, P
  <2>5. Ready(on, s \o f, has \cup more) /\ Part(s \o f, S \cup F, {} \cup {})
    <3>1. Ready(on, f, (has \cup more) \cup S)
      BY <2>3
    <3> QED
      BY <1>2, <2>2, <3>1, PartsInTurn, JoinedParts
  <2>6. Ready(on, p, (has \cup more) \cup (S \cup F))
    BY <2>4
  <2> QED
    BY <1>2, <2>5, <2>6, PartsInTurn
<1> QED
  BY <1>4, <1>5 DEF StateTables, NewState, s, f, p, S, F, P

LEMMA FirstFills ==
  ASSUME NEW p, NEW q, List(p), List(q), FillsFirst(p), FillsFirst(q) \/ Filled(p) # {}
  PROVE  FillsFirst(p \o q)
<1> DEFINE s == p \o q
<1>1. IsJoin(p, q, s)
  BY Joined
<1> HIDE DEF s
<1>2. SUFFICES ASSUME NEW k \in DOMAIN s, s[k].op = "add", s[k].what.of \in StateNames
               PROVE  \E j \in 1..(k - 1) : s[j].op = "fill"
  BY DEF FillsFirst, s
<1>3. CASE InFirst(p, s, k)
  BY <1>2, <1>3 DEF InFirst, FillsFirst
<1>4. ASSUME NEW i \in DOMAIN q, InSecond(p, q, s, k, i)
      PROVE  \E j \in 1..(k - 1) : s[j].op = "fill"
  <2>1. CASE Filled(p) # {}
    <3>1. PICK j \in DOMAIN p : p[j].op = "fill"
      BY <2>1, Members
    <3> QED
      BY <1>4, <3>1 DEF InSecond
  <2>2. CASE FillsFirst(q)
    BY <1>2, <1>4, <2>2 DEF InSecond, FillsFirst
  <2> QED
    BY <2>1, <2>2
<1> QED
  BY <1>1, <1>3, <1>4, Places

LEMMA NoStateAdded ==
  ASSUME NEW p, \A o \in Added(p) : o.of \notin StateNames
  PROVE  FillsFirst(p)
BY Members DEF FillsFirst

LEMMA Up2Part ==
  ASSUME NEW has
  PROVE  /\ Part(Up2(has), New2(has), Required) /\ FillsFirst(Up2(has))
         /\ \A on : Housed(has) /\ Table("runs") \in has => Ready(on, Up2(has), has)
<1> DEFINE c == Missing(Columns("runs", ContractColumns), has)
           x == Missing(Indexes("runs", Keys), has)
           t == StateTables(has)
           C == RunColumns \ has
           X == RunIndexes \ has
           T == NewState(has)
<1>1. Lists(Columns("runs", ContractColumns), RunColumns) /\ Lists(Indexes("runs", Keys), RunIndexes)
  <2>1. Lists(ContractColumns, ToSet(ContractColumns)) /\ Lists(Keys, ToSet(Keys))
    BY ContractNames, KeyNames DEF Lists
  <2> QED
    BY <2>1, ObjectsListed DEF RunColumns, RunIndexes
<1>2. /\ Part(c, C, {}) /\ Part(x, X, {}) /\ Part(t, T, {}) /\ Part(Fills, {}, Required)
  BY <1>1, MissingPart, StatePart, FillsPart
<1>3. Required \subseteq RunColumns
  BY ContractNames DEF Required, RunColumns, Lists
<1>4. \A o \in C \cup X : o.of = "runs"
  BY ObjectFields DEF RunColumns, RunIndexes
<1>5. \A k \in ToSet(Keys) : Column("runs", k) \in RunColumns
  BY ContractNames, KeyNames DEF RunColumns, Lists
<1>6. ASSUME NEW on, Housed(has), Table("runs") \in has
      PROVE  /\ Ready(on, c, has) /\ Ready(on, Fills, has \cup C)
             /\ Ready(on, x, has \cup C) /\ Ready(on, t, has \cup (C \cup X))
  <2>1. Ready(on, c, has)
    <3>1. \A o \in RunColumns \ has : Needs(on, o) \subseteq has
      BY <1>6, NeedsOfColumns DEF RunColumns
    <3> QED
      BY <1>1, <3>1, MissingPart
  <2>2. Ready(on, Fills, has \cup C)
    BY <1>3, FillsPart
  <2>3. Ready(on, x, has \cup C)
    <3>1. \A o \in RunIndexes \ has : Needs(on, o) \subseteq has \cup C
      BY <1>5, <1>6, NeedsOfColumns DEF RunIndexes
    <3>2. RunIndexes \cap (has \cup C) \subseteq has
      BY ObjectFields DEF RunIndexes, RunColumns
    <3> HIDE DEF C
    <3> QED
      BY <1>1, <3>1, <3>2, MissingPart
  <2>4. Ready(on, t, has \cup (C \cup X))
    <3> HIDE DEF C, X
    <3> QED
      BY <1>4, <1>6, StatePart
  <2> QED
    BY <2>1, <2>2, <2>3, <2>4
<1> HIDE DEF c, x, t, C, X, T
<1>7. Part(c \o Fills, C, Required)
  <2>1. Part(c \o Fills, C \cup {}, {} \cup Required)
    BY <1>2, JoinedParts
  <2> QED
    BY <2>1
<1>8. Part((c \o Fills) \o x, C \cup X, Required)
  <2>1. Part((c \o Fills) \o x, C \cup X, Required \cup {})
    BY <1>2, <1>7, JoinedParts
  <2> QED
    BY <2>1
<1>9. Part(((c \o Fills) \o x) \o t, C \cup X \cup T, Required)
  <2>1. Part(((c \o Fills) \o x) \o t, (C \cup X) \cup T, Required \cup {})
    BY <1>2, <1>8, JoinedParts
  <2> QED
    BY <2>1
<1>10. FillsFirst(((c \o Fills) \o x) \o t)
  <2>1. FillsFirst((c \o Fills) \o x)
    <3>1. \A o \in Added((c \o Fills) \o x) : o.of \notin StateNames
      BY <1>4, <1>8 DEF Part, StateNames
    <3> QED
      BY <3>1, NoStateAdded
  <2>2. Filled((c \o Fills) \o x) # {}
    BY <1>8 DEF Part, Required
  <2> QED
    BY <1>2, <1>8, <2>1, <2>2, FirstFills DEF Part
<1>11. ASSUME NEW on, Housed(has), Table("runs") \in has
       PROVE  Ready(on, ((c \o Fills) \o x) \o t, has)
  <2>1. Ready(on, c \o Fills, has)
    BY <1>2, <1>6, <1>11, PartsInTurn
  <2>2. Ready(on, (c \o Fills) \o x, has)
    BY <1>2, <1>6, <1>7, <1>11, <2>1, PartsInTurn
  <2> QED
    BY <1>2, <1>6, <1>8, <1>11, <2>2, PartsInTurn
<1> QED
  BY <1>9, <1>10, <1>11 DEF Up2, New2, c, x, t, C, X, T

LEMMA Up3Part ==
  ASSUME NEW has
  PROVE  /\ Part(Up3(has), New3(has), {})
         /\ \A on : Housed(has) /\ Table("runs") \in has => Ready(on, Up3(has), has)
<1> DEFINE f == MissingTable("findings", <<"run_id">>, has)
           p == MissingTable("provenances", <<"finding_id">>, has)
           g == MissingTable("coverage_gaps", <<"run_id">>, has)
           h == MissingTable("human_review_items", <<"run_id", "trigger_class">>, has)
           F == New("findings", <<"run_id">>, has)
           P == New("provenances", <<"finding_id">>, has)
           G == New("coverage_gaps", <<"run_id">>, has)
           H == New("human_review_items", <<"run_id", "trigger_class">>, has)
<1>1. /\ Lists(<<"run_id">>, {"run_id"}) /\ Lists(<<"finding_id">>, {"finding_id"})
      /\ Lists(<<"run_id", "trigger_class">>, {"run_id", "trigger_class"})
  BY OneName, TwoNames
<1>2. Part(f, F, {}) /\ Part(p, P, {}) /\ Part(g, G, {}) /\ Part(h, H, {})
  BY <1>1, MissingTablePart
<1>3. /\ \A o \in F : o.of = "findings"
      /\ \A o \in P : o.of = "provenances"
      /\ \A o \in G : o.of = "coverage_gaps"
      /\ Table("findings") \in has \cup F
  BY DeclaredObjects DEF New
<1>4. ASSUME NEW on, Housed(has), Table("runs") \in has
      PROVE  /\ Ready(on, f, has \cup {}) /\ Ready(on, p, has \cup F)
             /\ Ready(on, g, has \cup (F \cup P)) /\ Ready(on, h, has \cup (F \cup P \cup G))
  <2>1. /\ Needs(on, Table("findings")) \subseteq {Table("runs")}
        /\ Needs(on, Table("provenances")) \subseteq {Table("findings")}
        /\ Needs(on, Table("coverage_gaps")) \subseteq {Table("runs")}
        /\ Needs(on, Table("human_review_items")) \subseteq {Table("runs")}
    BY NeedsOfTables
  <2>2. Fits(on, has, {}, "findings", {"run_id"})
    BY <1>4, <2>1, NotLate DEF Fits
  <2>3. Fits(on, has, F, "provenances", {"finding_id"})
    BY <1>3, <1>4, <2>1, NotLate DEF Fits
  <2>4. Fits(on, has, F \cup P, "coverage_gaps", {"run_id"})
    BY <1>3, <1>4, <2>1, NotLate DEF Fits
  <2>5. Fits(on, has, F \cup P \cup G, "human_review_items", {"run_id", "trigger_class"})
    BY <1>3, <1>4, <2>1, NotLate DEF Fits
  <2> HIDE DEF F, P, G
  <2> QED
    BY <1>1, <2>2, <2>3, <2>4, <2>5, MissingTableReady
<1> HIDE DEF f, p, g, h, F, P, G, H
<1>5. /\ Part(f \o p, F \cup P, {}) /\ Part((f \o p) \o g, F \cup P \cup G, {})
      /\ Part(((f \o p) \o g) \o h, F \cup P \cup G \cup H, {})
  <2>1. Part(f \o p, F \cup P, {} \cup {})
    BY <1>2, JoinedParts
  <2>2. Part((f \o p) \o g, F \cup P \cup G, ({} \cup {}) \cup {})
    BY <1>2, <2>1, JoinedParts
  <2>3. Part(((f \o p) \o g) \o h, F \cup P \cup G \cup H, (({} \cup {}) \cup {}) \cup {})
    BY <1>2, <2>2, JoinedParts
  <2> QED
    BY <2>1, <2>2, <2>3
<1>6. ASSUME NEW on, Housed(has), Table("runs") \in has
      PROVE  Ready(on, ((f \o p) \o g) \o h, has)
  <2>1. /\ Ready(on, f, has) /\ Ready(on, p, has \cup F)
        /\ Ready(on, g, has \cup (F \cup P)) /\ Ready(on, h, has \cup (F \cup P \cup G))
    <3>1. has \cup {} = has
      OBVIOUS
    <3> QED
      BY <1>4, <1>6, <3>1
  <2>2. Ready(on, f \o p, has)
    BY <1>2, <2>1, PartsInTurn
  <2>3. Ready(on, (f \o p) \o g, has)
    BY <1>2, <1>5, <2>1, <2>2, PartsInTurn
  <2> QED
    BY <1>2, <1>5, <2>1, <2>3, PartsInTurn
<1> QED
  BY <1>5, <1>6 DEF Up3, New3, f, p, g, h, F, P, G, H

LEMMA ResolutionList == Lists(Resolution, ReviewColumns)
<1> DEFINE l == <<"resolved_at", "resolution", "resolver">>
           S == {"resolved_at", "resolution", "resolver"}
<1>1. Len(l) = 3 /\ DOMAIN l = 1..3 /\ l \in Seq(S)
  OBVIOUS
<1>2. ToSet(l) = S
  BY DEF ToSet
<1>3. \A i, j \in 1..3 : l[i] = l[j] => i = j
  OBVIOUS
<1>4. Lists(l, S)
  BY <1>1, <1>2, <1>3 DEF Lists, List
<1> QED
  BY <1>4, ObjectsListed DEF Resolution, ReviewColumns

LEMMA Up4Part ==
  ASSUME NEW has
  PROVE  /\ Part(Up4(has), New4(has), {})
         /\ \A on : Housed(has) /\ Table("runs") \in has /\ Table("human_review_items") \in has
                       => Ready(on, Up4(has), has)
<1> DEFINE t == MissingTable("run_transcript_events", <<"run_id", "seq">>, has)
           c == Missing(Resolution, has)
           T == New("run_transcript_events", <<"run_id", "seq">>, has)
           C == ReviewColumns \ has
<1>1. Lists(<<"run_id", "seq">>, {"run_id", "seq"})
  BY TwoNames
<1>2. Lists(Resolution, ReviewColumns)
  BY ResolutionList
<1>3. Part(t, T, {}) /\ Part(c, C, {})
  BY <1>1, <1>2, MissingTablePart, MissingPart
<1>4. \A o \in T : o.of = "run_transcript_events"
  BY DeclaredObjects DEF New
<1>5. ASSUME NEW on, Housed(has), Table("runs") \in has, Table("human_review_items") \in has
      PROVE  Ready(on, t, has \cup {}) /\ Ready(on, c, has \cup T)
  <2>1. Needs(on, Table("run_transcript_events")) \subseteq {Table("runs")}
    BY NeedsOfTables
  <2>2. Fits(on, has, {}, "run_transcript_events", {"run_id", "seq"})
    BY <1>5, <2>1, NotLate DEF Fits
  <2>3. Ready(on, t, has \cup {})
    BY <1>1, <2>2, MissingTableReady
  <2>4. ReviewColumns \cap (has \cup T) \subseteq has
    BY <1>4, ObjectFields DEF ReviewColumns
  <2>5. \A o \in ReviewColumns \ has : Needs(on, o) \subseteq has \cup T
    BY <1>5, NeedsOfColumns DEF ReviewColumns
  <2> HIDE DEF t, c, T
  <2>6. \A s, now : (ReviewColumns \cap now \subseteq has
                        /\ \A o \in ReviewColumns \ has : Needs(s, o) \subseteq now)
                       => Ready(s, Missing(Resolution, has), now)
    BY <1>2, MissingPart, Zenon
  <2>7. Ready(on, c, has \cup T)
    BY <2>4, <2>5, <2>6 DEF c
  <2> QED
    BY <2>3, <2>7
<1> HIDE DEF t, c, T, C
<1>6. Part(t \o c, T \cup C, {})
  <2>1. Part(t \o c, T \cup C, {} \cup {})
    BY <1>3, JoinedParts
  <2> QED
    BY <2>1
<1>7. ASSUME NEW on, Housed(has), Table("runs") \in has, Table("human_review_items") \in has
      PROVE  Ready(on, t \o c, has)
  <2>1. Ready(on, t, has) /\ Ready(on, c, has \cup T)
    <3>1. has \cup {} = has
      OBVIOUS
    <3> QED
      BY <1>5, <1>7, <3>1
  <2> QED
    BY <1>3, <2>1, PartsInTurn
<1> QED
  BY <1>6, <1>7 DEF Up4, New4, t, c, T, C

LEMMA Up5Part ==
  ASSUME NEW has
  PROVE  /\ Part(Up5(has), New5(has), {})
         /\ \A on : Housed(has) /\ Table("runs") \in has => Ready(on, Up5(has), has)
<1>1. Part(Up5(has), New5(has), {})
  BY OutboxNames, MissingTablePart DEF Up5, New5
<1>2. ASSUME NEW on, Housed(has), Table("runs") \in has
      PROVE  Ready(on, Up5(has), has)
  <2> DEFINE S == {"event_type", "aggregate_id", "run_id", "request_id", "status"}
  <2>1. Needs(on, Table("outbox_events")) \subseteq {Table("runs")}
    BY NeedsOfTables
  <2>2. Fits(on, has, {}, "outbox_events", S)
    BY <1>2, <2>1, NotLate DEF Fits
  <2> HIDE DEF S
  <2>3. Ready(on, Up5(has), has \cup {})
    BY <2>2, OutboxNames, MissingTableReady DEF Up5, S
  <2>4. has \cup {} = has
    OBVIOUS
  <2> QED
    BY <2>3, <2>4
<1> QED
  BY <1>1, <1>2

-----------------------------------------------------------------------------
(***************************************************************************)
(* What each revision makes.                                               *)
(***************************************************************************)
LEMMA MadeSets ==
  /\ Made(1) = New1
  /\ Made(2) = RunColumns \cup RunIndexes \cup Declared("session_states", <<"session_id">>)
               \cup Declared("facts_blocks", <<"key", "session_state_id">>)
               \cup Declared("scratchpads", <<"kind", "session_state_id">>)
  /\ Made(3) = Declared("findings", <<"run_id">>) \cup Declared("provenances", <<"finding_id">>)
               \cup Declared("coverage_gaps", <<"run_id">>)
               \cup Declared("human_review_items", <<"run_id", "trigger_class">>)
  /\ Made(4) = Declared("run_transcript_events", <<"run_id", "seq">>) \cup ReviewColumns
  /\ Made(5) = Declared("outbox_events", OutboxIndexed)
<1>1. \A t, cols : New(t, cols, {}) = Declared(t, cols)
  BY DEF New
<1>2. /\ Made(1) = Added(Up1) /\ Made(2) = Added(Up2({})) /\ Made(3) = Added(Up3({}))
      /\ Made(4) = Added(Up4({})) /\ Made(5) = Added(Up5({}))
  BY DEF Made, Up
<1>3. /\ Added(Up1) = New1 /\ Added(Up2({})) = New2({}) /\ Added(Up3({})) = New3({})
      /\ Added(Up4({})) = New4({}) /\ Added(Up5({})) = New5({})
  BY Up1Part, Up2Part, Up3Part, Up4Part, Up5Part DEF Part
<1>4. New2({}) = RunColumns \cup RunIndexes \cup Declared("session_states", <<"session_id">>)
               \cup Declared("facts_blocks", <<"key", "session_state_id">>)
               \cup Declared("scratchpads", <<"kind", "session_state_id">>)
  BY <1>1 DEF New2, NewState
<1>5. New3({}) = Declared("findings", <<"run_id">>) \cup Declared("provenances", <<"finding_id">>)
               \cup Declared("coverage_gaps", <<"run_id">>)
               \cup Declared("human_review_items", <<"run_id", "trigger_class">>)
  BY <1>1 DEF New3
<1>6. New4({}) = Declared("run_transcript_events", <<"run_id", "seq">>) \cup ReviewColumns
  BY <1>1 DEF New4
<1>7. New5({}) = Declared("outbox_events", OutboxIndexed)
  BY <1>1 DEF New5
<1> QED
  BY <1>2, <1>3, <1>4, <1>5, <1>6, <1>7

\* A table or one of its indexes.
OfTable(o, t) == /\ o.of = t /\ (IsTable(o) \/ IsIndex(o)) /\ (IsTable(o) => o = Table(t))

LEMMA DeclaredOf ==
  ASSUME NEW t, NEW cols, NEW o \in Declared(t, cols)
  PROVE  OfTable(o, t) /\ (IsTable(o) \/ (IsIndex(o) /\ o.name \in ToSet(cols)))
BY DeclaredObjects, ObjectFields DEF OfTable, IsTable, IsColumn, IsIndex

LEMMA MadeBy1 ==
  ASSUME NEW o \in Made(1)
  PROVE  /\ \E t \in {"users", "runs", "messages", "tool_calls"} : OfTable(o, t)
         /\ o.of = "runs" /\ IsIndex(o) => o.name \in {"status", "user_id"}
<1>1. ToSet(<<"status", "user_id">>) = {"status", "user_id"}
  BY TwoNames DEF Lists
<1> QED
  BY <1>1, MadeSets, DeclaredOf DEF New1, OfTable, IsTable, IsIndex

LEMMA MadeBy2 ==
  ASSUME NEW o \in Made(2)
  PROVE  \/ \E t \in StateNames : OfTable(o, t)
         \/ o.of = "runs" /\ ~IsTable(o) /\ o.name \in ToSet(ContractColumns)
<1>1. ASSUME o \in RunColumns \cup RunIndexes
      PROVE  o.of = "runs" /\ ~IsTable(o) /\ o.name \in ToSet(ContractColumns)
  BY <1>1, ObjectFields, ContractNames, KeyNames DEF RunColumns, RunIndexes, IsTable, Lists
<1> QED
  BY <1>1, MadeSets, DeclaredOf DEF StateNames

LEMMA MadeBy3 ==
  ASSUME NEW o \in Made(3)
  PROVE  \E t \in {"findings", "provenances", "coverage_gaps", "human_review_items"} : OfTable(o, t)
BY MadeSets, DeclaredOf

LEMMA MadeBy4 ==
  ASSUME NEW o \in Made(4)
  PROVE  OfTable(o, "run_transcript_events") \/ (IsColumn(o) /\ o \in ReviewColumns)
BY MadeSets, DeclaredOf, ObjectFields DEF ReviewColumns, IsColumn

LEMMA MadeBy5 ==
  ASSUME NEW o \in Made(5)
  PROVE  OfTable(o, "outbox_events")
BY MadeSets, DeclaredOf

LEMMA MadeTables ==
  /\ \A t \in {"users", "runs", "messages", "tool_calls"} : Table(t) \in Made(1)
  /\ \A t \in StateNames : Table(t) \in Made(2)
  /\ \A t \in {"findings", "provenances", "coverage_gaps", "human_review_items"} : Table(t) \in Made(3)
  /\ Table("run_transcript_events") \in Made(4)
  /\ Table("outbox_events") \in Made(5)
<1>1. \A t, cols : Table(t) \in Declared(t, cols)
  BY DeclaredObjects
<1> QED
  BY <1>1, MadeSets DEF New1, StateNames

LEMMA KindsDiffer ==
  ASSUME NEW o
  PROVE  /\ IsColumn(o) => ~IsTable(o) /\ ~IsIndex(o)
         /\ IsIndex(o) => ~IsTable(o)
BY DEF IsColumn, IsTable, IsIndex

\* No object is made by two revisions.
LEMMA MadeOnce ==
  ASSUME NEW q \in 1..5, NEW r \in 1..5, q # r
  PROVE  Made(q) \cap Made(r) = {}
<1>1. \A o \in Made(1) : o \notin Made(2)
  <2> SUFFICES ASSUME NEW o \in Made(1), o \in Made(2)
               PROVE  FALSE
    OBVIOUS
  <2>1. o.of = "runs" /\ ~IsTable(o) /\ o.name \in ToSet(ContractColumns)
    BY MadeBy1, MadeBy2 DEF OfTable, StateNames
  <2>2. o.name \in {"status", "user_id"}
    BY <2>1, MadeBy1 DEF OfTable
  <2> QED
    BY <2>1, <2>2, ContractNames DEF Lists
<1>2. \A o \in Made(1) \cup Made(2) : o \notin Made(3) \cup Made(4) \cup Made(5)
  <2>1. \A o \in Made(1) \cup Made(2) :
            o.of \in {"users", "runs", "messages", "tool_calls"} \cup StateNames
    BY MadeBy1, MadeBy2 DEF OfTable
  <2>2. \A o \in Made(3) \cup Made(4) \cup Made(5) :
            o.of \in {"findings", "provenances", "coverage_gaps", "human_review_items",
                     "run_transcript_events", "outbox_events"}
    BY MadeBy3, MadeBy4, MadeBy5, ObjectFields DEF OfTable, ReviewColumns
  <2> QED
    BY <2>1, <2>2 DEF StateNames
<1>3. \A o \in Made(3) : o \notin Made(4) /\ o \notin Made(5)
  <2> SUFFICES ASSUME NEW o \in Made(3)
               PROVE  o \notin Made(4) /\ o \notin Made(5)
    OBVIOUS
  <2>1. o.of \in {"findings", "provenances", "coverage_gaps", "human_review_items"} /\ ~IsColumn(o)
    BY MadeBy3, KindsDiffer DEF OfTable
  <2> QED
    BY <2>1, MadeBy4, MadeBy5 DEF OfTable
<1>4. \A o \in Made(4) : o \notin Made(5)
  BY MadeBy4, MadeBy5, ObjectFields DEF OfTable, ReviewColumns
<1> QED
  BY <1>1, <1>2, <1>3, <1>4

-----------------------------------------------------------------------------
(***************************************************************************)
(* An upgrade, whatever is there already.                                  *)
(***************************************************************************)
\* An index that an upgrade passes over with its table.
PassedOver(o, has) == IsIndex(o) /\ o.of # "runs" /\ Table(o.of) \in has

Upgrades(r, has, p) ==
    /\ Part(p, Added(p), IF r = 2 THEN Required ELSE {})
    /\ FillsFirst(p) /\ Added(p) \subseteq Made(r)
    /\ \A o \in Made(r) : o \in has \/ o \in Added(p) \/ (r # 1 /\ PassedOver(o, has))

LEMMA NewOrPassedOver ==
  ASSUME NEW t, NEW cols, NEW has, t # "runs", NEW o \in Declared(t, cols)
  PROVE  o \in has \/ o \in New(t, cols, has) \/ PassedOver(o, has)
<1>1. OfTable(o, t)
  BY DeclaredOf
<1> QED
  BY <1>1 DEF New, PassedOver, OfTable

LEMMA NewDeclared ==
  ASSUME NEW t, NEW cols, NEW has
  PROVE  New(t, cols, has) \subseteq Declared(t, cols)
BY DEF New

LEMMA StateNamesOnly ==
  ASSUME NEW p, Added(p) \subseteq Made(1) \cup Made(3) \cup Made(4) \cup Made(5)
  PROVE  FillsFirst(p)
<1>1. \A o \in Made(1) \cup Made(3) \cup Made(4) \cup Made(5) : o.of \notin StateNames
  BY MadeBy1, MadeBy3, MadeBy4, MadeBy5, ObjectFields DEF OfTable, StateNames, ReviewColumns
<1> QED
  BY <1>1, NoStateAdded

LEMMA UpgradesIntro ==
  ASSUME NEW r \in 1..5, NEW has, NEW p, NEW A, Part(p, A, IF r = 2 THEN Required ELSE {}),
         A \subseteq Made(r), r = 2 => FillsFirst(p),
         \A o \in Made(r) : o \in has \/ o \in A \/ (r # 1 /\ PassedOver(o, has))
  PROVE  Upgrades(r, has, p)
<1>1. Added(p) = A
  BY DEF Part
<1>2. r # 2 => Made(r) \subseteq Made(1) \cup Made(3) \cup Made(4) \cup Made(5)
  <2>1. r = 1 \/ r = 2 \/ r = 3 \/ r = 4 \/ r = 5
    OBVIOUS
  <2> QED
    BY <2>1
<1>3. FillsFirst(p)
  BY <1>1, <1>2, StateNamesOnly
<1> QED
  BY <1>1, <1>3 DEF Upgrades

LEMMA Upgrade ==
  ASSUME NEW r \in 1..5, NEW has
  PROVE  Upgrades(r, has, Up(r, has))
<1>1. CASE r = 1
  <2>1. Part(Up1, New1, {}) /\ New1 = Made(1) /\ Up(1, has) = Up1
    BY Up1Part, MadeSets DEF Up
  <2> QED
    BY <1>1, <2>1, UpgradesIntro
<1>2. CASE r = 2
  <2>1. Part(Up2(has), New2(has), Required) /\ FillsFirst(Up2(has)) /\ Up(2, has) = Up2(has)
    BY Up2Part DEF Up
  <2>2. New2(has) \subseteq Made(2)
    BY MadeSets, NewDeclared DEF New2, NewState
  <2>3. \A o \in Made(2) : o \in has \/ o \in New2(has) \/ PassedOver(o, has)
    BY MadeSets, NewOrPassedOver DEF New2, NewState
  <2> QED
    BY <1>2, <2>1, <2>2, <2>3, UpgradesIntro
<1>3. CASE r = 3
  <2>1. Part(Up3(has), New3(has), {}) /\ Up(3, has) = Up3(has)
    BY Up3Part DEF Up
  <2>2. New3(has) \subseteq Made(3)
    BY MadeSets, NewDeclared DEF New3
  <2>3. \A o \in Made(3) : o \in has \/ o \in New3(has) \/ PassedOver(o, has)
    BY MadeSets, NewOrPassedOver DEF New3
  <2> QED
    BY <1>3, <2>1, <2>2, <2>3, UpgradesIntro
<1>4. CASE r = 4
  <2>1. Part(Up4(has), New4(has), {}) /\ Up(4, has) = Up4(has)
    BY Up4Part DEF Up
  <2>2. New4(has) \subseteq Made(4)
    BY MadeSets, NewDeclared DEF New4
  <2>3. \A o \in Made(4) : o \in has \/ o \in New4(has) \/ PassedOver(o, has)
    BY MadeSets, NewOrPassedOver DEF New4
  <2> QED
    BY <1>4, <2>1, <2>2, <2>3, UpgradesIntro
<1>5. CASE r = 5
  <2>1. Part(Up5(has), New5(has), {}) /\ Up(5, has) = Up5(has)
    BY Up5Part DEF Up
  <2>2. New5(has) \subseteq Made(5)
    BY MadeSets, NewDeclared DEF New5
  <2>3. \A o \in Made(5) : o \in has \/ o \in New5(has) \/ PassedOver(o, has)
    BY MadeSets, NewOrPassedOver DEF New5
  <2> QED
    BY <1>5, <2>1, <2>2, <2>3, UpgradesIntro
<1> QED
  BY <1>1, <1>2, <1>3, <1>4, <1>5

\* From the second revision on an upgrade is ready wherever the tables of
\* the earlier ones are; the first, where nothing is.
LEMMA UpgradeReady ==
  ASSUME NEW on, NEW r \in 1..5, NEW has, Housed(has),
         r = 1 => has = {},
         \A q \in 1..(r - 1) : \A o \in Made(q) : IsTable(o) => o \in has
  PROVE  Ready(on, Up(r, has), has)
<1>1. \A t : IsTable(Table(t))
  BY ObjectFields DEF IsTable
<1>2. r # 1 => Table("runs") \in has
  <2>1. r # 1 => 1 \in 1..(r - 1)
    OBVIOUS
  <2> QED
    BY <1>1, <2>1, MadeTables
<1>3. r = 4 => Table("human_review_items") \in has
  <2>1. r = 4 => 3 \in 1..(r - 1)
    OBVIOUS
  <2> QED
    BY <1>1, <2>1, MadeTables
<1>4. r = 1 \/ r = 2 \/ r = 3 \/ r = 4 \/ r = 5
  OBVIOUS
<1> QED
  BY <1>2, <1>3, <1>4, Up1Part, Up2Part, Up3Part, Up4Part, Up5Part DEF Up

-----------------------------------------------------------------------------
(***************************************************************************)
(* The parts downgrades are made of.                                       *)
(***************************************************************************)
LEMMA BlocksOfObjects ==
  ASSUME NEW on
  PROVE  /\ \A t : t \notin {"users", "runs", "session_states", "findings"} => Blocks(on, Table(t)) = {}
         /\ Blocks(on, Table("users")) \subseteq {Table("runs")}
         /\ Blocks(on, Table("runs")) \subseteq
                {Table(u) : u \in {"messages", "tool_calls", "findings", "coverage_gaps",
                         "human_review_items", "run_transcript_events", "outbox_events"}}
         /\ Blocks(on, Table("session_states")) \subseteq {Table("facts_blocks"), Table("scratchpads")}
         /\ Blocks(on, Table("findings")) \subseteq {Table("provenances")}
         /\ \A t, c : Blocks(on, Index(t, c)) = {} /\ Blocks(on, Column(t, c)) \subseteq {Index(t, c)}
<1>1. ASSUME NEW t, NEW b \in Blocks(on, Table(t))
      PROVE  \E x \in References : x[2] = t /\ b = Table(x[1])
  <2>1. ~IsColumn(Table(t)) /\ Table(t).of = t
    BY ObjectFields DEF IsColumn
  <2>2. b \in {Table(r[1]) : r \in {x \in Referring(on) : IsTable(Table(t)) /\ x[2] = t}}
    BY <2>1, <1>1 DEF Blocks
  <2>3. Referring(on) \subseteq References
    BY DEF Referring
  <2> QED
    BY <2>2, <2>3
<1>2. \A t : t \notin {"users", "runs", "session_states", "findings"} => Blocks(on, Table(t)) = {}
  BY <1>1, ForeignKeys
<1>3. /\ Blocks(on, Table("users")) \subseteq {Table("runs")}
      /\ Blocks(on, Table("findings")) \subseteq {Table("provenances")}
  BY <1>1, ForeignKeys
<1>4. Blocks(on, Table("runs")) \subseteq
                {Table(u) : u \in {"messages", "tool_calls", "findings", "coverage_gaps",
                         "human_review_items", "run_transcript_events", "outbox_events"}}
  BY <1>1, ForeignKeys
<1>5. Blocks(on, Table("session_states")) \subseteq {Table("facts_blocks"), Table("scratchpads")}
  BY <1>1, ForeignKeys
<1>6. ASSUME NEW t, NEW c
      PROVE  Blocks(on, Index(t, c)) = {} /\ Blocks(on, Column(t, c)) \subseteq {Index(t, c)}
  <2>1. /\ ~IsTable(Index(t, c)) /\ ~IsColumn(Index(t, c)) /\ ~IsTable(Column(t, c))
        /\ Column(t, c).of = t /\ Column(t, c).name = c
    BY ObjectFields DEF IsTable, IsColumn
  <2> QED
    BY <2>1 DEF Blocks
<1> QED
  BY <1>2, <1>3, <1>4, <1>5, <1>6

Cut(p, drops) == /\ List(p) /\ \A i \in DOMAIN p : p[i].op = "drop"
                 /\ Added(p) = {} /\ Filled(p) = {} /\ Dropped(p) = drops

LEMMA JoinedCuts ==
  ASSUME NEW p, NEW q, NEW A, NEW B, Cut(p, A), Cut(q, B)
  PROVE  Cut(p \o q, A \cup B)
<1>1. List(p) /\ List(q) /\ Added(p) = {} /\ Added(q) = {} /\ Filled(p) = {} /\ Filled(q) = {}
      /\ Dropped(p) = A /\ Dropped(q) = B
  BY DEF Cut
<1>2. List(p \o q) /\ \A i \in DOMAIN (p \o q) : (p \o q)[i].op \in {"drop"}
  <2>1. /\ \A i \in DOMAIN p : p[i].op \in {"drop"}
        /\ \A i \in DOMAIN q : q[i].op \in {"drop"}
    BY DEF Cut
  <2> QED
    BY <1>1, <2>1, JoinedOps
<1>3. /\ Added(p \o q) = Added(p) \cup Added(q)
      /\ Filled(p \o q) = Filled(p) \cup Filled(q)
      /\ Dropped(p \o q) = Dropped(p) \cup Dropped(q)
  BY <1>1, JoinedSets
<1> QED
  BY <1>1, <1>2, <1>3 DEF Cut

\* A cut that is ready after another makes the two ready.
LEMMA CutsInTurn ==
  ASSUME NEW on, NEW has, NEW p, NEW q, NEW A, NEW B,
         Cut(p, A), Cut(q, B), Ready(on, p, has), Ready(on, q, Left(has, p))
  PROVE  Ready(on, p \o q, has) /\ Left(has, p \o q) = Left(Left(has, p), q)
<1>1. List(p) /\ List(q) /\ Removes(p) /\ Removes(q)
  BY DEF Cut, Removes
<1> QED
  BY <1>1, RemovesInTurn

LEMMA OneCut ==
  ASSUME NEW o
  PROVE  /\ Cut(<<Drop(o)>>, {o})
         /\ \A on, has : o \in has /\ Blocks(on, o) \cap has = {} => Ready(on, <<Drop(o)>>, has)
<1> DEFINE p == <<Drop(o)>>
<1>1. List(p)
  BY OneName DEF Lists
<1>2. DOMAIN p = {1} /\ p[1].op = "drop" /\ p[1].what = o
  BY DEF Drop
<1> HIDE DEF p
<1>3. Added(p) = {} /\ Filled(p) = {} /\ Dropped(p) = {o}
  BY <1>2, Members
<1>4. ASSUME NEW on, NEW has, o \in has, Blocks(on, o) \cap has = {}
      PROVE  Ready(on, p, has)
  <2>1. 1..(1 - 1) = {}
    OBVIOUS
  <2> QED
    BY <1>2, <1>4, <2>1 DEF Ready, Finds
<1> QED
  BY <1>1, <1>2, <1>3, <1>4 DEF Cut, p

\* Columns and indexes of which none belongs to another.
Loose(on, S, has) == /\ S \subseteq has
                     /\ \A o \in S : Blocks(on, o) \cap has = {}
                     /\ \A o, d \in S : Belongs(o, d) => o = d

LEMMA DropAllCut ==
  ASSUME NEW objs, NEW S, Lists(objs, S)
  PROVE  /\ Cut(DropAll(objs), S)
         /\ \A on, has : Loose(on, S, has) => Ready(on, DropAll(objs), has)
<1> DEFINE p == DropAll(objs)
           n == Len(objs)
<1>1. n \in Nat /\ DOMAIN objs = 1..n /\ ToSet(objs) = S /\ \A i, j \in 1..n : objs[i] = objs[j] => i = j
  BY DEF Lists
<1> HIDE DEF n
<1>2. p = [i \in 1..n |-> Drop(objs[i])]
  BY <1>1 DEF DropAll
<1> HIDE DEF p
<1>3. p = [i \in 1..n |-> p[i]]
  BY <1>2
<1>4. List(p) /\ Len(p) = n /\ DOMAIN p = 1..n
  BY <1>1, <1>3, ListIntro
<1>5. \A i \in 1..n : p[i].op = "drop" /\ p[i].what = objs[i]
  BY <1>2 DEF Drop
<1>6. \A o : o \in S <=> \E i \in 1..n : objs[i] = o
  BY <1>1 DEF ToSet
<1>7. Added(p) = {} /\ Filled(p) = {} /\ Dropped(p) = S
  <2>1. \A o : o \notin Added(p) /\ o \notin Filled(p)
    BY <1>4, <1>5, Members
  <2>2. \A o : o \in Dropped(p) <=> \E i \in DOMAIN p : p[i].op = "drop" /\ p[i].what = o
    BY Members
  <2>3. \A o : o \in Dropped(p) <=> o \in S
    <3>1. \A o : o \in Dropped(p) <=> \E i \in 1..n : objs[i] = o
      BY <1>4, <1>5, <2>2
    <3> QED
      BY <1>6, <3>1, Zenon
  <2> QED
    BY <2>1, <2>3
<1>8. ASSUME NEW on, NEW has, Loose(on, S, has)
      PROVE  Ready(on, p, has)
  <2> SUFFICES ASSUME NEW i \in 1..n
               PROVE  Finds(on, p, i, has)
    BY <1>4 DEF Ready
  <2>1. p[i].op = "drop" /\ p[i].what = objs[i] /\ objs[i] \in S
    BY <1>5, <1>6
  <2>2. \A j \in 1..(i - 1) : j \in 1..n /\ j # i
    BY <1>1
  <2>3. \A j \in 1..(i - 1) : ~Takes(p[j], p[i].what)
    BY <1>1, <1>5, <1>6, <1>8, <2>1, <2>2 DEF Takes, Loose
  <2>4. p[i].what \in has /\ Blocks(on, p[i].what) \cap has = {}
    BY <1>8, <2>1 DEF Loose
  <2> QED
    BY <2>1, <2>3, <2>4 DEF Finds
<1> QED
  BY <1>4, <1>5, <1>7, <1>8 DEF Cut, p

\* What goes with an index: nothing else; with a column: an index on it.
LEMMA BelongsTo ==
  ASSUME NEW o, NEW t, NEW c
  PROVE  /\ Belongs(o, Index(t, c)) <=> o = Index(t, c)
         /\ Belongs(o, Column(t, c)) <=> o = Column(t, c) \/ o = Index(t, c)
         /\ Belongs(o, Table(t)) <=> o.of = t
<1>1. /\ ~IsTable(Index(t, c)) /\ ~IsColumn(Index(t, c))
      /\ ~IsTable(Column(t, c)) /\ IsColumn(Column(t, c))
      /\ IsTable(Table(t)) /\ ~IsColumn(Table(t))
      /\ Column(t, c).of = t /\ Column(t, c).name = c /\ Table(t).of = t
  BY ObjectFields DEF IsTable, IsColumn
<1> QED
  BY <1>1 DEF Belongs

Off(t, has) == {o \in has : o.of # t}

LEMMA DropTableCut ==
  ASSUME NEW t, NEW cols, NEW S, Lists(cols, S)
  PROVE  /\ Cut(DropTable(t, cols), Declared(t, cols))
         /\ \A has : Left(has, DropTable(t, cols)) = Off(t, has)
         /\ \A on, has : Declared(t, cols) \subseteq has /\ Blocks(on, Table(t)) \cap has = {}
                            => Ready(on, DropTable(t, cols), has)
<1> DEFINE I == {Index(t, c) : c \in S}
           x == DropAll(Indexes(t, cols))
           y == <<Drop(Table(t))>>
<1>1. Lists(Indexes(t, cols), I)
  BY ObjectsListed
<1>2. Cut(x, I) /\ Cut(y, {Table(t)})
  BY <1>1, DropAllCut, OneCut
<1>3. Declared(t, cols) = I \cup {Table(t)}
  BY <1>1 DEF Declared, Lists
<1>4. Cut(x \o y, Declared(t, cols))
  BY <1>2, <1>3, JoinedCuts
<1>5. ASSUME NEW has
      PROVE  Left(has, x \o y) = Off(t, has)
  <2>1. Dropped(x \o y) = Declared(t, cols)
    BY <1>4 DEF Cut
  <2>2. \A o : Belongs(o, Table(t)) <=> o.of = t
    BY BelongsTo, Zenon
  <2>3. \A o : \A d \in I : Belongs(o, d) => o.of = t
    BY BelongsTo, ObjectFields
  <2>4. \A o : (\A d \in Declared(t, cols) : ~Belongs(o, d)) <=> (o.of # t)
    BY <1>3, <2>2, <2>3
  <2> QED
    BY <2>1, <2>4 DEF Left, Off
<1>6. ASSUME NEW on, NEW has, Declared(t, cols) \subseteq has, Blocks(on, Table(t)) \cap has = {}
      PROVE  Ready(on, x \o y, has)
  <2>1. Loose(on, I, has)
    <3>1. I \subseteq has
      BY <1>3, <1>6
    <3>2. \A o \in I : Blocks(on, o) = {}
      BY BlocksOfObjects
    <3>3. \A o, d \in I : Belongs(o, d) => o = d
      BY BelongsTo
    <3> QED
      BY <3>1, <3>2, <3>3 DEF Loose
  <2>2. Ready(on, x, has)
    <3> HIDE DEF I, y
    <3> QED
      BY <1>1, <2>1, DropAllCut
  <2>3. Table(t) \in Left(has, x)
    <3>1. Dropped(x) = I
      BY <1>2 DEF Cut
    <3> QED
      BY <1>3, <1>6, <3>1, BelongsTo, ObjectFields DEF Left
  <2>4. Left(has, x) \subseteq has
    BY DEF Left
  <2>5. Ready(on, y, Left(has, x))
    BY <1>6, <2>3, <2>4, OneCut
  <2> HIDE DEF I, x, y
  <2> QED
    BY <1>2, <2>2, <2>5, CutsInTurn
<1> QED
  BY <1>4, <1>5, <1>6 DEF DropTable

-----------------------------------------------------------------------------
(***************************************************************************)
(* A downgrade of the schema that the upgrades made.                       *)
(***************************************************************************)
LEMMA InSchema ==
  ASSUME NEW v, NEW o
  PROVE  o \in SchemaAt(v) <=> \E q \in 1..v : o \in Made(q)
BY DEF SchemaAt

LEMMA DeclaredSet ==
  ASSUME NEW t, NEW cols, NEW S, Lists(cols, S)
  PROVE  Declared(t, cols) = {Table(t)} \cup {Index(t, c) : c \in S}
BY ObjectsListed DEF Declared, Lists

\* In whatever order a script names the indexed columns.
LEMMA SameDeclared ==
  ASSUME NEW t, NEW a, NEW b, a # b
  PROVE  Declared(t, <<a, b>>) = Declared(t, <<b, a>>)
<1>1. Lists(<<a, b>>, {a, b}) /\ Lists(<<b, a>>, {b, a}) /\ {a, b} = {b, a}
  BY TwoNames
<1> QED
  BY <1>1, DeclaredSet

LEMMA IndexNames ==
  ASSUME NEW r \in 1..5, NEW o \in Made(r), IsIndex(o)
  PROVE  /\ o.of = "runs" => /\ r \in {1, 2}
                             /\ o.name \in {"status", "user_id"} \cup ToSet(Keys)
         /\ o.of = "human_review_items" => o.name \in {"run_id", "trigger_class"}
<1>1. CASE r = 1
  BY <1>1, MadeBy1 DEF OfTable
<1>2. CASE r = 2
  <2>1. CASE o \in RunColumns \cup RunIndexes
    BY <2>1, <1>2, ObjectFields DEF RunColumns, RunIndexes, IsIndex
  <2>2. CASE o \notin RunColumns \cup RunIndexes
    <3>1. \E t \in StateNames : o.of = t
      BY <1>2, <2>2, MadeSets, DeclaredObjects DEF StateNames
    <3> QED
      BY <3>1 DEF StateNames
  <2> QED
    BY <2>1, <2>2
<1>3. CASE r = 3
  <2>1. o.of # "runs"
    BY <1>3, MadeBy3 DEF OfTable
  <2>2. ASSUME o.of = "human_review_items"
        PROVE  o.name \in {"run_id", "trigger_class"}
    <3>1. o \in Declared("human_review_items", <<"run_id", "trigger_class">>)
      BY <1>3, <2>2, MadeSets, DeclaredObjects
    <3>2. ToSet(<<"run_id", "trigger_class">>) = {"run_id", "trigger_class"}
      BY TwoNames DEF Lists
    <3> QED
      BY <3>1, <3>2, DeclaredOf, KindsDiffer
  <2> QED
    BY <1>3, <2>1, <2>2
<1>4. CASE r = 4
  BY <1>4, MadeBy4, KindsDiffer DEF OfTable
<1>5. CASE r = 5
  BY <1>5, MadeBy5 DEF OfTable
<1> QED
  BY <1>1, <1>2, <1>3, <1>4, <1>5

\* What a downgrade has dropped so far, and what is left.
Gone(on, has, p, drops, left) == Cut(p, drops) /\ Ready(on, p, has) /\ Left(has, p) = left

LEMMA DropTableFirst ==
  ASSUME NEW on, NEW has, NEW t, NEW cols, NEW S, Lists(cols, S),
         Declared(t, cols) \subseteq has, Blocks(on, Table(t)) \cap has = {}
  PROVE  Gone(on, has, DropTable(t, cols), Declared(t, cols), Off(t, has))
BY DropTableCut DEF Gone

LEMMA DropTableNext ==
  ASSUME NEW on, NEW has, NEW p, NEW drops, NEW left, Gone(on, has, p, drops, left),
         NEW t, NEW cols, NEW S, Lists(cols, S),
         Declared(t, cols) \subseteq left, Blocks(on, Table(t)) \cap left = {}
  PROVE  Gone(on, has, p \o DropTable(t, cols), drops \cup Declared(t, cols), Off(t, left))
<1> DEFINE q == DropTable(t, cols)
           D == Declared(t, cols)
<1>1. Gone(on, left, q, D, Off(t, left))
  BY DropTableFirst
<1> HIDE DEF q, D
<1>2. Cut(p \o q, drops \cup D)
  BY <1>1, JoinedCuts DEF Gone
<1>3. Ready(on, p \o q, has) /\ Left(has, p \o q) = Left(left, q)
  BY <1>1, CutsInTurn DEF Gone
<1> QED
  BY <1>1, <1>2, <1>3 DEF Gone, q, D

LEMMA DropAllNext ==
  ASSUME NEW on, NEW has, NEW p, NEW drops, NEW left, Gone(on, has, p, drops, left),
         NEW objs, NEW S, Lists(objs, S), Loose(on, S, left)
  PROVE  Gone(on, has, p \o DropAll(objs), drops \cup S,
              {o \in left : \A d \in S : ~Belongs(o, d)})
<1> DEFINE q == DropAll(objs)
<1>1. Cut(q, S) /\ Ready(on, q, left)
  BY DropAllCut
<1> HIDE DEF q
<1>2. Left(left, q) = {o \in left : \A d \in S : ~Belongs(o, d)}
  BY <1>1 DEF Left, Cut
<1>3. Cut(p \o q, drops \cup S)
  BY <1>1, JoinedCuts DEF Gone
<1>4. Ready(on, p \o q, has) /\ Left(has, p \o q) = Left(left, q)
  BY <1>1, CutsInTurn DEF Gone
<1> QED
  BY <1>2, <1>3, <1>4 DEF Gone, q

LEMMA OffFacts ==
  ASSUME NEW t, NEW u, NEW cols, NEW has
  PROVE  /\ t # u /\ Declared(t, cols) \subseteq has => Declared(t, cols) \subseteq Off(u, has)
         /\ Off(u, has) \subseteq has
         /\ Table(u) \notin Off(u, has)
BY DeclaredObjects, ObjectFields DEF Off

LEMMA Down1Gone ==
  ASSUME NEW on
  PROVE  \E left : Gone(on, Made(1), Down1, Made(1), left)
<1> DEFINE has == Made(1)
           left1 == Off("tool_calls", has)
           left2 == Off("messages", left1)
           left3 == Off("runs", left2)
           C == Declared("tool_calls", <<"run_id">>)
           M == Declared("messages", <<"run_id", "role">>)
           R == Declared("runs", <<"user_id", "status">>)
           U == Declared("users", <<"email">>)
           p1 == DropTable("tool_calls", <<"run_id">>)
           p2 == p1 \o DropTable("messages", <<"run_id", "role">>)
           p3 == p2 \o DropTable("runs", <<"user_id", "status">>)
<1>1. /\ Lists(<<"run_id">>, {"run_id"}) /\ Lists(<<"email">>, {"email"})
      /\ Lists(<<"run_id", "role">>, {"run_id", "role"})
      /\ Lists(<<"user_id", "status">>, {"user_id", "status"})
  BY OneName, TwoNames
<1>2. has = U \cup R \cup M \cup C
  BY MadeSets, SameDeclared DEF New1
<1>3. /\ C \subseteq has /\ M \subseteq left1 /\ R \subseteq left2 /\ U \subseteq left3
  <2>1. C \subseteq has /\ M \subseteq has /\ R \subseteq has /\ U \subseteq has
    BY <1>2
  <2> HIDE DEF has
  <2>2. M \subseteq left1 /\ R \subseteq left1 /\ U \subseteq left1
    BY <2>1, OffFacts
  <2> HIDE DEF left1
  <2>3. R \subseteq left2 /\ U \subseteq left2
    BY <2>2, OffFacts
  <2> HIDE DEF left2
  <2> QED
    BY <2>2, <2>3, <2>1, OffFacts
<1>4. Table("tool_calls") \notin left2 /\ Table("messages") \notin left2 /\ left2 \subseteq has
  BY OffFacts
<1>5. \A t : Table(t) \in has => t \in {"users", "runs", "messages", "tool_calls"}
  BY MadeBy1, ObjectFields DEF OfTable
<1>6. /\ Blocks(on, Table("tool_calls")) \cap has = {}
      /\ Blocks(on, Table("messages")) \cap left1 = {}
  BY BlocksOfObjects
<1>7. Blocks(on, Table("runs")) \cap left2 = {}
  BY <1>4, <1>5, BlocksOfObjects
<1>8. Blocks(on, Table("users")) \cap left3 = {}
  BY BlocksOfObjects, OffFacts
<1>9. Gone(on, has, p1, C, left1)
  BY <1>1, <1>3, <1>6, DropTableFirst
<1> HIDE DEF p1, has, left1
<1>10. Gone(on, has, p2, C \cup M, left2)
  BY <1>1, <1>3, <1>6, <1>9, DropTableNext
<1> HIDE DEF p2, left2
<1>11. Gone(on, has, p3, (C \cup M) \cup R, left3)
  BY <1>1, <1>3, <1>7, <1>10, DropTableNext
<1> HIDE DEF p3, left3
<1>12. Gone(on, has, p3 \o DropTable("users", <<"email">>), ((C \cup M) \cup R) \cup U, Off("users", left3))
  BY <1>1, <1>3, <1>8, <1>11, DropTableNext
<1>13. Down1 = p3 \o DropTable("users", <<"email">>)
  BY DEF Down1, p3, p2, p1
<1>14. has = ((C \cup M) \cup R) \cup U
  BY <1>2
<1> QED
  BY <1>12, <1>13, <1>14 DEF has

LEMMA Down3Gone ==
  ASSUME NEW on
  PROVE  \E left : Gone(on, SchemaAt(3), Down3, Made(3), left)
<1> DEFINE has == SchemaAt(3)
           left1 == Off("human_review_items", has)
           left2 == Off("coverage_gaps", left1)
           left3 == Off("provenances", left2)
           H == Declared("human_review_items", <<"trigger_class", "run_id">>)
           C == Declared("coverage_gaps", <<"run_id">>)
           P == Declared("provenances", <<"finding_id">>)
           F == Declared("findings", <<"run_id">>)
           p1 == DropTable("human_review_items", <<"trigger_class", "run_id">>)
           p2 == p1 \o DropTable("coverage_gaps", <<"run_id">>)
           p3 == p2 \o DropTable("provenances", <<"finding_id">>)
<1>1. /\ Lists(<<"run_id">>, {"run_id"}) /\ Lists(<<"finding_id">>, {"finding_id"})
      /\ Lists(<<"trigger_class", "run_id">>, {"trigger_class", "run_id"})
  BY OneName, TwoNames
<1>2. Made(3) = F \cup P \cup C \cup H
  BY MadeSets, SameDeclared
<1>3. /\ H \subseteq has /\ C \subseteq left1 /\ P \subseteq left2 /\ F \subseteq left3
  <2>1. Made(3) \subseteq has
    BY InSchema
  <2>2. H \subseteq has /\ C \subseteq has /\ P \subseteq has /\ F \subseteq has
    BY <1>2, <2>1
  <2> HIDE DEF has
  <2>3. C \subseteq left1 /\ P \subseteq left1 /\ F \subseteq left1
    BY <2>2, OffFacts
  <2> HIDE DEF left1
  <2>4. P \subseteq left2 /\ F \subseteq left2
    BY <2>3, OffFacts
  <2> HIDE DEF left2
  <2> QED
    BY <2>2, <2>3, <2>4, OffFacts
<1>4. /\ Blocks(on, Table("human_review_items")) \cap has = {}
      /\ Blocks(on, Table("coverage_gaps")) \cap left1 = {}
      /\ Blocks(on, Table("provenances")) \cap left2 = {}
  BY BlocksOfObjects
<1>5. Blocks(on, Table("findings")) \cap left3 = {}
  BY BlocksOfObjects, OffFacts
<1>6. Gone(on, has, p1, H, left1)
  BY <1>1, <1>3, <1>4, DropTableFirst
<1> HIDE DEF p1, has, left1
<1>7. Gone(on, has, p2, H \cup C, left2)
  BY <1>1, <1>3, <1>4, <1>6, DropTableNext
<1> HIDE DEF p2, left2
<1>8. Gone(on, has, p3, (H \cup C) \cup P, left3)
  BY <1>1, <1>3, <1>4, <1>7, DropTableNext
<1> HIDE DEF p3, left3
<1>9. Gone(on, has, p3 \o DropTable("findings", <<"run_id">>), ((H \cup C) \cup P) \cup F,
           Off("findings", left3))
  BY <1>1, <1>3, <1>5, <1>8, DropTableNext
<1>10. Down3 = p3 \o DropTable("findings", <<"run_id">>)
  BY DEF Down3, p3, p2, p1
<1>11. Made(3) = ((H \cup C) \cup P) \cup F
  BY <1>2
<1> QED
  BY <1>9, <1>10, <1>11 DEF has

LEMMA ContractLoose ==
  ASSUME NEW on, NEW has, RunColumns \subseteq has, has \subseteq SchemaAt(2), has \cap RunIndexes = {}
  PROVE  Loose(on, RunColumns, has)
<1>1. ASSUME NEW c \in ToSet(ContractColumns)
      PROVE  Index("runs", c) \notin has
  <2> SUFFICES ASSUME Index("runs", c) \in has
               PROVE  FALSE
    OBVIOUS
  <2>1. \E q \in 1..2 : Index("runs", c) \in Made(q)
    BY InSchema
  <2>2. c \in {"status", "user_id"} \cup ToSet(Keys)
    <3>1. /\ IsIndex(Index("runs", c)) /\ Index("runs", c).of = "runs"
          /\ Index("runs", c).name = c
      BY ObjectFields DEF IsIndex
    <3> QED
      BY <2>1, <3>1, IndexNames
  <2>3. c \notin ToSet(Keys)
    BY DEF RunIndexes
  <2> QED
    BY <2>2, <2>3, ContractNames DEF Lists
<1>2. \A o \in RunColumns : Blocks(on, o) \cap has = {}
  BY <1>1, BlocksOfObjects DEF RunColumns
<1>3. \A o, d \in RunColumns : Belongs(o, d) => o = d
  BY BelongsTo, ObjectFields DEF RunColumns
<1> QED
  BY <1>2, <1>3 DEF Loose

LEMMA Down2Gone ==
  ASSUME NEW on
  PROVE  \E left : Gone(on, SchemaAt(2), Down2, Made(2), left)
<1> DEFINE has == SchemaAt(2)
           left1 == Off("scratchpads", has)
           left2 == Off("facts_blocks", left1)
           left3 == Off("session_states", left2)
           left4 == {o \in left3 : \A d \in RunIndexes : ~Belongs(o, d)}
           S == Declared("scratchpads", <<"session_state_id", "kind">>)
           F == Declared("facts_blocks", <<"session_state_id", "key">>)
           T == Declared("session_states", <<"session_id">>)
           p1 == DropTable("scratchpads", <<"session_state_id", "kind">>)
           p2 == p1 \o DropTable("facts_blocks", <<"session_state_id", "key">>)
           p3 == p2 \o DropTable("session_states", <<"session_id">>)
           p4 == p3 \o DropAll(Indexes("runs", Reverse(Keys)))
           p5 == p4 \o DropAll(Columns("runs", Reverse(ContractColumns)))
<1>1. /\ Lists(<<"session_state_id", "kind">>, {"session_state_id", "kind"})
      /\ Lists(<<"session_state_id", "key">>, {"session_state_id", "key"})
      /\ Lists(<<"session_id">>, {"session_id"})
  BY OneName, TwoNames
<1>2. Made(2) = RunColumns \cup RunIndexes \cup T \cup F \cup S
  BY MadeSets, SameDeclared
<1>3. /\ Lists(Indexes("runs", Reverse(Keys)), RunIndexes)
      /\ Lists(Columns("runs", Reverse(ContractColumns)), RunColumns)
  <2>1. \E A : Lists(Keys, A) /\ A = ToSet(Keys)
    BY KeyNames DEF Lists
  <2>2. \E A : Lists(ContractColumns, A) /\ A = ToSet(ContractColumns)
    BY ContractNames DEF Lists
  <2>3. Lists(Reverse(Keys), ToSet(Keys)) /\ Lists(Reverse(ContractColumns), ToSet(ContractColumns))
    BY <2>1, <2>2, Reversed
  <2> QED
    BY <2>3, ObjectsListed DEF RunIndexes, RunColumns
<1>4. /\ S \subseteq has /\ F \subseteq left1 /\ T \subseteq left2
      /\ RunColumns \subseteq left3 /\ RunIndexes \subseteq left3
  <2>1. Made(2) \subseteq has
    BY InSchema
  <2>2. S \subseteq has /\ F \subseteq has /\ T \subseteq has
        /\ RunColumns \subseteq has /\ RunIndexes \subseteq has
    BY <1>2, <2>1
  <2>3. RunColumns \subseteq left3 /\ RunIndexes \subseteq left3
    BY <2>2, ObjectFields DEF Off, RunColumns, RunIndexes
  <2> HIDE DEF has
  <2>4. F \subseteq left1 /\ T \subseteq left1
    BY <2>2, OffFacts
  <2> HIDE DEF left1
  <2> QED
    BY <2>2, <2>3, <2>4, OffFacts
<1>5. /\ Blocks(on, Table("scratchpads")) \cap has = {}
      /\ Blocks(on, Table("facts_blocks")) \cap left1 = {}
  BY BlocksOfObjects
<1>6. Blocks(on, Table("session_states")) \cap left2 = {}
  BY BlocksOfObjects, OffFacts
<1>7. Loose(on, RunIndexes, left3)
  <2>1. \A o \in RunIndexes : Blocks(on, o) = {}
    BY BlocksOfObjects DEF RunIndexes
  <2>2. \A o, d \in RunIndexes : Belongs(o, d) => o = d
    BY BelongsTo DEF RunIndexes
  <2> QED
    BY <1>4, <2>1, <2>2 DEF Loose
<1>8. Loose(on, RunColumns, left4)
  <2>1. \A o : Belongs(o, o)
    BY DEF Belongs
  <2>2. left4 \cap RunIndexes = {}
    BY <2>1
  <2>3. \A o \in RunColumns, d \in RunIndexes : ~Belongs(o, d)
    BY BelongsTo, ObjectFields DEF RunColumns, RunIndexes
  <2>4. RunColumns \subseteq left4
    BY <1>4, <2>3
  <2>5. left4 \subseteq SchemaAt(2)
    BY OffFacts
  <2> HIDE DEF left4
  <2> QED
    BY <2>2, <2>4, <2>5, ContractLoose
<1>9. Gone(on, has, p1, S, left1)
  BY <1>1, <1>4, <1>5, DropTableFirst
<1> HIDE DEF p1, has, left1
<1>10. Gone(on, has, p2, S \cup F, left2)
  BY <1>1, <1>4, <1>5, <1>9, DropTableNext
<1> HIDE DEF p2, left2
<1>11. Gone(on, has, p3, (S \cup F) \cup T, left3)
  BY <1>1, <1>4, <1>6, <1>10, DropTableNext
<1> HIDE DEF p3, left3
<1>12. Gone(on, has, p4, ((S \cup F) \cup T) \cup RunIndexes, left4)
  BY <1>3, <1>7, <1>11, DropAllNext
<1> HIDE DEF p4, left4
<1>13. Gone(on, has, p5, (((S \cup F) \cup T) \cup RunIndexes) \cup RunColumns,
            {o \in left4 : \A d \in RunColumns : ~Belongs(o, d)})
  BY <1>3, <1>8, <1>12, DropAllNext
<1>14. Down2 = p5
  BY DEF Down2, p4, p3, p2, p1
<1>15. Made(2) = (((S \cup F) \cup T) \cup RunIndexes) \cup RunColumns
  BY <1>2
<1> QED
  BY <1>13, <1>14, <1>15 DEF has

LEMMA Down4Gone ==
  ASSUME NEW on
  PROVE  \E left : Gone(on, SchemaAt(4), Down4, ReviewColumns \cup {Table("run_transcript_events")}, left)
<1> DEFINE has == SchemaAt(4)
           p == DropAll(Reverse(Resolution))
           q == <<Drop(Table("run_transcript_events"))>>
           left == Left(has, p)
<1>1. Lists(Reverse(Resolution), ReviewColumns)
  BY ResolutionList, Reversed
<1>2. Made(4) \subseteq has
  BY InSchema
<1>3. ReviewColumns \subseteq has /\ Table("run_transcript_events") \in has
  BY <1>2, MadeSets, MadeTables
<1>4. ASSUME NEW c \in {"resolved_at", "resolution", "resolver"}
      PROVE  Index("human_review_items", c) \notin has
  <2> SUFFICES ASSUME Index("human_review_items", c) \in has
               PROVE  FALSE
    OBVIOUS
  <2>1. \E r \in 1..4 : Index("human_review_items", c) \in Made(r)
    BY InSchema
  <2>2. c \in {"run_id", "trigger_class"}
    <3>1. /\ IsIndex(Index("human_review_items", c))
          /\ Index("human_review_items", c).of = "human_review_items"
          /\ Index("human_review_items", c).name = c
      BY ObjectFields DEF IsIndex
    <3> QED
      BY <2>1, <3>1, IndexNames
  <2> QED
    BY <2>2
<1>5. Loose(on, ReviewColumns, has)
  <2>1. \A o \in ReviewColumns : Blocks(on, o) \cap has = {}
    <3> HIDE DEF has
    <3> QED
      BY <1>4, BlocksOfObjects DEF ReviewColumns
  <2>2. \A o, d \in ReviewColumns : Belongs(o, d) => o = d
    BY BelongsTo, ObjectFields DEF ReviewColumns
  <2> QED
    BY <1>3, <2>1, <2>2 DEF Loose
<1>6. Cut(p, ReviewColumns) /\ Ready(on, p, has)
  BY <1>1, <1>5, DropAllCut
<1>7. Table("run_transcript_events") \in left
  <2>1. \A d \in ReviewColumns : ~Belongs(Table("run_transcript_events"), d)
    BY BelongsTo, ObjectFields DEF ReviewColumns
  <2> QED
    BY <1>3, <1>6, <2>1 DEF Left, Cut
<1>8. Cut(q, {Table("run_transcript_events")}) /\ Ready(on, q, left)
  BY <1>7, OneCut, BlocksOfObjects
<1>9. Down4 = p \o q
  BY DEF Down4
<1> HIDE DEF p, q
<1> QED
  BY <1>6, <1>8, <1>9, JoinedCuts, CutsInTurn DEF Gone

LEMMA Down5Cut ==
  ASSUME NEW has
  PROVE  /\ Cut(Down5(has), IF Table("outbox_events") \in has THEN {Table("outbox_events")} ELSE {})
         /\ \A on : Ready(on, Down5(has), has)
<1>1. CASE Table("outbox_events") \in has
  <2>1. Down5(has) = <<Drop(Table("outbox_events"))>>
    BY <1>1 DEF Down5
  <2>2. \A on : Blocks(on, Table("outbox_events")) = {}
    BY BlocksOfObjects
  <2> QED
    BY <1>1, <2>1, <2>2, OneCut
<1>2. CASE Table("outbox_events") \notin has
  <2>1. Down5(has) = <<>>
    BY <1>2 DEF Down5
  <2>2. Cut(<<>>, {})
    BY NothingPart DEF Part, Cut
  <2> QED
    BY <1>2, <2>1, <2>2, NothingPart
<1> QED
  BY <1>1, <1>2

-----------------------------------------------------------------------------
(***************************************************************************)
(* What the revisions make, by kind.                                       *)
(***************************************************************************)
NewTables(r) == CASE r = 1 -> {"users", "runs", "messages", "tool_calls"}
                  [] r = 2 -> StateNames
                  [] r = 3 -> {"findings", "provenances", "coverage_gaps", "human_review_items"}
                  [] r = 4 -> {"run_transcript_events"}
                  [] OTHER -> {"outbox_events"}

\* A column is of a table of an earlier revision; so are the indexes of 0002.
MadeAs(r, o) ==
    /\ IsTable(o) \/ IsIndex(o) \/ IsColumn(o)
    /\ IsTable(o) => o = Table(o.of) /\ o.of \in NewTables(r)
    /\ IsIndex(o) => o.of \in NewTables(r) \/ (r = 2 /\ o.of = "runs")
    /\ IsColumn(o) => \/ r = 2 /\ o.of = "runs" /\ o.name \in ToSet(ContractColumns)
                      \/ r = 4 /\ o.of = "human_review_items"
                               /\ o.name \in {"resolved_at", "resolution", "resolver"}

LEMMA TableMadeAs ==
  ASSUME NEW r \in 1..5, NEW o, NEW t \in NewTables(r), OfTable(o, t)
  PROVE  MadeAs(r, o)
BY KindsDiffer DEF OfTable, MadeAs

LEMMA MadeKinds ==
  ASSUME NEW r \in 1..5, NEW o \in Made(r)
  PROVE  MadeAs(r, o)
<1>1. CASE r = 1
  BY <1>1, MadeBy1, TableMadeAs DEF NewTables
<1>2. CASE r = 2
  <2>1. CASE o \in RunColumns \cup RunIndexes
    <3>1. (IsIndex(o) \/ IsColumn(o)) /\ o.of = "runs" /\ o.name \in ToSet(ContractColumns)
      BY <2>1, ObjectFields, ContractNames, KeyNames DEF RunColumns, RunIndexes, IsIndex, IsColumn, Lists
    <3> QED
      BY <1>2, <3>1, KindsDiffer DEF MadeAs
  <2>2. CASE o \notin RunColumns \cup RunIndexes
    <3>1. \E t \in StateNames : OfTable(o, t)
      BY <1>2, <2>2, MadeSets, DeclaredOf DEF StateNames
    <3> QED
      BY <1>2, <3>1, TableMadeAs DEF NewTables
  <2> QED
    BY <2>1, <2>2
<1>3. CASE r = 3
  BY <1>3, MadeBy3, TableMadeAs DEF NewTables
<1>4. CASE r = 4
  <2>1. CASE IsColumn(o) /\ o \in ReviewColumns
    <3>1. o.of = "human_review_items" /\ o.name \in {"resolved_at", "resolution", "resolver"}
      BY <2>1, ObjectFields DEF ReviewColumns
    <3> QED
      BY <1>4, <2>1, <3>1, KindsDiffer DEF MadeAs
  <2>2. CASE OfTable(o, "run_transcript_events")
    BY <1>4, <2>2, TableMadeAs DEF NewTables
  <2> QED
    BY <1>4, <2>1, <2>2, MadeBy4
<1>5. CASE r = 5
  BY <1>5, MadeBy5, TableMadeAs DEF NewTables
<1> QED
  BY <1>1, <1>2, <1>3, <1>4, <1>5

LEMMA NewTablesMade ==
  ASSUME NEW r \in 1..5, NEW t \in NewTables(r)
  PROVE  Table(t) \in Made(r)
<1>1. r = 1 \/ r = 2 \/ r = 3 \/ r = 4 \/ r = 5
  OBVIOUS
<1> QED
  BY <1>1, MadeTables DEF NewTables

\* The table of whatever a revision makes was made by it or before it.
LEMMA HomeMade ==
  ASSUME NEW r \in 1..5, NEW o \in Made(r)
  PROVE  /\ \E q \in 1..r : Table(o.of) \in Made(q)
         /\ r \in 3..5 /\ IsIndex(o) => Table(o.of) \in Made(r)
<1>1. MadeAs(r, o)
  BY MadeKinds
<1>2. CASE o.of \in NewTables(r)
  BY <1>2, NewTablesMade
<1>3. CASE r = 2 /\ o.of = "runs"
  BY <1>3, MadeTables
<1>4. CASE r = 4 /\ o.of = "human_review_items" /\ IsColumn(o)
  <2>1. 3 \in 1..r /\ Table(o.of) \in Made(3)
    BY <1>4, MadeTables
  <2> QED
    BY <1>4, <2>1, KindsDiffer
<1> QED
  BY <1>1, <1>2, <1>3, <1>4 DEF MadeAs

\* No index of a table that a later revision made is on a column that came
\* later still.
LEMMA ColumnsOfOld ==
  ASSUME NEW q \in 1..5, NEW r \in 1..5, NEW o \in Made(q), NEW d \in Made(r),
         IsColumn(d), o = Index(d.of, d.name)
  PROVE  q = 2 /\ r = 2
<1>1. IsIndex(o) /\ o.of = d.of /\ o.name = d.name
  BY ObjectFields DEF IsIndex
<1>2. MadeAs(r, d)
  BY MadeKinds
<1>3. CASE r = 4 /\ d.of = "human_review_items"
              /\ d.name \in {"resolved_at", "resolution", "resolver"}
  BY <1>1, <1>3, IndexNames
<1>4. CASE r = 2 /\ d.of = "runs" /\ d.name \in ToSet(ContractColumns)
  <2>1. q \in {1, 2}
    BY <1>1, <1>4, IndexNames
  <2>2. ASSUME q = 1
        PROVE  FALSE
    <3>1. o.name \in {"status", "user_id"}
      BY <1>1, <1>4, <2>2, MadeBy1
    <3> QED
      BY <1>1, <1>4, <3>1, ContractNames DEF Lists
  <2> QED
    BY <1>4, <2>1, <2>2
<1> QED
  BY <1>2, <1>3, <1>4 DEF MadeAs

\* Nothing of an earlier revision goes with what a later one made.
LEMMA NothingOlder ==
  ASSUME NEW q \in 1..5, NEW r \in 1..5, q < r, NEW o \in Made(q), NEW d \in Made(r)
  PROVE  ~Belongs(o, d)
<1> SUFFICES ASSUME Belongs(o, d)
             PROVE  FALSE
  OBVIOUS
<1>1. o # d
  BY MadeOnce
<1>2. CASE IsTable(d) /\ o.of = d.of
  <2>1. MadeAs(q, o) /\ MadeAs(r, d)
    BY MadeKinds
  <2>2. d.of \in NewTables(r)
    BY <1>2, <2>1 DEF MadeAs
  <2>3. o.of \in NewTables(q) \cup {"runs", "human_review_items"}
        /\ (o.of \notin NewTables(q) => (o.of = "runs" /\ q = 2) \/ (o.of = "human_review_items" /\ q = 4))
    BY <2>1 DEF MadeAs
  <2>4. q \in {1, 2, 3, 4} /\ r \in {2, 3, 4, 5}
    OBVIOUS
  <2> QED
    BY <1>2, <2>2, <2>3, <2>4 DEF NewTables, StateNames
<1>3. CASE IsColumn(d) /\ o = Index(d.of, d.name)
  BY <1>3, ColumnsOfOld
<1> QED
  BY <1>1, <1>2, <1>3 DEF Belongs

-----------------------------------------------------------------------------
(***************************************************************************)
(* A downgrade, whatever is there still.                                   *)
(***************************************************************************)
Downgrades(r, has, p) ==
    /\ Cut(p, Dropped(p)) /\ Dropped(p) \subseteq Made(r)
    /\ r = 2 => \A t \in StateNames : Table(t) \in Dropped(p)
    /\ \A q \in 1..5 : q < r => \A o \in Made(q) : \A d \in Dropped(p) : ~Belongs(o, d)
    /\ \A q \in 3..5 : \A o \in Made(q) : IsIndex(o) /\ (\E d \in Dropped(p) : Belongs(o, d))
                                              => \E d \in Dropped(p) : Belongs(Table(o.of), d)
    /\ (r = 5 => Table("outbox_events") \in has)
           => \A o \in Made(r) : \E d \in Dropped(p) : Belongs(o, d)

DropsOf(r, has) == CASE r \in 1..3 -> Made(r)
                     [] r = 4 -> ReviewColumns \cup {Table("run_transcript_events")}
                     [] OTHER -> IF Table("outbox_events") \in has THEN {Table("outbox_events")} ELSE {}

LEMMA DownCut ==
  ASSUME NEW r \in 1..5, NEW has
  PROVE  Cut(Down(r, has), DropsOf(r, has))
<1>1. Cut(Down1, Made(1)) /\ Cut(Down2, Made(2)) /\ Cut(Down3, Made(3))
  BY Down1Gone, Down2Gone, Down3Gone DEF Gone
<1>2. /\ Cut(Down4, ReviewColumns \cup {Table("run_transcript_events")})
      /\ Cut(Down5(has), IF Table("outbox_events") \in has THEN {Table("outbox_events")} ELSE {})
  BY Down4Gone, Down5Cut DEF Gone
<1>3. r = 1 \/ r = 2 \/ r = 3 \/ r = 4 \/ r = 5
  OBVIOUS
<1> QED
  BY <1>1, <1>2, <1>3 DEF Down, DropsOf

LEMMA DropsMade ==
  ASSUME NEW r \in 1..5, NEW has
  PROVE  DropsOf(r, has) \subseteq Made(r)
BY MadeSets, MadeTables DEF DropsOf

LEMMA Downgrade ==
  ASSUME NEW r \in 1..5, NEW has
  PROVE  Downgrades(r, has, Down(r, has))
<1> DEFINE p == Down(r, has)
           D == DropsOf(r, has)
<1>1. Cut(p, D) /\ Dropped(p) = D
  BY DownCut DEF Cut
<1>2. D \subseteq Made(r)
  BY DropsMade
<1>3. r = 2 => \A t \in StateNames : Table(t) \in D
  BY MadeTables DEF DropsOf
<1>4. \A q \in 1..5 : q < r => \A o \in Made(q) : \A d \in D : ~Belongs(o, d)
  BY <1>2, NothingOlder
<1>5. ASSUME NEW q \in 3..5, NEW o \in Made(q), IsIndex(o), NEW d \in D, Belongs(o, d)
      PROVE  \E e \in D : Belongs(Table(o.of), e)
  <2>1. CASE o = d
    <3>1. q = r
      BY <1>2, <2>1, MadeOnce
    <3>2. CASE r = 3
      <4>1. Table(o.of) \in Made(r)
        BY <1>5, <3>1, <3>2, HomeMade
      <4>2. Table(o.of) \in D
        BY <3>2, <4>1 DEF DropsOf
      <4> QED
        BY <4>2 DEF Belongs
    <3>3. CASE r # 3
      <4>1. D \subseteq ReviewColumns \cup {Table("run_transcript_events"), Table("outbox_events")}
        BY <3>1, <3>3 DEF DropsOf
      <4>2. \A x \in ReviewColumns \cup {Table("run_transcript_events"), Table("outbox_events")} : ~IsIndex(x)
        BY ObjectFields DEF ReviewColumns, IsIndex
      <4> HIDE DEF D
      <4> QED
        BY <2>1, <1>5, <4>1, <4>2
    <3> QED
      BY <3>2, <3>3
  <2>2. CASE IsTable(d) /\ o.of = d.of
    <3>1. Belongs(Table(o.of), d)
      BY <2>2, ObjectFields DEF Belongs
    <3> QED
      BY <3>1
  <2>3. CASE IsColumn(d) /\ o = Index(d.of, d.name)
    BY <1>2, <2>3, ColumnsOfOld
  <2> QED
    BY <1>5, <2>1, <2>2, <2>3 DEF Belongs
<1>6. ASSUME r = 5 => Table("outbox_events") \in has, NEW o \in Made(r)
      PROVE  \E d \in D : Belongs(o, d)
  <2>1. CASE r \in 1..3
    BY <1>6, <2>1 DEF DropsOf, Belongs
  <2>2. CASE r = 4
    <3>1. D = ReviewColumns \cup {Table("run_transcript_events")}
      BY <2>2 DEF DropsOf
    <3>2. CASE o \in ReviewColumns
      BY <3>1, <3>2 DEF Belongs
    <3>3. CASE OfTable(o, "run_transcript_events")
      <4>1. Belongs(o, Table("run_transcript_events"))
        BY <3>3, BelongsTo DEF OfTable
      <4> HIDE DEF D
      <4> QED
        BY <3>1, <4>1
    <3> QED
      BY <1>6, <2>2, <3>2, <3>3, MadeBy4
  <2>3. CASE r = 5
    <3>1. D = {Table("outbox_events")}
      BY <1>6, <2>3 DEF DropsOf
    <3>2. Belongs(o, Table("outbox_events"))
      BY <1>6, <2>3, MadeBy5, BelongsTo DEF OfTable
    <3> HIDE DEF D
    <3> QED
      BY <3>1, <3>2
  <2> QED
    BY <2>1, <2>2, <2>3
<1> HIDE DEF D, p
<1>7. Downgrades(r, has, p)
  BY <1>1, <1>2, <1>3, <1>4, <1>5, <1>6 DEF Downgrades
<1> QED
  BY <1>7 DEF p

LEMMA DowngradeReady ==
  ASSUME NEW on, NEW r \in 1..5
  PROVE  Ready(on, Down(r, SchemaAt(r)), SchemaAt(r))
<1>1. SchemaAt(1) = Made(1)
  BY InSchema
<1>2. Ready(on, Down1, SchemaAt(1))
  BY <1>1, Down1Gone DEF Gone
<1>3. Ready(on, Down2, SchemaAt(2)) /\ Ready(on, Down3, SchemaAt(3)) /\ Ready(on, Down4, SchemaAt(4))
  BY Down2Gone, Down3Gone, Down4Gone DEF Gone
<1>4. Ready(on, Down5(SchemaAt(5)), SchemaAt(5))
  BY Down5Cut
<1>5. r = 1 \/ r = 2 \/ r = 3 \/ r = 4 \/ r = 5
  OBVIOUS
<1> QED
  BY <1>2, <1>3, <1>4, <1>5 DEF Down

-----------------------------------------------------------------------------
(***************************************************************************)
(* A plan: a script and its stamp, run from the front.                     *)
(***************************************************************************)
\* A plan is a script with its stamp behind it.
Stamped(s, p, v) == /\ List(s) /\ s # <<>> /\ Len(p) \in Nat /\ DOMAIN p = 1..Len(p)
                    /\ DOMAIN s = 1..Len(s) /\ Len(s) = Len(p) + 1
                    /\ \A i \in 1..Len(p) : s[i] = p[i]
                    /\ s[Len(s)] = Stamp(v)
                    /\ Added(s) = Added(p) /\ Filled(s) = Filled(p) /\ Dropped(s) = Dropped(p)

LEMMA StampedPlan ==
  ASSUME NEW p, List(p), NEW v
  PROVE  Stamped(p \o <<Stamp(v)>>, p, v)
<1> DEFINE q == <<Stamp(v)>>
           s == p \o q
<1>1. List(q) /\ Len(q) = 1 /\ DOMAIN q = {1} /\ q[1] = Stamp(v)
  BY OneName DEF Lists
<1>2. /\ Stamp(v).op # "add" /\ Stamp(v).op # "fill" /\ Stamp(v).op # "drop"
  BY DEF Stamp
<1> HIDE DEF q
<1>3. \A o : o \notin Added(q) /\ o \notin Filled(q) /\ o \notin Dropped(q)
  BY <1>1, <1>2, Members
<1>4. /\ Added(s) = Added(p) \cup Added(q) /\ Filled(s) = Filled(p) \cup Filled(q)
      /\ Dropped(s) = Dropped(p) \cup Dropped(q)
  BY <1>1, JoinedSets
<1>5. IsJoin(p, q, s)
  BY <1>1, Joined
<1> HIDE DEF s
<1>6. Added(s) = Added(p) /\ Filled(s) = Filled(p) /\ Dropped(s) = Dropped(p)
  BY <1>3, <1>4
<1>7. Len(s) = Len(p) + 1 /\ 1 \in 1..Len(q) /\ Len(p) \in Nat
  BY <1>1, <1>5 DEF IsJoin
<1>8. s[Len(p) + 1] = q[1]
  BY <1>5, <1>7 DEF IsJoin
<1>9. s[Len(s)] = Stamp(v)
  BY <1>1, <1>7, <1>8
<1>10. s # <<>>
  BY <1>7
<1>11. /\ List(s) /\ DOMAIN s = 1..Len(s) /\ DOMAIN p = 1..Len(p)
       /\ \A i \in 1..Len(p) : s[i] = p[i]
  BY <1>5 DEF IsJoin
<1> QED
  BY <1>6, <1>7, <1>9, <1>10, <1>11 DEF Stamped, s, q

LEMMA StampedReady ==
  ASSUME NEW s, NEW p, NEW v, Stamped(s, p, v), NEW on, NEW has, Ready(on, p, has)
  PROVE  Ready(on, s, has)
<1> SUFFICES ASSUME NEW i \in DOMAIN s
             PROVE  Finds(on, s, i, has)
  BY DEF Ready
<1>1. Len(p) \in Nat /\ i \in 1..(Len(p) + 1) /\ DOMAIN p = 1..Len(p)
  BY DEF Stamped
<1>2. CASE i = Len(p) + 1
  <2>1. s[i].op = "stamp"
    BY <1>2 DEF Stamped, Stamp
  <2> QED
    BY <2>1 DEF Finds
<1>3. CASE i # Len(p) + 1
  <2>1. i \in 1..Len(p) /\ \A j \in 1..(i - 1) : j \in 1..Len(p)
    BY <1>1, <1>3
  <2>2. s[i] = p[i] /\ \A j \in 1..(i - 1) : s[j] = p[j]
    BY <2>1 DEF Stamped
  <2>3. Finds(on, p, i, has)
    BY <1>1, <2>1 DEF Ready
  <2> QED
    BY <2>2, <2>3 DEF Finds
<1> QED
  BY <1>2, <1>3

LEMMA StampedFillsFirst ==
  ASSUME NEW s, NEW p, NEW v, Stamped(s, p, v), FillsFirst(p)
  PROVE  FillsFirst(s)
<1> SUFFICES ASSUME NEW i \in DOMAIN s, s[i].op = "add", s[i].what.of \in StateNames
             PROVE  \E j \in 1..(i - 1) : s[j].op = "fill"
  BY DEF FillsFirst
<1>1. Len(p) \in Nat /\ i \in 1..(Len(p) + 1) /\ DOMAIN p = 1..Len(p)
  BY DEF Stamped
<1>2. i # Len(p) + 1
  BY DEF Stamped, Stamp
<1>3. i \in 1..Len(p) /\ \A j \in 1..(i - 1) : j \in 1..Len(p)
  BY <1>1, <1>2
<1>4. s[i] = p[i] /\ \A j \in 1..(i - 1) : s[j] = p[j]
  BY <1>3 DEF Stamped
<1>5. \E j \in 1..(i - 1) : p[j].op = "fill"
  BY <1>1, <1>3, <1>4 DEF FillsFirst
<1> QED
  BY <1>4, <1>5

LEMMA UpPlan ==
  ASSUME NEW r \in 1..5, NEW has, NEW s, s = Up(r, has) \o <<Stamp(r)>>
  PROVE  /\ List(s) /\ s # <<>> /\ Shape(s, TRUE, r) /\ FillsFirst(s) /\ Upgrades(r, has, Up(r, has))
         /\ Added(s) = Added(Up(r, has)) /\ Dropped(s) = {}
         /\ Filled(s) = IF r = 2 THEN Required ELSE {}
<1> DEFINE p == Up(r, has)
<1>1. Upgrades(r, has, p)
  BY Upgrade
<1> HIDE DEF p
<1>2. Part(p, Added(p), IF r = 2 THEN Required ELSE {}) /\ Added(p) \subseteq Made(r) /\ FillsFirst(p)
  BY <1>1 DEF Upgrades
<1>3. Stamped(s, p, r)
  BY <1>2, StampedPlan DEF Part, p
<1>4. FillsFirst(s)
  BY <1>2, <1>3, StampedFillsFirst
<1>5. Shape(s, TRUE, r)
  <2> SUFFICES ASSUME NEW i \in DOMAIN s
               PROVE  /\ i = Len(s) => s[i] = Stamp(r)
                      /\ i # Len(s) => s[i].op \in {"skip", "add", "fill"}
                      /\ s[i].op = "add" => s[i].what \in Made(r)
                      /\ s[i].op = "fill" => r = 2
    BY DEF Shape
  <2>1. CASE i = Len(s)
    BY <1>3, <2>1 DEF Stamped, Stamp
  <2>2. CASE i # Len(s)
    <3>1. i \in DOMAIN p /\ s[i] = p[i]
      BY <1>3, <2>2 DEF Stamped
    <3>2. p[i].op \in {"skip", "add", "fill"}
      BY <1>2, <3>1 DEF Part
    <3>3. p[i].op = "add" => p[i].what \in Added(p)
      BY <3>1, Members
    <3>4. p[i].op = "fill" => p[i].what \in Filled(p)
      BY <3>1, Members
    <3> QED
      BY <1>2, <2>2, <3>1, <3>2, <3>3, <3>4 DEF Part
  <2> QED
    BY <2>1, <2>2
<1> QED
  BY <1>1, <1>2, <1>3, <1>4, <1>5 DEF Stamped, Part, p

LEMMA DownPlan ==
  ASSUME NEW r \in 1..5, NEW has, NEW s, s = Down(r, has) \o <<Stamp(r - 1)>>
  PROVE  /\ List(s) /\ s # <<>> /\ Shape(s, FALSE, r) /\ FillsFirst(s) /\ Downgrades(r, has, Down(r, has))
         /\ Added(s) = {} /\ Filled(s) = {} /\ Dropped(s) = Dropped(Down(r, has))
<1> DEFINE p == Down(r, has)
<1>1. Downgrades(r, has, p)
  BY Downgrade
<1> HIDE DEF p
<1>2. Cut(p, Dropped(p))
  BY <1>1 DEF Downgrades
<1>3. Stamped(s, p, r - 1)
  BY <1>2, StampedPlan DEF Cut, p
<1>4. \A i \in DOMAIN s : /\ i = Len(s) => s[i] = Stamp(r - 1)
                          /\ i # Len(s) => s[i].op = "drop"
                          /\ s[i].op # "add" /\ s[i].op # "fill"
  <2> TAKE i \in DOMAIN s
  <2>1. CASE i = Len(s)
    BY <1>3, <2>1 DEF Stamped, Stamp
  <2>2. CASE i # Len(s)
    <3>1. i \in DOMAIN p /\ s[i] = p[i]
      BY <1>3, <2>2 DEF Stamped
    <3> QED
      BY <1>2, <2>2, <3>1 DEF Cut
  <2> QED
    BY <2>1, <2>2
<1>5. Shape(s, FALSE, r) /\ FillsFirst(s)
  BY <1>4 DEF Shape, FillsFirst
<1> QED
  BY <1>1, <1>2, <1>3, <1>5 DEF Stamped, Cut, p

LEMMA UpShape ==
  ASSUME NEW p, NEW r, Shape(p, TRUE, r)
  PROVE  /\ Builds(p) /\ Dropped(p) = {} /\ Added(p) \subseteq Made(r)
         /\ \A i \in DOMAIN p : p[i].op # "drop" /\ (p[i].op = "fill" => r = 2)
<1>1. \A i \in DOMAIN p : p[i].op \in {"skip", "add", "fill", "stamp"}
  BY DEF Shape, Stamp
<1>2. \A i \in DOMAIN p : /\ p[i].op = "add" => p[i].what \in Made(r)
                          /\ p[i].op = "fill" => r = 2
  BY DEF Shape
<1>3. \A o : o \notin Dropped(p)
  BY <1>1, Members
<1>4. \A o \in Added(p) : o \in Made(r)
  BY <1>2, Members
<1> QED
  BY <1>1, <1>2, <1>3, <1>4 DEF Builds

LEMMA DownShape ==
  ASSUME NEW p, NEW r, Shape(p, FALSE, r)
  PROVE  /\ Removes(p) /\ Added(p) = {} /\ Filled(p) = {}
         /\ \A i \in DOMAIN p : p[i].op \notin {"skip", "add", "fill"}
<1>1. \A i \in DOMAIN p : p[i].op \in {"drop", "stamp"}
  BY DEF Shape, Stamp
<1>2. \A o : o \notin Added(p) /\ o \notin Filled(p)
  BY <1>1, Members
<1> QED
  BY <1>1, <1>2 DEF Removes

\* A plan ends in its stamp, and nowhere else.
LEMMA StampLast ==
  ASSUME NEW p, List(p), p # <<>>, NEW up \in BOOLEAN, NEW r, Shape(p, up, r), Head(p).op = "stamp"
  PROVE  /\ Head(p) = Stamp(IF up THEN r ELSE r - 1)
         /\ Added(p) = {} /\ Filled(p) = {} /\ Dropped(p) = {}
<1>1. IsTail(p, Tail(p))
  BY Tailed
<1>2. Len(p) \in Nat /\ 1 \in DOMAIN p /\ DOMAIN p = 1..Len(p) /\ Head(p) = p[1]
  BY <1>1 DEF IsTail
<1>3. Len(p) = 1
  <2> SUFFICES ASSUME Len(p) # 1
               PROVE  FALSE
    OBVIOUS
  <2>1. p[1].op \in IF up THEN {"skip", "add", "fill"} ELSE {"drop"}
    BY <1>2 DEF Shape
  <2> QED
    BY <1>2, <2>1
<1>4. p[1] = Stamp(IF up THEN r ELSE r - 1)
  BY <1>2, <1>3 DEF Shape
<1>5. \A i \in DOMAIN p : p[i].op = "stamp"
  BY <1>2, <1>3
<1>6. \A o : o \notin Added(p) /\ o \notin Filled(p) /\ o \notin Dropped(p)
  BY <1>5, Members
<1> QED
  BY <1>2, <1>4, <1>6

LEMMA ShapeOfTail ==
  ASSUME NEW p, List(p), p # <<>>, NEW up \in BOOLEAN, NEW r, Shape(p, up, r), Head(p).op # "stamp"
  PROVE  /\ List(Tail(p)) /\ Tail(p) # <<>> /\ Shape(Tail(p), up, r)
         /\ FillsFirst(p) /\ Head(p).op # "fill" => FillsFirst(Tail(p))
<1> DEFINE t == Tail(p)
<1>1. IsTail(p, t)
  BY Tailed
<1> HIDE DEF t
<1>2. /\ Len(t) \in Nat /\ Len(p) = Len(t) + 1 /\ DOMAIN p = 1..Len(p) /\ DOMAIN t = 1..Len(t)
      /\ Head(p) = p[1]
  BY <1>1 DEF IsTail
<1>3. Len(p) # 1
  <2> SUFFICES ASSUME Len(p) = 1
               PROVE  FALSE
    OBVIOUS
  <2>1. p[1] = Stamp(IF up THEN r ELSE r - 1)
    BY <1>2 DEF Shape
  <2> QED
    BY <1>2, <2>1 DEF Stamp
<1>4. t # <<>>
  BY <1>2, <1>3
<1>5. \A i \in DOMAIN t : i + 1 \in DOMAIN p /\ p[i + 1] = t[i] /\ (i = Len(t) <=> i + 1 = Len(p))
  BY <1>1, <1>2 DEF IsTail
<1>6. Shape(t, up, r)
  <2> SUFFICES ASSUME NEW i \in DOMAIN t
               PROVE  /\ i = Len(t) => t[i] = Stamp(IF up THEN r ELSE r - 1)
                      /\ i # Len(t) => t[i].op \in IF up THEN {"skip", "add", "fill"} ELSE {"drop"}
                      /\ t[i].op = "add" => t[i].what \in Made(r)
                      /\ t[i].op = "fill" => r = 2
    BY DEF Shape
  <2>1. /\ i + 1 = Len(p) => p[i + 1] = Stamp(IF up THEN r ELSE r - 1)
        /\ i + 1 # Len(p) => p[i + 1].op \in IF up THEN {"skip", "add", "fill"} ELSE {"drop"}
        /\ p[i + 1].op = "add" => p[i + 1].what \in Made(r)
        /\ p[i + 1].op = "fill" => r = 2
    BY <1>5 DEF Shape
  <2>2. p[i + 1] = t[i] /\ (i = Len(t) <=> i + 1 = Len(p))
    BY <1>5
  <2> QED
    BY <2>1, <2>2
<1>7. ASSUME FillsFirst(p), Head(p).op # "fill"
      PROVE  FillsFirst(t)
  <2> SUFFICES ASSUME NEW i \in DOMAIN t, t[i].op = "add", t[i].what.of \in StateNames
               PROVE  \E j \in 1..(i - 1) : t[j].op = "fill"
    BY DEF FillsFirst
  <2>1. Behind(p, t, i)
    BY <1>1, Behinds
  <2>2. \E h \in 1..((i + 1) - 1) : p[h].op = "fill"
    BY <1>7, <2>1 DEF FillsFirst, Behind
  <2> QED
    BY <1>7, <2>1, <2>2 DEF Behind
<1>8. List(t)
  BY <1>1 DEF IsTail
<1> QED
  BY <1>4, <1>6, <1>7, <1>8 DEF t

-----------------------------------------------------------------------------
(***************************************************************************)
(* What a plan leaves of a schema.                                         *)
(***************************************************************************)
Result(has, p) == {o \in has \cup Added(p) : \A d \in Dropped(p) : ~Belongs(o, d)}

LEMMA ResultOfTail ==
  ASSUME NEW p, List(p), p # <<>>, NEW up \in BOOLEAN, NEW r, Shape(p, up, r), NEW has
  PROVE  Result(After(Head(p), has), Tail(p)) = Result(has, p)
<1> DEFINE t == Tail(p)
           h == Head(p)
<1>1. /\ Added(p) = Added(t) \cup (IF h.op = "add" THEN {h.what} ELSE {})
      /\ Dropped(p) = Dropped(t) \cup (IF h.op = "drop" THEN {h.what} ELSE {})
  BY TailSets
<1> HIDE DEF t, h
<1>2. CASE up
  <2>1. Dropped(p) = {}
    BY <1>2, UpShape
  <2>2. h.op # "drop"
    BY <1>1, <2>1
  <2> QED
    BY <1>1, <2>1, <2>2 DEF Result, After, t, h
<1>3. CASE ~up
  <2>1. Added(p) = {}
    BY <1>3, DownShape
  <2>2. h.op # "add"
    BY <1>1, <2>1
  <2>3. After(h, has) = {o \in has : h.op = "drop" => ~Belongs(o, h.what)}
    BY <2>2 DEF After
  <2>4. Added(t) = {}
    BY <1>1, <2>1
  <2>5. \A o : (\A d \in Dropped(p) : ~Belongs(o, d))
                  <=> ((\A d \in Dropped(t) : ~Belongs(o, d)) /\ (h.op = "drop" => ~Belongs(o, h.what)))
    BY <1>1
  <2> QED
    BY <2>1, <2>3, <2>4, <2>5 DEF Result, t, h
<1> QED
  BY <1>2, <1>3

LEMMA ResultOfNothing ==
  ASSUME NEW has, NEW p, Added(p) = {}, Dropped(p) = {}
  PROVE  Result(has, p) = has
BY DEF Result

\* Columns and indexes keep their table.
LEMMA HousedAfter ==
  ASSUME NEW on, NEW s, NEW has, Housed(has), Accepts(on, s, has),
         s.op = "add" => \E r \in 1..5 : s.what \in Made(r)
  PROVE  Housed(After(s, has))
<1>1. CASE s.op = "add"
  <2>1. Needs(on, s.what) \subseteq has /\ After(s, has) = has \cup {s.what}
    BY <1>1 DEF Accepts, After
  <2>2. CASE IsTable(s.what)
    <3>1. s.what = Table(s.what.of)
      BY <1>1, <2>2, MadeKinds DEF MadeAs
    <3> QED
      BY <2>1, <3>1 DEF Housed
  <2>3. CASE ~IsTable(s.what)
    <3>1. Table(s.what.of) \in has
      BY <2>1, <2>3 DEF Needs
    <3> QED
      BY <2>1, <3>1 DEF Housed
  <2> QED
    BY <2>2, <2>3
<1>2. CASE s.op = "drop"
  <2> DEFINE d == s.what
  <2>1. After(s, has) = {o \in has : ~Belongs(o, d)}
    BY <1>2 DEF After
  <2>2. ASSUME NEW o \in has, ~Belongs(o, d)
        PROVE  ~Belongs(Table(o.of), d)
    <3>1. CASE Table(o.of) = d
      BY <2>2, <3>1, BelongsTo
    <3>2. CASE IsTable(d) /\ Table(o.of).of = d.of
      BY <2>2, <3>2, ObjectFields DEF Belongs
    <3>3. Table(o.of) # Index(d.of, d.name)
      BY ObjectFields
    <3> QED
      BY <3>1, <3>2, <3>3 DEF Belongs
  <2> HIDE DEF d
  <2> QED
    BY <2>1, <2>2 DEF Housed
<1>3. CASE s.op # "add" /\ s.op # "drop"
  BY <1>3 DEF After
<1> QED
  BY <1>1, <1>2, <1>3

-----------------------------------------------------------------------------
(***************************************************************************)
(* A whole script, on a schema that is complete up to its torn indexes.    *)
(***************************************************************************)
LEMMA TableStays ==
  ASSUME NEW r \in 3..5, NEW o \in Made(r), IsIndex(o)
  PROVE  /\ Table(o.of) \in Made(r)
         /\ \A q \in 1..5 : Table(o.of) \in Made(q) => q = r
<1>1. Table(o.of) \in Made(r)
  BY HomeMade
<1> QED
  BY <1>1, MadeOnce

\* An upgrade that passes over an index passes over its table too, which no
\* earlier revision makes.
LEMMA PassedOverTable ==
  ASSUME NEW r \in 2..5, NEW has, NEW o \in Made(r), PassedOver(o, has)
  PROVE  /\ Table(o.of) \in has /\ Table(o.of) \in Made(r)
         /\ r = 2 => \E t \in StateNames : Table(t) \in has
<1>1. MadeAs(r, o) /\ IsIndex(o) /\ o.of # "runs" /\ Table(o.of) \in has
  BY MadeKinds DEF PassedOver
<1>2. o.of \in NewTables(r)
  BY <1>1 DEF MadeAs
<1>3. Table(o.of) \in Made(r)
  BY <1>2, NewTablesMade
<1>4. r = 2 => o.of \in StateNames
  BY <1>2 DEF NewTables
<1> QED
  BY <1>1, <1>3, <1>4

LEMMA UpCompletes ==
  ASSUME NEW r \in 1..5, NEW has, NEW p, NEW marks, Upgrades(r, has, p), Complete(r - 1, has, marks)
  PROVE  Complete(r, has \cup Added(p), marks)
<1> DEFINE now == has \cup Added(p)
<1>1. /\ Added(p) \subseteq Made(r)
      /\ \A o \in Made(r) : o \in now \/ (r # 1 /\ PassedOver(o, has))
  BY DEF Upgrades
<1>2. has \subseteq now /\ \A o \in now : o \in has \/ o \in Made(r)
  BY <1>1
<1>3. \A o \in Made(r) : o \notin now => o \notin Added(p)
  OBVIOUS
<1> HIDE DEF now
<1>4. ASSUME NEW q \in 1..r, NEW o \in Made(q)
      PROVE  o \in now \/ (IsIndex(o) /\ q >= 3)
  <2>1. CASE q # r
    <3>1. q \in 1..(r - 1)
      BY <2>1
    <3>2. o \in has \/ (IsIndex(o) /\ q >= 3)
      BY <3>1 DEF Complete
    <3> QED
      BY <1>2, <3>2
  <2>2. CASE q = r
    <3> SUFFICES ASSUME o \notin now
                 PROVE  IsIndex(o) /\ q >= 3
      OBVIOUS
    <3>1. r # 1 /\ PassedOver(o, has)
      BY <1>1, <2>2
    <3>2. r # 2
      <4> SUFFICES ASSUME r = 2
                   PROVE  FALSE
        OBVIOUS
      <4>1. \E t \in StateNames : Table(t) \in has
        BY <2>2, <3>1, PassedOverTable
      <4>2. \A t \in StateNames : Table(t) \notin has
        BY DEF Complete
      <4> QED
        BY <4>1, <4>2
    <3> QED
      BY <2>2, <3>1, <3>2 DEF PassedOver
  <2> QED
    BY <2>1, <2>2
<1>5. ASSUME NEW q \in 3..5, NEW o \in Made(q), IsIndex(o), Table(o.of) \in now, o \notin now
      PROVE  <<"up", q>> \in marks
  <2>1. CASE Table(o.of) \in has
    <3>1. o \notin has
      BY <1>2, <1>5
    <3> QED
      BY <1>5, <2>1, <3>1 DEF Complete, HeadRevision
  <2>2. CASE Table(o.of) \notin has
    <3>1. Table(o.of) \in Made(r)
      BY <1>2, <1>5, <2>2
    <3>2. q = r
      BY <1>5, <3>1, TableStays
    <3>3. PassedOver(o, has)
      BY <1>1, <1>5, <3>2
    <3> QED
      BY <2>2, <3>3 DEF PassedOver
  <2> QED
    BY <2>1, <2>2
<1>6. ASSUME r < 2, NEW t \in StateNames
      PROVE  Table(t) \notin now
  <2>1. Table(t) \notin has
    BY <1>6 DEF Complete
  <2>2. Table(t) \in Made(2) /\ r = 1
    BY <1>6, MadeTables
  <2>3. Table(t) \notin Made(r)
    BY <2>2, MadeOnce
  <2> QED
    BY <1>2, <2>1, <2>3
<1> QED
  BY <1>4, <1>5, <1>6 DEF Complete, HeadRevision, now

LEMMA UpMakesSchema ==
  ASSUME NEW r \in 1..5, NEW p, Upgrades(r, SchemaAt(r - 1), p)
  PROVE  SchemaAt(r - 1) \cup Added(p) = SchemaAt(r)
<1> DEFINE has == SchemaAt(r - 1)
<1>1. \A o \in has : \E q \in 1..(r - 1) : o \in Made(q)
  BY InSchema
<1>2. \A o : o \in SchemaAt(r) <=> o \in has \/ o \in Made(r)
  <2>1. \A q : q \in 1..r <=> q \in 1..(r - 1) \/ q = r
    OBVIOUS
  <2> QED
    BY <2>1, InSchema
<1> HIDE DEF has
<1>3. /\ Added(p) \subseteq Made(r)
      /\ \A o \in Made(r) : o \in has \/ o \in Added(p) \/ (r # 1 /\ PassedOver(o, has))
  BY DEF Upgrades, has
<1>4. ASSUME NEW o \in Made(r), r # 1, PassedOver(o, has)
      PROVE  FALSE
  <2>1. Table(o.of) \in has /\ Table(o.of) \in Made(r)
    BY <1>4, PassedOverTable
  <2>2. \E q \in 1..(r - 1) : Table(o.of) \in Made(q)
    BY <1>1, <2>1
  <2> QED
    BY <2>1, <2>2, MadeOnce
<1> QED
  BY <1>2, <1>3, <1>4 DEF has

LEMMA DownCompletes ==
  ASSUME NEW r \in 1..5, NEW has, NEW p, NEW marks, Downgrades(r, has, p), Complete(r, has, marks)
  PROVE  Complete(r - 1, Left(has, p), marks)
<1> DEFINE now == Left(has, p)
<1>1. \A o : o \in now <=> (o \in has /\ ~\E d \in Dropped(p) : Belongs(o, d))
  BY DEF Left
<1> HIDE DEF now
<1>2. ASSUME NEW q \in 1..(r - 1), NEW o \in Made(q)
      PROVE  o \in now \/ (IsIndex(o) /\ q >= 3)
  <2>1. q \in 1..5 /\ q \in 1..r /\ q < r
    OBVIOUS
  <2>2. \A d \in Dropped(p) : ~Belongs(o, d)
    BY <2>1 DEF Downgrades
  <2>3. o \in has \/ (IsIndex(o) /\ q >= 3)
    BY <2>1 DEF Complete
  <2> QED
    BY <1>1, <2>2, <2>3
<1>3. ASSUME NEW q \in 3..5, NEW o \in Made(q), IsIndex(o), Table(o.of) \in now, o \notin now
      PROVE  <<"up", q>> \in marks
  <2>1. Table(o.of) \in has /\ ~\E d \in Dropped(p) : Belongs(Table(o.of), d)
    BY <1>1, <1>3
  <2>2. ~\E d \in Dropped(p) : Belongs(o, d)
    BY <1>3, <2>1 DEF Downgrades
  <2>3. o \notin has
    BY <1>1, <1>3, <2>2
  <2> QED
    BY <1>3, <2>1, <2>3 DEF Complete, HeadRevision
<1>4. ASSUME r - 1 < 2, NEW t \in StateNames
      PROVE  Table(t) \notin now
  <2>1. CASE r = 1
    <3>1. Table(t) \notin has
      BY <1>4, <2>1 DEF Complete
    <3> QED
      BY <1>1, <3>1
  <2>2. CASE r = 2
    <3>1. Table(t) \in Dropped(p) /\ Belongs(Table(t), Table(t))
      BY <2>2 DEF Downgrades, Belongs
    <3> QED
      BY <1>1, <3>1
  <2> QED
    BY <1>4, <2>1, <2>2
<1> QED
  BY <1>2, <1>3, <1>4 DEF Complete, HeadRevision, now

LEMMA DownMakesSchema ==
  ASSUME NEW r \in 1..5, NEW p, Downgrades(r, SchemaAt(r), p)
  PROVE  Left(SchemaAt(r), p) = SchemaAt(r - 1)
<1> DEFINE has == SchemaAt(r)
<1>1. \A o : o \in has <=> o \in SchemaAt(r - 1) \/ o \in Made(r)
  <2>1. \A q : q \in 1..r <=> q \in 1..(r - 1) \/ q = r
    OBVIOUS
  <2> QED
    BY <2>1, InSchema
<1>2. r = 5 => Table("outbox_events") \in has
  BY <1>1, MadeTables
<1> HIDE DEF has
<1>3. \A o \in Made(r) : \E d \in Dropped(p) : Belongs(o, d)
  BY <1>2 DEF Downgrades, has
<1>4. \A o \in SchemaAt(r - 1) : \A d \in Dropped(p) : ~Belongs(o, d)
  <2> TAKE o \in SchemaAt(r - 1)
  <2>1. PICK q \in 1..(r - 1) : o \in Made(q)
    BY InSchema
  <2>2. q \in 1..5 /\ q < r
    OBVIOUS
  <2> QED
    BY <2>1, <2>2 DEF Downgrades
<1> QED
  BY <1>1, <1>3, <1>4 DEF Left, has

LEMMA IntactMore ==
  ASSUME NEW v, NEW objects, NEW marks, NEW more, marks \subseteq more, Intact(v, objects, marks)
  PROVE  Intact(v, objects, more)
<1>1. OnlyUps(more) => OnlyUps(marks)
  BY DEF OnlyUps
<1>2. Complete(v, objects, marks) => Complete(v, objects, more)
  BY DEF Complete
<1>3. more = {} => marks = {}
  OBVIOUS
<1> QED
  BY <1>1, <1>2, <1>3 DEF Intact

LEMMA IntactUp ==
  ASSUME NEW r \in 1..5, NEW has, NEW p, NEW marks, Upgrades(r, has, p), Intact(r - 1, has, marks)
  PROVE  Intact(r, has \cup Added(p), marks)
BY UpCompletes, UpMakesSchema DEF Intact

LEMMA IntactDown ==
  ASSUME NEW r \in 1..5, NEW has, NEW p, NEW marks, Downgrades(r, has, p), Intact(r, has, marks)
  PROVE  Intact(r - 1, Left(has, p), marks)
BY DownCompletes, DownMakesSchema DEF Intact

\* One statement of an upgrade that has taken effect at once.
LEMMA AddCompletes ==
  ASSUME NEW r \in 1..5, NEW has, NEW o \in Made(r), NEW marks, <<"up", r>> \in marks,
         r = 2 => ~\E t \in StateNames : o = Table(t),
         Complete(r - 1, has, marks)
  PROVE  Complete(r - 1, has \cup {o}, marks)
<1>1. \A q \in 1..(r - 1) : \A x \in Made(q) : x \in has \cup {o} \/ (IsIndex(x) /\ q >= 3)
  BY DEF Complete
<1>2. ASSUME NEW q \in 3..5, NEW x \in Made(q), IsIndex(x),
             Table(x.of) \in has \cup {o}, x \notin has \cup {o}
      PROVE  <<"up", q>> \in marks
  <2>1. CASE Table(x.of) \in has
    BY <1>2, <2>1 DEF Complete, HeadRevision
  <2>2. CASE Table(x.of) = o
    BY <1>2, <2>2, TableStays
  <2> QED
    BY <1>2, <2>1, <2>2
<1>3. ASSUME r - 1 < 2, NEW t \in StateNames
      PROVE  Table(t) \notin has \cup {o}
  <2>1. Table(t) \notin has
    BY <1>3 DEF Complete
  <2>2. r = 1 => Table(t) # o
    BY MadeTables, MadeOnce
  <2>3. r = 1 \/ r = 2
    BY <1>3
  <2> QED
    BY <2>1, <2>2, <2>3
<1> QED
  BY <1>1, <1>2, <1>3 DEF Complete, HeadRevision

-----------------------------------------------------------------------------
(***************************************************************************)
(* What a statement does to the schema.                                    *)
(***************************************************************************)
Fields(d) == d = [objects |-> d.objects, version |-> d.version, rows |-> d.rows, blank |-> d.blank]

LEMMA EffectFields ==
  ASSUME NEW s, NEW d, Fields(d)
  PROVE  /\ Fields(Effect(s, d))
         /\ Effect(s, d).objects = After(s, d.objects)
         /\ Effect(s, d).version = IF s.op = "stamp" THEN s.what ELSE d.version
         /\ s.op # "add" => Effect(s, d).blank \subseteq d.blank
         /\ s.op = "add" => Effect(s, d).blank \subseteq d.blank \cup {s.what}
         /\ s.op = "fill" => Effect(s, d).blank = d.blank \ {s.what}
<1> DEFINE e == Effect(s, d)
<1>1. CASE s.op = "add"
  <2>1. e = [d EXCEPT !.objects = @ \cup {s.what},
                      !.blank = IF IsColumn(s.what) /\ d.rows THEN @ \cup {s.what} ELSE @]
    BY <1>1 DEF Effect
  <2>2. e = [objects |-> d.objects \cup {s.what}, version |-> d.version, rows |-> d.rows,
             blank |-> IF IsColumn(s.what) /\ d.rows THEN d.blank \cup {s.what} ELSE d.blank]
    BY <2>1 DEF Fields
  <2> QED
    BY <1>1, <2>2 DEF Fields, After
<1>2. CASE s.op = "drop"
  <2>1. e = [d EXCEPT !.objects = {p \in @ : ~Belongs(p, s.what)},
                      !.blank = {p \in @ : ~Belongs(p, s.what)},
                      !.rows = @ /\ s.what # Table("runs")]
    BY <1>2 DEF Effect
  <2>2. e = [objects |-> {p \in d.objects : ~Belongs(p, s.what)}, version |-> d.version,
             rows |-> (d.rows /\ s.what # Table("runs")),
             blank |-> {p \in d.blank : ~Belongs(p, s.what)}]
    BY <2>1 DEF Fields
  <2> QED
    BY <1>2, <2>2 DEF Fields, After
<1>3. CASE s.op = "fill"
  <2>1. e = [d EXCEPT !.blank = @ \ {s.what}]
    BY <1>3 DEF Effect
  <2>2. e = [objects |-> d.objects, version |-> d.version, rows |-> d.rows, blank |-> d.blank \ {s.what}]
    BY <2>1 DEF Fields
  <2> QED
    BY <1>3, <2>2 DEF Fields, After
<1>4. CASE s.op = "stamp"
  <2>1. e = [d EXCEPT !.version = s.what]
    BY <1>4 DEF Effect
  <2>2. e = [objects |-> d.objects, version |-> s.what, rows |-> d.rows, blank |-> d.blank]
    BY <2>1 DEF Fields
  <2> QED
    BY <1>4, <2>2 DEF Fields, After
<1>5. CASE s.op \notin {"add", "drop", "fill", "stamp"}
  BY <1>5 DEF Effect, Fields, After
<1> QED
  BY <1>1, <1>2, <1>3, <1>4, <1>5

-----------------------------------------------------------------------------
(***************************************************************************)
(* The actions.                                                            *)
(***************************************************************************)
LEMMA InitIInv == Init => IInv
<1> SUFFICES ASSUME Init
             PROVE  IInv
  OBVIOUS
<1>1. /\ server \in Servers /\ disk = Empty /\ work = Empty /\ goal = Idle /\ plan = <<>>
      /\ open = FALSE /\ torn = {} /\ refused = {}
  BY DEF Init
<1>2. /\ disk.objects = {} /\ disk.version = 0 /\ disk.blank = {} /\ Fields(disk) /\ Fields(work)
      /\ work.objects = {} /\ work.version = 0 /\ work.blank = {}
  BY <1>1 DEF Empty, Fields
<1>3. List(<<>>) /\ Added(<<>>) = {} /\ Dropped(<<>>) = {} /\ Filled(<<>>) = {}
  BY NothingPart DEF Part
<1>4. TypeOK
  BY <1>1, <1>2, <1>3 DEF TypeOK, Fields, List, HeadRevision, Idle
<1>5. CommitInv
  BY <1>1, <1>2 DEF CommitInv, Idle, Empty
<1>6. PlanInv /\ ReadyInv /\ RefusedInv
  BY <1>1 DEF PlanInv, ReadyInv, RefusedInv
<1>7. Target = 0 /\ Marks = {} /\ Outcome = {}
  BY <1>1, <1>2, <1>3 DEF Target, Marks, Outcome
<1>8. Intact(0, {}, {})
  <2>1. \A o : o \notin SchemaAt(0)
    BY InSchema
  <2>2. Complete(0, {}, {})
    BY DEF Complete
  <2> QED
    BY <2>1, <2>2 DEF Intact
<1>9. SchemaInv
  BY <1>1, <1>2, <1>7, <1>8 DEF SchemaInv, Housed
<1>10. BlankInv
  BY <1>1, <1>2, <1>7 DEF BlankInv
<1> QED
  BY <1>4, <1>5, <1>6, <1>9, <1>10 DEF IInv

\* What holds in the middle of a command.
LEMMA Running ==
  ASSUME IInv, goal # Idle
  PROVE  /\ goal \in 0..5 /\ work.version \in 0..5 /\ Script[2] \in 1..5
         /\ Upgrading => Script = <<"up", work.version + 1>> /\ Script[2] = work.version + 1
         /\ ~Upgrading => Script = <<"down", work.version>> /\ Script[2] = work.version
         /\ Script \in Scripts /\ Script[1] \in {"up", "down"} /\ (Script[1] = "up" <=> Upgrading)
<1>1. goal \in 0..5 /\ work.version \in 0..5 /\ goal # work.version
  BY DEF IInv, TypeOK, CommitInv, HeadRevision
<1>2. CASE goal > work.version
  BY <1>1, <1>2 DEF Upgrading, Script, Scripts, HeadRevision
<1>3. CASE ~(goal > work.version)
  BY <1>1, <1>3 DEF Upgrading, Script, Scripts, HeadRevision
<1> QED
  BY <1>1, <1>2, <1>3 DEF Upgrading

LEMMA MidScript ==
  ASSUME IInv, plan # <<>>
  PROVE  /\ goal # Idle /\ List(plan) /\ Shape(plan, Upgrading, Script[2]) /\ (open \/ FillsFirst(plan))
         /\ Upgrading \in BOOLEAN
         /\ Target = IF Upgrading THEN Script[2] ELSE Script[2] - 1
         /\ Upgrading => /\ Builds(plan) /\ Dropped(plan) = {} /\ Added(plan) \subseteq Made(Script[2])
                         /\ Head(plan).op # "drop" /\ (Head(plan).op = "fill" => Script[2] = 2)
         /\ ~Upgrading => /\ Removes(plan) /\ Added(plan) = {} /\ Filled(plan) = {}
                          /\ Head(plan).op \notin {"skip", "add", "fill"}
<1>1. goal # Idle /\ List(plan)
  BY DEF IInv, CommitInv, TypeOK, List
<1>2. Shape(plan, Upgrading, Script[2]) /\ (open \/ FillsFirst(plan))
  BY DEF IInv, PlanInv
<1>3. Upgrading \in BOOLEAN
  BY DEF Upgrading
<1>4. Target = IF Upgrading THEN Script[2] ELSE Script[2] - 1
  BY <1>1, Running DEF Target
<1>5. 1 \in DOMAIN plan /\ Head(plan) = plan[1]
  <2>1. IsTail(plan, Tail(plan))
    BY <1>1, Tailed
  <2> QED
    BY <2>1 DEF IsTail
<1>6. ASSUME Upgrading
      PROVE  /\ Builds(plan) /\ Dropped(plan) = {} /\ Added(plan) \subseteq Made(Script[2])
             /\ Head(plan).op # "drop" /\ (Head(plan).op = "fill" => Script[2] = 2)
  <2>1. Shape(plan, TRUE, Script[2])
    BY <1>2, <1>6 DEF Shape
  <2> QED
    BY <1>5, <2>1, UpShape
<1>7. ASSUME ~Upgrading
      PROVE  /\ Removes(plan) /\ Added(plan) = {} /\ Filled(plan) = {}
             /\ Head(plan).op \notin {"skip", "add", "fill"}
  <2>1. Shape(plan, FALSE, Script[2])
    BY <1>2, <1>7 DEF Shape
  <2> QED
    BY <1>5, <2>1, DownShape
<1> QED
  BY <1>1, <1>2, <1>3, <1>4, <1>6, <1>7

\* A statement before the stamp moves the schema along the plan: where the
\* script leads, and what it will leave there, does not change.
LEMMA Statement ==
  ASSUME IInv, Run, Head(plan).op # "stamp", plan' = Tail(plan), UNCHANGED <<server, goal, torn>>
  PROVE  /\ Fields(work') /\ work'.version = work.version
         /\ work'.objects = After(Head(plan), work.objects)
         /\ Script' = Script /\ Upgrading' = Upgrading
         /\ plan' # <<>> /\ List(plan') /\ Shape(plan', Upgrading, Script[2])
         /\ FillsFirst(plan) /\ Head(plan).op # "fill" => FillsFirst(plan')
         /\ ReadyInv' /\ Housed(work.objects)'
         /\ Target' = Target /\ Outcome' = Outcome /\ Marks' = Marks
<1> DEFINE r == Script[2]
           h == Head(plan)
<1>1. plan # <<>> /\ Accepts(server, h, work.objects) /\ work' = Effect(h, work)
  BY DEF Run
<1>2. Fields(work)
  BY DEF IInv, TypeOK, Fields
<1>3. Fields(work') /\ work'.version = work.version /\ work'.objects = After(h, work.objects)
  BY <1>1, <1>2, EffectFields
<1>4. Script' = Script /\ Upgrading' = Upgrading
  BY <1>3 DEF Script, Upgrading
<1>5. /\ goal # Idle /\ List(plan) /\ Shape(plan, Upgrading, r) /\ Upgrading \in BOOLEAN
      /\ Upgrading => Builds(plan) /\ Added(plan) \subseteq Made(r) /\ h.op # "drop"
      /\ ~Upgrading => Removes(plan) /\ h.op \notin {"skip", "add", "fill"}
  BY <1>1, MidScript
<1>6. r \in 1..5
  BY <1>5, Running
<1> HIDE DEF r, h
<1>7. /\ List(plan') /\ plan' # <<>> /\ Shape(plan', Upgrading, r)
      /\ FillsFirst(plan) /\ h.op # "fill" => FillsFirst(plan')
  BY <1>1, <1>5, ShapeOfTail DEF h
<1>8. ReadyInv'
  <2> SUFFICES ASSUME torn = {} \/ (OnlyUps(torn) /\ Upgrading /\ work.version >= 1)
               PROVE  Ready(server, plan', work'.objects)
    BY <1>3, <1>4 DEF ReadyInv
  <2>1. Ready(server, plan, work.objects)
    BY <1>1 DEF IInv, ReadyInv
  <2>2. Builds(plan) \/ Removes(plan)
    BY <1>5
  <2> QED
    BY <1>1, <1>3, <1>5, <2>1, <2>2, RestReady DEF h
<1>9. Housed(work.objects)'
  <2>1. Housed(work.objects)
    BY DEF IInv, SchemaInv
  <2>2. h.op = "add" => h.what \in Added(plan)
    BY <1>1, <1>5, TailSets DEF h
  <2>3. h.op = "add" => h.what \in Made(r)
    BY <1>5, <2>2
  <2>4. Housed(After(h, work.objects))
    BY <1>1, <1>6, <2>1, <2>3, HousedAfter
  <2> QED
    BY <1>3, <2>4
<1>10. Target' = Target
  BY <1>1, <1>3, <1>4, <1>7 DEF Target
<1>11. Marks' = Marks
  BY <1>1, <1>4, <1>7 DEF Marks
<1>12. Outcome' = Outcome
  <2>1. Result(After(h, work.objects), plan') = Result(work.objects, plan)
    BY <1>1, <1>5, ResultOfTail DEF h
  <2> QED
    BY <1>3, <2>1 DEF Outcome, Result
<1> QED
  BY <1>3, <1>4, <1>7, <1>8, <1>9, <1>10, <1>11, <1>12 DEF r, h

\* The columns that the models declare as required came with 0002.
LEMMA RequiredMade == Required \subseteq Made(2)
BY MadeSets, ContractNames DEF Required, RunColumns, Lists

LEMMA ChangeSchemaStep ==
  ASSUME IInv, ChangeSchema
  PROVE  IInv'
<1> DEFINE r == Script[2]
           h == Head(plan)
<1>1. /\ Run /\ h.op \in {"skip", "add", "drop"} /\ plan' = Tail(plan)
      /\ disk' = IF open THEN disk ELSE work'
      /\ UNCHANGED <<server, goal, open, torn, refused>>
  BY DEF ChangeSchema
<1>2. plan # <<>> /\ Accepts(server, h, work.objects) /\ work' = Effect(h, work)
  BY <1>1 DEF Run
<1>3. /\ Fields(work') /\ work'.version = work.version
      /\ work'.objects = After(h, work.objects)
      /\ Script' = Script /\ Upgrading' = Upgrading
      /\ plan' # <<>> /\ List(plan') /\ Shape(plan', Upgrading, r)
      /\ FillsFirst(plan) => FillsFirst(plan')
      /\ ReadyInv' /\ Housed(work.objects)'
      /\ Target' = Target /\ Outcome' = Outcome /\ Marks' = Marks
  BY <1>1, Statement
<1>4. /\ goal # Idle /\ List(plan) /\ (open \/ FillsFirst(plan))
      /\ Target = IF Upgrading THEN r ELSE r - 1
      /\ Upgrading => Added(plan) \subseteq Made(r)
      /\ ~Upgrading => Filled(plan) = {} /\ h.op \notin {"skip", "add", "fill"}
  BY <1>2, MidScript
<1>5. /\ r \in 1..5 /\ (Upgrading => r = work.version + 1 /\ Script = <<"up", r>>)
      /\ (~Upgrading => Script[1] = "down")
      /\ Script[1] \in {"up", "down"} /\ (Script[1] = "up" <=> Upgrading)
  BY <1>4, Running
<1>6. TypeOK /\ CommitInv /\ SchemaInv /\ BlankInv /\ RefusedInv
  BY DEF IInv
<1> HIDE DEF r, h
<1>7. ASSUME ~open
      PROVE  /\ disk' = work' /\ disk = work /\ server = "sqlite"
             /\ Marks = torn \cup {Script}
  <2>1. server = "sqlite"
    BY <1>4, <1>6, <1>7, MigrationAssumption DEF CommitInv, TypeOK
  <2> QED
    BY <1>1, <1>2, <1>6, <1>7, <2>1 DEF CommitInv, Marks
<1>8. TypeOK'
  <2>1. Fields(disk')
    BY <1>1, <1>3, <1>6 DEF TypeOK, Fields
  <2>2. disk'.version \in 0..HeadRevision /\ work'.version \in 0..HeadRevision
    BY <1>1, <1>3, <1>6 DEF TypeOK
  <2> QED
    BY <1>1, <1>3, <1>6, <2>1, <2>2 DEF TypeOK, Fields, List
<1>9. CommitInv'
  BY <1>1, <1>3, <1>4, <1>6 DEF CommitInv
<1>10. PlanInv'
  BY <1>1, <1>3, <1>4 DEF PlanInv, r
<1>11. SchemaInv'
  <2>1. Intact(Target, Outcome, torn)'
    BY <1>1, <1>3, <1>6 DEF SchemaInv
  <2>2. CASE open
    BY <1>1, <1>3, <1>6, <2>1, <2>2 DEF SchemaInv
  <2>3. CASE ~open
    <3>1. Intact(work.version, work.objects, Marks)
      BY <1>6, <1>7, <2>3 DEF SchemaInv
    <3>2. ASSUME OnlyUps(Marks)
          PROVE  Complete(work.version, After(h, work.objects), Marks)
      <4>1. Upgrading /\ Script = <<"up", r>> /\ Script \in Marks
        BY <1>5, <1>7, <2>3, <3>2 DEF OnlyUps
      <4>2. Complete(r - 1, work.objects, Marks) /\ r - 1 = work.version
        BY <1>5, <1>6, <3>1, <3>2, <4>1 DEF Intact, TypeOK, HeadRevision
      <4>3. CASE h.op = "add"
        <5>1. h.what \in Made(r)
          BY <1>2, <1>4, <4>1, <4>3, TailSets DEF h
        <5>2. ASSUME NEW t \in StateNames, h.what = Table(t)
              PROVE  FALSE
          <6>1. FillsFirst(plan) /\ IsTail(plan, Tail(plan))
            BY <1>2, <1>4, <2>3, Tailed
          <6>2. 1 \in DOMAIN plan /\ h = plan[1]
            BY <6>1 DEF IsTail, h
          <6>3. h.what.of \in StateNames
            BY <5>2, ObjectFields
          <6>4. 1..(1 - 1) = {}
            OBVIOUS
          <6> QED
            BY <4>3, <6>1, <6>2, <6>3, <6>4 DEF FillsFirst
        <5>3. Complete(r - 1, work.objects \cup {h.what}, Marks)
          BY <1>5, <4>1, <4>2, <5>1, <5>2, AddCompletes
        <5> QED
          BY <4>2, <4>3, <5>3 DEF After
      <4>4. CASE h.op = "skip"
        BY <4>2, <4>4 DEF After
      <4>5. h.op # "drop"
        BY <1>2, <4>1, MidScript DEF h
      <4> QED
        BY <1>1, <4>3, <4>4, <4>5 DEF h
    <3>3. Marks # {}
      BY <1>7, <2>3
    <3>4. Intact(work.version, After(h, work.objects), Marks)
      BY <3>2, <3>3 DEF Intact
    <3>5. Intact(disk.version, disk.objects, Marks)'
      BY <1>3, <1>7, <2>3, <3>4
    <3> QED
      BY <1>3, <1>7, <2>1, <2>3, <3>5 DEF SchemaInv
  <2> QED
    BY <2>2, <2>3
<1>12. BlankInv'
  <2>1. Fields(work)
    BY <1>6 DEF TypeOK, Fields
  <2>2. /\ h.op = "add" => work'.blank \subseteq work.blank \cup {h.what}
        /\ h.op # "add" => work'.blank \subseteq work.blank
    BY <1>2, <2>1, EffectFields
  <2>3. /\ Added(plan') \subseteq Added(plan) /\ (h.op = "add" => h.what \in Added(plan))
        /\ Filled(plan') = Filled(plan)
    BY <1>1, <1>2, <1>4, TailSets DEF h
  <2>4. ASSUME OnlyUps(torn), Target >= 2, NEW c \in Required
        PROVE  c \in Filled(plan') \/ (c \notin work'.blank /\ c \notin Added(plan'))
    <3>1. c \in Filled(plan) \/ (c \notin work.blank /\ c \notin Added(plan))
      BY <1>6, <2>4 DEF BlankInv
    <3> QED
      BY <2>2, <2>3, <3>1
  <2>5. ASSUME OnlyUps(Marks), disk'.version >= 2
        PROVE  disk'.blank \cap Required = {}
    <3>1. CASE open
      BY <1>1, <1>6, <2>5, <3>1 DEF BlankInv
    <3>2. CASE ~open
      <4>1. Upgrading /\ r = work.version + 1 /\ disk'.version = work.version
        BY <1>3, <1>5, <1>7, <2>5, <3>2 DEF OnlyUps
      <4>2. work.blank \cap Required = {} /\ work.version >= 2
        BY <1>6, <1>7, <2>5, <3>2, <4>1 DEF BlankInv
      <4>3. r # 2
        BY <1>6, <4>1, <4>2 DEF TypeOK, HeadRevision
      <4>4. h.op = "add" => h.what \in Made(r)
        BY <1>4, <2>3, <4>1
      <4>5. h.op = "add" => h.what \notin Required
        BY <1>5, <4>3, <4>4, RequiredMade, MadeOnce
      <4> QED
        BY <1>7, <2>2, <3>2, <4>2, <4>5
    <3> QED
      BY <3>1, <3>2
  <2> QED
    BY <1>1, <1>3, <2>4, <2>5 DEF BlankInv
<1>13. RefusedInv'
  BY <1>1, <1>6 DEF RefusedInv
<1> QED
  BY <1>3, <1>8, <1>9, <1>10, <1>11, <1>12, <1>13 DEF IInv

LEMMA FillColumnStep ==
  ASSUME IInv, FillColumn
  PROVE  IInv'
<1> DEFINE r == Script[2]
           h == Head(plan)
<1>1. /\ Run /\ h.op = "fill" /\ plan' = Tail(plan) /\ open' = TRUE
      /\ UNCHANGED <<server, disk, goal, torn, refused>>
  BY DEF FillColumn
<1>2. plan # <<>> /\ Accepts(server, h, work.objects) /\ work' = Effect(h, work)
  BY <1>1 DEF Run
<1>3. /\ Fields(work') /\ work'.version = work.version
      /\ work'.objects = After(h, work.objects)
      /\ Script' = Script /\ Upgrading' = Upgrading
      /\ plan' # <<>> /\ List(plan') /\ Shape(plan', Upgrading, r)
      /\ ReadyInv' /\ Housed(work.objects)'
      /\ Target' = Target /\ Outcome' = Outcome /\ Marks' = Marks
  BY <1>1, Statement
<1>4. goal # Idle /\ List(plan) /\ Upgrading /\ r = 2
  BY <1>1, <1>2, MidScript
<1>5. work.version = 1
  BY <1>4, Running
<1>6. TypeOK /\ CommitInv /\ SchemaInv /\ BlankInv /\ RefusedInv /\ ReadyInv
  BY DEF IInv
<1> HIDE DEF r, h
<1>7. TypeOK'
  BY <1>1, <1>3, <1>6 DEF TypeOK, Fields, List
<1>8. CommitInv'
  BY <1>1, <1>3, <1>4, <1>5, <1>6 DEF CommitInv
<1>9. PlanInv'
  BY <1>1, <1>3 DEF PlanInv, r
<1>10. SchemaInv'
  BY <1>1, <1>3, <1>6 DEF SchemaInv
<1>11. BlankInv'
  <2>1. Fields(work)
    BY <1>6 DEF TypeOK, Fields
  <2>2. work'.blank = work.blank \ {h.what}
    BY <1>1, <1>2, <2>1, EffectFields
  <2>3. Added(plan') \subseteq Added(plan) /\ Filled(plan) = Filled(plan') \cup {h.what}
    BY <1>1, <1>2, <1>4, TailSets DEF h
  <2>4. ASSUME OnlyUps(torn), NEW c \in Required, Target >= 2
        PROVE  c \in Filled(plan') \/ (c \notin work'.blank /\ c \notin Added(plan'))
    <3>1. c \in Filled(plan) \/ (c \notin work.blank /\ c \notin Added(plan))
      BY <1>6, <2>4 DEF BlankInv
    <3>2. CASE c = h.what
      <4>1. Ready(server, plan, work.objects)
        BY <1>2, <1>4, <1>5, <1>6, <2>4 DEF ReadyInv
      <4>2. c \in work.objects
        BY <1>1, <1>2, <3>2 DEF Accepts
      <4>3. c \notin Added(plan)
        BY <4>1, <4>2, AddsNew
      <4> QED
        BY <2>2, <2>3, <3>2, <4>3
    <3>3. CASE c # h.what
      BY <2>2, <2>3, <3>1, <3>3
    <3> QED
      BY <3>2, <3>3
  <2>5. OnlyUps(Marks) /\ disk.version >= 2 => disk.blank \cap Required = {}
    BY <1>6 DEF BlankInv
  <2> QED
    BY <1>1, <1>3, <2>4, <2>5 DEF BlankInv
<1>12. RefusedInv'
  BY <1>1, <1>6 DEF RefusedInv
<1> QED
  BY <1>3, <1>7, <1>8, <1>9, <1>10, <1>11, <1>12 DEF IInv

LEMMA SetVersionStep ==
  ASSUME IInv, SetVersion
  PROVE  IInv'
<1> DEFINE v == Target
           last == work'.version = goal
<1>1. /\ Run /\ Head(plan).op = "stamp" /\ plan' = <<>>
      /\ goal' = (IF last THEN Idle ELSE goal)
      /\ disk' = (IF last \/ server = "sqlite" THEN work' ELSE disk)
      /\ open' = (server = "postgresql" /\ ~last)
      /\ UNCHANGED <<server, torn, refused>>
  BY DEF SetVersion
<1>2. plan # <<>> /\ work' = Effect(Head(plan), work)
  BY <1>1 DEF Run
<1>3. /\ goal # Idle /\ List(plan) /\ Shape(plan, Upgrading, Script[2])
      /\ Upgrading \in BOOLEAN /\ v = IF Upgrading THEN Script[2] ELSE Script[2] - 1
  BY <1>2, MidScript
<1>4. /\ Head(plan) = Stamp(v) /\ Added(plan) = {} /\ Filled(plan) = {} /\ Dropped(plan) = {}
  BY <1>1, <1>2, <1>3, StampLast
<1>5. v \in 0..5 /\ goal \in 0..5
  BY <1>3, Running
<1>6. TypeOK /\ CommitInv /\ SchemaInv /\ BlankInv /\ RefusedInv
  BY DEF IInv
<1>7. /\ Fields(work') /\ work'.version = v /\ work'.objects = work.objects
      /\ work'.blank \subseteq work.blank
  <2>1. Fields(work)
    BY <1>6 DEF TypeOK, Fields
  <2>2. Head(plan).op = "stamp" /\ Head(plan).what = v
    BY <1>4 DEF Stamp
  <2>3. After(Head(plan), work.objects) = work.objects
    BY <2>2 DEF After
  <2> QED
    BY <1>2, <2>1, <2>2, <2>3, EffectFields
<1>8. List(<<>>) /\ Added(<<>>) = {} /\ Dropped(<<>>) = {} /\ Filled(<<>>) = {}
  BY NothingPart DEF Part
<1>9. Target' = v /\ Marks' = torn
  BY <1>1, <1>7 DEF Target, Marks
<1>10. Outcome = work.objects /\ Outcome' = work.objects
  BY <1>1, <1>4, <1>7, <1>8, ResultOfNothing DEF Outcome, Result
<1> HIDE DEF v
<1>11. TypeOK'
  <2>1. Fields(disk') /\ disk'.version \in 0..HeadRevision
    BY <1>1, <1>5, <1>6, <1>7 DEF TypeOK, Fields, HeadRevision
  <2>2. goal' \in 0..HeadRevision \cup {Idle}
    BY <1>1, <1>5 DEF HeadRevision
  <2>3. plan' \in Seq(ToSet(plan'))
    BY <1>1, <1>8 DEF List
  <2>4. Fields(work') /\ work'.version \in 0..HeadRevision
    BY <1>5, <1>7 DEF HeadRevision
  <2> QED
    BY <1>1, <1>6, <2>1, <2>2, <2>3, <2>4 DEF TypeOK, Fields
<1>12. CommitInv'
  <2>1. server = "postgresql" \/ server = "sqlite"
    BY <1>6, MigrationAssumption DEF TypeOK
  <2>2. CASE last
    <3>1. goal' = Idle /\ disk' = work' /\ plan' = <<>> /\ ~open' /\ server' = server /\ torn' = torn
      BY <1>1, <2>2
    <3>2. goal' # work'.version
      BY <1>5, <1>7, <3>1 DEF Idle
    <3>3. server = "postgresql" => torn = {}
      BY <1>6 DEF CommitInv
    <3> QED
      BY <3>1, <3>2, <3>3 DEF CommitInv
  <2>3. CASE ~last
    BY <1>1, <1>3, <1>6, <1>7, <2>1, <2>3 DEF CommitInv
  <2> QED
    BY <2>2, <2>3
<1>13. PlanInv' /\ ReadyInv' /\ RefusedInv'
  BY <1>1, <1>6 DEF PlanInv, ReadyInv, RefusedInv
<1>14. Intact(v, work.objects, torn) /\ Intact(disk.version, disk.objects, Marks)
       /\ Housed(work.objects) /\ Housed(disk.objects)
  BY <1>6, <1>10 DEF SchemaInv, v
<1>15. OnlyUps(torn) /\ v >= 2 => work.blank \cap Required = {}
  BY <1>4, <1>6 DEF BlankInv, v
<1>16. ASSUME ~last, server # "sqlite"
       PROVE  disk' = disk /\ Marks = torn
  BY <1>1, <1>16 DEF Marks
<1>17. SchemaInv'
  <2>1. Intact(disk.version, disk.objects, Marks)' /\ Housed(disk.objects)'
    <3>1. CASE last \/ server = "sqlite"
      BY <1>1, <1>7, <1>9, <1>14, <3>1
    <3>2. CASE ~last /\ server # "sqlite"
      BY <1>9, <1>14, <1>16, <3>2
    <3> QED
      BY <3>1, <3>2
  <2> QED
    BY <1>1, <1>7, <1>9, <1>10, <1>14, <2>1 DEF SchemaInv
<1>18. BlankInv'
  <2>1. ASSUME OnlyUps(torn), disk'.version >= 2
        PROVE  disk'.blank \cap Required = {}
    <3>1. CASE last \/ server = "sqlite"
      BY <1>1, <1>7, <1>15, <2>1, <3>1
    <3>2. CASE ~last /\ server # "sqlite"
      BY <1>6, <1>16, <2>1, <3>2 DEF BlankInv
    <3> QED
      BY <3>1, <3>2
  <2>2. ASSUME OnlyUps(torn), v >= 2, NEW c \in Required
        PROVE  c \notin work'.blank /\ c \notin Added(plan')
    BY <1>1, <1>7, <1>8, <1>15, <2>2
  <2> QED
    BY <1>1, <1>9, <2>1, <2>2 DEF BlankInv
<1> QED
  BY <1>11, <1>12, <1>13, <1>17, <1>18 DEF IInv

\* A command that ends early leaves what is committed, and on SQLite a
\* script cut short.
LEMMA Abandoned ==
  ASSUME IInv, Abandon, UNCHANGED refused \/ RefusedInv', goal # Idle
  PROVE  IInv'
<1>1. /\ work' = disk /\ goal' = Idle /\ plan' = <<>> /\ open' = FALSE
      /\ torn' = (IF server = "sqlite" THEN torn \cup {Script} ELSE torn)
      /\ UNCHANGED <<server, disk>>
  BY DEF Abandon
<1>2. TypeOK /\ CommitInv /\ SchemaInv /\ BlankInv /\ RefusedInv
  BY DEF IInv
<1>3. Script \in Scripts
  BY Running
<1>4. List(<<>>) /\ Added(<<>>) = {} /\ Dropped(<<>>) = {} /\ Filled(<<>>) = {}
  BY NothingPart DEF Part
<1>5. Marks \subseteq torn'
  BY <1>1 DEF Marks
<1>6. Target' = disk.version /\ Marks' = torn' /\ Outcome' = disk.objects
  <2>1. Outcome' = Result(disk.objects, <<>>)
    BY <1>1 DEF Outcome, Result
  <2> QED
    BY <1>1, <1>4, <2>1, ResultOfNothing DEF Target, Marks
<1>7. TypeOK'
  <2>1. torn' \subseteq Scripts
    BY <1>1, <1>2, <1>3 DEF TypeOK
  <2>2. plan' \in Seq(ToSet(plan'))
    BY <1>1, <1>4 DEF List
  <2> QED
    BY <1>1, <1>2, <2>1, <2>2 DEF TypeOK
<1>8. CommitInv'
  <2>1. goal' # work'.version
    BY <1>1, <1>2 DEF TypeOK, Idle, HeadRevision
  <2>2. server = "postgresql" => torn' = {}
    BY <1>1, <1>2 DEF CommitInv
  <2> QED
    BY <1>1, <2>1, <2>2 DEF CommitInv
<1>9. PlanInv' /\ ReadyInv'
  BY <1>1 DEF PlanInv, ReadyInv
<1>10. Intact(disk.version, disk.objects, torn')
  BY <1>2, <1>5, IntactMore DEF SchemaInv
<1>11. SchemaInv'
  BY <1>1, <1>2, <1>6, <1>10 DEF SchemaInv
<1>12. OnlyUps(torn') => OnlyUps(Marks)
  BY <1>5 DEF OnlyUps
<1>13. BlankInv'
  <2>1. ASSUME OnlyUps(torn'), disk.version >= 2
        PROVE  disk.blank \cap Required = {}
    BY <1>2, <1>12, <2>1 DEF BlankInv
  <2> QED
    BY <1>1, <1>4, <1>6, <2>1 DEF BlankInv
<1>14. RefusedInv'
  BY <1>2 DEF RefusedInv
<1> QED
  BY <1>7, <1>8, <1>9, <1>11, <1>13, <1>14 DEF IInv

LEMMA RefuseStep ==
  ASSUME IInv, Refuse
  PROVE  IInv'
<1>1. /\ plan # <<>> /\ ~Accepts(server, Head(plan), work.objects) /\ Abandon
      /\ refused' = (IF OnlyUps(torn) THEN refused \cup {[script |-> Script, clean |-> torn = {}]}
                     ELSE refused)
  BY DEF Refuse
<1>2. RefusedInv /\ ReadyInv /\ TypeOK
  BY DEF IInv
<1>3. goal # Idle /\ List(plan)
  BY <1>1, MidScript
<1>4. ~Ready(server, plan, work.objects)
  BY <1>1, <1>3, FirstAccepted
<1>5. torn # {} /\ (OnlyUps(torn) /\ Upgrading => work.version = 0)
  BY <1>1, <1>2, <1>4 DEF ReadyInv, TypeOK, HeadRevision
<1>6. OnlyUps(torn) /\ Script[1] = "up" => Script[2] = 1
  BY <1>3, <1>5, Running
<1>7. RefusedInv'
  <2> SUFFICES ASSUME NEW s \in refused'
               PROVE  ~s.clean /\ (s.script[1] = "up" => s.script[2] = 1)
    BY DEF RefusedInv
  <2>1. CASE s \in refused
    BY <1>2, <2>1 DEF RefusedInv
  <2>2. CASE s \notin refused
    <3>1. OnlyUps(torn) /\ s = [script |-> Script, clean |-> torn = {}]
      BY <1>1, <2>2
    <3>2. s.script = Script /\ s.clean = (torn = {})
      BY <3>1
    <3> QED
      BY <1>5, <1>6, <3>1, <3>2
  <2> QED
    BY <2>1, <2>2
<1> QED
  BY <1>1, <1>3, <1>7, Abandoned

LEMMA InterruptStep ==
  ASSUME IInv, Interrupt
  PROVE  IInv'
BY Abandoned DEF Interrupt

LEMMA CommandStep ==
  ASSUME IInv, NEW v \in 0..HeadRevision, Command(v)
  PROVE  IInv'
<1>1. /\ goal = Idle /\ v # disk.version /\ goal' = v /\ open' = (server = "postgresql")
      /\ UNCHANGED <<server, disk, work, plan, torn, refused>>
  BY DEF Command
<1>2. TypeOK /\ CommitInv /\ SchemaInv /\ BlankInv /\ RefusedInv
  BY DEF IInv
<1>3. plan = <<>> /\ disk = work
  BY <1>1, <1>2 DEF CommitInv
<1>4. Target' = Target /\ Marks' = Marks /\ Outcome' = Outcome
  BY <1>1, <1>3 DEF Target, Marks, Outcome
<1>5. TypeOK'
  BY <1>1, <1>2 DEF TypeOK
<1>6. CommitInv'
  <2>1. goal' # work'.version
    BY <1>1, <1>3
  <2>2. goal' # Idle
    BY <1>1 DEF Idle, HeadRevision
  <2>3. (server = "postgresql" => torn = {} /\ open') /\ (server = "sqlite" => ~open')
    BY <1>1, <1>2 DEF CommitInv
  <2> QED
    BY <1>1, <1>3, <2>1, <2>2, <2>3 DEF CommitInv
<1>7. PlanInv' /\ ReadyInv'
  BY <1>1, <1>3 DEF PlanInv, ReadyInv
<1>8. SchemaInv' /\ BlankInv' /\ RefusedInv'
  BY <1>1, <1>2, <1>4 DEF SchemaInv, BlankInv, RefusedInv
<1> QED
  BY <1>5, <1>6, <1>7, <1>8 DEF IInv

\* Before a script starts, the schema is what a whole script left.
LEMMA Entering ==
  ASSUME IInv, Enter
  PROVE  /\ goal # Idle /\ plan = <<>> /\ Script[2] \in 1..5
         /\ Upgrading => /\ plan' = Up(Script[2], work.objects) \o <<Stamp(Script[2])>>
                         /\ Script = <<"up", Script[2]>> /\ work.version = Script[2] - 1
         /\ ~Upgrading => /\ plan' = Down(Script[2], work.objects) \o <<Stamp(Script[2] - 1)>>
                          /\ Script[1] = "down" /\ work.version = Script[2]
         /\ UNCHANGED <<server, disk, work, goal, open, torn, refused>>
         /\ Script' = Script /\ Upgrading' = Upgrading
         /\ Target = work.version /\ Marks = torn /\ Outcome = work.objects
         /\ Housed(work.objects) /\ Intact(work.version, work.objects, torn)
<1>1. /\ goal # Idle /\ plan = <<>>
      /\ plan' = (IF Upgrading THEN Up(Script[2], work.objects) \o <<Stamp(Script[2])>>
                  ELSE Down(Script[2], work.objects) \o <<Stamp(Script[2] - 1)>>)
      /\ UNCHANGED <<server, disk, work, goal, open, torn, refused>>
  BY DEF Enter
<1>2. /\ Script[2] \in 1..5 /\ work.version \in 0..5
      /\ Upgrading => Script = <<"up", work.version + 1>> /\ Script[2] = work.version + 1
      /\ ~Upgrading => Script = <<"down", work.version>> /\ Script[2] = work.version
  BY <1>1, Running
<1>3. Script' = Script /\ Upgrading' = Upgrading
  BY <1>1 DEF Script, Upgrading
<1>4. Added(<<>>) = {} /\ Dropped(<<>>) = {}
  BY NothingPart DEF Part
<1>5. Target = work.version /\ Marks = torn /\ Outcome = work.objects
  BY <1>1, <1>4, ResultOfNothing DEF Target, Marks, Outcome, Result
<1>6. Housed(work.objects) /\ Intact(work.version, work.objects, torn)
  BY <1>5 DEF IInv, SchemaInv
<1> QED
  BY <1>1, <1>2, <1>3, <1>5, <1>6

LEMMA EnterStep ==
  ASSUME IInv, Enter
  PROVE  IInv'
<1> DEFINE r == Script[2]
           has == work.objects
<1>1. /\ goal # Idle /\ plan = <<>> /\ r \in 1..5
      /\ Upgrading => /\ plan' = Up(r, has) \o <<Stamp(r)>>
                      /\ Script = <<"up", r>> /\ work.version = r - 1
      /\ ~Upgrading => /\ plan' = Down(r, has) \o <<Stamp(r - 1)>>
                       /\ Script[1] = "down" /\ work.version = r
      /\ UNCHANGED <<server, disk, work, goal, open, torn, refused>>
      /\ Script' = Script /\ Upgrading' = Upgrading
      /\ Target = work.version /\ Marks = torn /\ Outcome = has
      /\ Housed(has) /\ Intact(work.version, has, torn)
  BY Entering
<1>2. TypeOK /\ CommitInv /\ SchemaInv /\ BlankInv /\ RefusedInv
  BY DEF IInv
<1> HIDE DEF r, has
<1>3. ASSUME Upgrading
      PROVE  /\ List(plan') /\ plan' # <<>> /\ Shape(plan', TRUE, r) /\ FillsFirst(plan')
             /\ Upgrades(r, has, Up(r, has))
             /\ Added(plan') = Added(Up(r, has)) /\ Dropped(plan') = {}
             /\ Filled(plan') = IF r = 2 THEN Required ELSE {}
  BY <1>1, <1>3, UpPlan
<1>4. ASSUME ~Upgrading
      PROVE  /\ List(plan') /\ plan' # <<>> /\ Shape(plan', FALSE, r) /\ FillsFirst(plan')
             /\ Downgrades(r, has, Down(r, has))
             /\ Added(plan') = {} /\ Filled(plan') = {} /\ Dropped(plan') = Dropped(Down(r, has))
  BY <1>1, <1>4, DownPlan
<1>5. List(plan') /\ plan' # <<>> /\ FillsFirst(plan') /\ Shape(plan', Upgrading, r)
  <2>1. CASE Upgrading
    BY <1>3, <2>1 DEF Shape
  <2>2. CASE ~Upgrading
    BY <1>4, <2>2 DEF Shape
  <2> QED
    BY <2>1, <2>2
<1>6. Target' = IF Upgrading THEN r ELSE r - 1
  BY <1>1, <1>5 DEF Target
<1>7. TypeOK'
  BY <1>1, <1>2, <1>5 DEF TypeOK, List
<1>8. CommitInv'
  <2>1. server = "sqlite" => ~open
    BY <1>1, <1>2 DEF CommitInv
  <2> QED
    BY <1>1, <1>2, <2>1 DEF CommitInv
<1>9. PlanInv'
  BY <1>1, <1>5 DEF PlanInv, r
<1>10. ReadyInv'
  <2> SUFFICES ASSUME torn = {} \/ (OnlyUps(torn) /\ Upgrading /\ work.version >= 1)
               PROVE  Ready(server, plan', has)
    BY <1>1 DEF ReadyInv, has
  <2>1. CASE Upgrading
    <3>1. OnlyUps(torn)
      BY DEF OnlyUps
    <3>2. Complete(r - 1, has, torn)
      BY <1>1, <2>1, <3>1 DEF Intact
    <3>3. \A q \in 1..(r - 1) : \A o \in Made(q) : IsTable(o) => o \in has
      BY <3>2, KindsDiffer DEF Complete
    <3>4. r = 1 => has = {}
      <4> SUFFICES ASSUME r = 1
                   PROVE  has = {}
        OBVIOUS
      <4>1. torn = {}
        BY <1>1, <2>1
      <4>2. has = SchemaAt(0)
        BY <1>1, <2>1, <4>1 DEF Intact
      <4>3. \A o : o \notin SchemaAt(0)
        BY InSchema
      <4> QED
        BY <4>2, <4>3
    <3>5. Ready(server, Up(r, has), has)
      BY <1>1, <3>3, <3>4, UpgradeReady
    <3>6. List(Up(r, has))
      BY <1>3, <2>1 DEF Upgrades, Part
    <3>7. Stamped(plan', Up(r, has), r)
      BY <1>1, <2>1, <3>6, StampedPlan
    <3> QED
      BY <3>5, <3>7, StampedReady
  <2>2. CASE ~Upgrading
    <3>1. has = SchemaAt(r)
      BY <1>1, <2>2 DEF Intact
    <3>2. Ready(server, Down(r, has), has)
      BY <1>1, <3>1, DowngradeReady
    <3>3. List(Down(r, has))
      BY <1>4, <2>2 DEF Downgrades, Cut
    <3>4. Stamped(plan', Down(r, has), r - 1)
      BY <1>1, <2>2, <3>3, StampedPlan
    <3> QED
      BY <3>2, <3>4, StampedReady
  <2> QED
    BY <2>1, <2>2
<1>11. Marks \subseteq Marks'
  BY <1>1 DEF Marks
<1>12. Intact(Target, Outcome, torn)'
  <2>1. Outcome' = Result(has, plan')
    BY <1>1 DEF Outcome, Result, has
  <2>2. CASE Upgrading
    <3>1. Result(has, plan') = has \cup Added(Up(r, has))
      BY <1>3, <2>2 DEF Result
    <3>2. Intact(r, has \cup Added(Up(r, has)), torn)
      BY <1>1, <1>3, <2>2, IntactUp
    <3> QED
      BY <1>1, <1>6, <2>1, <2>2, <3>1, <3>2
  <2>3. CASE ~Upgrading
    <3>1. Result(has, plan') = Left(has, Down(r, has))
      BY <1>4, <2>3 DEF Result, Left
    <3>2. Intact(r - 1, Left(has, Down(r, has)), torn)
      BY <1>1, <1>4, <2>3, IntactDown
    <3> QED
      BY <1>1, <1>6, <2>1, <2>3, <3>1, <3>2
  <2> QED
    BY <2>2, <2>3
<1>13. SchemaInv'
  <2>1. Intact(disk.version, disk.objects, Marks')
    BY <1>2, <1>11, IntactMore DEF SchemaInv
  <2> QED
    BY <1>1, <1>2, <1>12, <2>1 DEF SchemaInv
<1>14. BlankInv'
  <2>1. OnlyUps(Marks') => OnlyUps(Marks)
    BY <1>11 DEF OnlyUps
  <2>2. OnlyUps(Marks') /\ disk.version >= 2 => disk.blank \cap Required = {}
    BY <1>2, <2>1 DEF BlankInv
  <2>3. ASSUME OnlyUps(torn), Target' >= 2, NEW c \in Required
        PROVE  c \in Filled(plan') \/ (c \notin work.blank /\ c \notin Added(plan'))
    <3>1. CASE Upgrading /\ r = 2
      BY <1>3, <3>1
    <3>2. CASE Upgrading /\ r # 2
      <4>1. Target >= 2
        BY <1>1, <1>6, <2>3, <3>2
      <4>2. c \notin work.blank
        BY <1>1, <1>2, <2>3, <4>1, NothingPart DEF BlankInv, Part
      <4>3. c \notin Added(plan')
        <5>1. Added(plan') \subseteq Made(r)
          BY <1>3, <3>2 DEF Upgrades
        <5>2. c \notin Made(r)
          BY <1>1, <2>3, <3>2, RequiredMade, MadeOnce
        <5> QED
          BY <5>1, <5>2
      <4> QED
        BY <4>2, <4>3
    <3>3. CASE ~Upgrading
      <4>1. Target >= 2
        BY <1>1, <1>6, <2>3, <3>3
      <4>2. c \notin work.blank
        BY <1>1, <1>2, <2>3, <4>1, NothingPart DEF BlankInv, Part
      <4> QED
        BY <1>4, <3>3, <4>2
    <3> QED
      BY <3>1, <3>2, <3>3
  <2> QED
    BY <1>1, <2>2, <2>3 DEF BlankInv
<1>15. RefusedInv'
  BY <1>1, <1>2 DEF RefusedInv
<1> QED
  BY <1>7, <1>8, <1>9, <1>10, <1>13, <1>14, <1>15 DEF IInv

LEMMA StoreRunStep ==
  ASSUME IInv, StoreRun
  PROVE  IInv'
<1> DEFINE late == {o \in disk.objects : IsColumn(o) /\ Late(o)}
<1>1. /\ goal = Idle /\ disk.version >= 1
      /\ disk' = [disk EXCEPT !.rows = TRUE,
                              !.blank = IF disk.version = 1 THEN @ \cup late ELSE @]
      /\ work' = disk'
      /\ UNCHANGED <<server, goal, plan, open, torn, refused>>
  BY DEF StoreRun
<1> HIDE DEF late
<1>2. TypeOK /\ CommitInv /\ SchemaInv /\ BlankInv /\ RefusedInv
  BY DEF IInv
<1>3. plan = <<>> /\ disk = work
  BY <1>1, <1>2 DEF CommitInv
<1>4. Fields(disk)
  BY <1>2 DEF TypeOK, Fields
<1>5. disk' = [objects |-> disk.objects, version |-> disk.version, rows |-> TRUE,
               blank |-> IF disk.version = 1 THEN disk.blank \cup late ELSE disk.blank]
  BY <1>1, <1>4 DEF Fields
<1>6. /\ Fields(disk') /\ disk'.objects = disk.objects /\ disk'.version = disk.version
      /\ disk.version # 1 => disk'.blank = disk.blank
  BY <1>5 DEF Fields
<1>7. Target' = Target /\ Target = disk.version /\ Marks' = Marks /\ Outcome' = Outcome
  BY <1>1, <1>3, <1>6 DEF Target, Marks, Outcome
<1>8. TypeOK'
  BY <1>1, <1>2, <1>6 DEF TypeOK, Fields
<1>9. CommitInv'
  <2>1. goal # work'.version
    BY <1>1, <1>2, <1>3, <1>6 DEF CommitInv
  <2>2. server = "sqlite" => ~open
    BY <1>2, <1>3 DEF CommitInv
  <2>3. server = "postgresql" => torn = {}
    BY <1>2 DEF CommitInv
  <2> QED
    BY <1>1, <1>3, <2>1, <2>2, <2>3 DEF CommitInv
<1>10. PlanInv' /\ ReadyInv'
  BY <1>1, <1>3 DEF PlanInv, ReadyInv
<1>11. SchemaInv'
  BY <1>1, <1>2, <1>6, <1>7 DEF SchemaInv
<1>12. BlankInv'
  BY <1>1, <1>2, <1>3, <1>6, <1>7 DEF BlankInv
<1>13. RefusedInv'
  BY <1>1, <1>2 DEF RefusedInv
<1> QED
  BY <1>8, <1>9, <1>10, <1>11, <1>12, <1>13 DEF IInv

-----------------------------------------------------------------------------
(***************************************************************************)
(* The invariants.                                                         *)
(***************************************************************************)
\* The inductive invariant: whatever the servers, however many scripts are
\* cut short, and wherever in a script a command is interrupted.
THEOREM Invariance == Spec => []IInv
<1>1. Init => IInv
  BY InitIInv
<1>2. IInv /\ [Next]_vars => IInv'
  <2> SUFFICES ASSUME IInv, [Next]_vars
               PROVE  IInv'
    OBVIOUS
  <2>1. ASSUME NEW v \in 0..HeadRevision, Command(v)
        PROVE  IInv'
    BY <2>1, CommandStep
  <2>2. CASE Enter
    BY <2>2, EnterStep
  <2>3. CASE ChangeSchema
    BY <2>3, ChangeSchemaStep
  <2>4. CASE FillColumn
    BY <2>4, FillColumnStep
  <2>5. CASE SetVersion
    BY <2>5, SetVersionStep
  <2>6. CASE Refuse
    BY <2>6, RefuseStep
  <2>7. CASE Interrupt
    BY <2>7, InterruptStep
  <2>8. CASE StoreRun
    BY <2>8, StoreRunStep
  <2>9. CASE UNCHANGED vars
    BY <2>9 DEF vars, IInv, TypeOK, CommitInv, PlanInv, ReadyInv, SchemaInv, BlankInv, RefusedInv,
                Upgrading, Script, Target, Marks, Outcome
  <2> QED
    BY <2>1, <2>2, <2>3, <2>4, <2>5, <2>6, <2>7, <2>8, <2>9 DEF Next
<1> QED
  BY <1>1, <1>2, PTL DEF Spec

\* Everything that the models declare is made by one of the revisions.
LEMMA ModelsMade ==
  ASSUME NEW o \in Models
  PROVE  \E r \in 1..5 : o \in Made(r)
<1>1. CASE o \in UserModel \cup MessageModel \cup ToolCallModel
  <2>1. o \in Made(1)
    BY <1>1, MadeSets, SameDeclared DEF UserModel, MessageModel, ToolCallModel, New1
  <2> QED
    BY <2>1
<1>2. CASE o \in SessionModel
  <2>1. o \in Made(2)
    BY <1>2, MadeSets, SameDeclared DEF SessionModel
  <2> QED
    BY <2>1
<1>3. CASE o \in TranscriptModel \cup OutboxModel
  <2>1. o \in Made(4) \/ o \in Made(5)
    BY <1>3, MadeSets DEF TranscriptModel, OutboxModel, OutboxIndexed
  <2> QED
    BY <2>1
<1>4. CASE o \in QualityModel
  <2>1. o \in Made(3) \/ o \in Made(4)
    BY <1>4, MadeSets DEF QualityModel, ReviewColumns
  <2> QED
    BY <2>1
<1>5. CASE o \in RunModel
  <2>1. CASE \E c \in ToSet(ContractColumns) : o = Column("runs", c)
    <3>1. o \in Made(2)
      BY <2>1, MadeSets DEF RunColumns
    <3> QED
      BY <3>1
  <2>2. CASE o = Table("runs")
    <3>1. o \in Made(1)
      BY <2>2, MadeTables
    <3> QED
      BY <3>1
  <2>3. CASE \E c \in {"user_id", "status"} : o = Index("runs", c)
    <3>1. o \in Declared("runs", <<"status", "user_id">>)
      <4>1. ToSet(<<"status", "user_id">>) = {"status", "user_id"}
        BY TwoNames DEF Lists
      <4> QED
        BY <2>3, <4>1, DeclaredObjects
    <3>2. o \in Made(1)
      BY <3>1, MadeSets DEF New1
    <3> QED
      BY <3>2
  <2>4. CASE \E c \in ToSet(Keys) : o = Index("runs", c)
    <3>1. o \in Made(2)
      BY <2>4, MadeSets DEF RunIndexes
    <3> QED
      BY <3>1
  <2>5. ToSet(<<"user_id", "request_id", "session_id", "trace_id", "status">>)
            = {"user_id", "request_id", "session_id", "trace_id", "status"}
    BY DEF ToSet
  <2> QED
    BY <1>5, <2>1, <2>2, <2>3, <2>4, <2>5, DeclaredObjects, ContractNames, KeyNames DEF RunModel, Lists
<1> QED
  BY <1>1, <1>2, <1>3, <1>4, <1>5 DEF Models

\* At the head revision nothing but the indexes of torn scripts is missing.
LEMMA AtHeadComplete ==
  ASSUME IInv, AtHead, OnlyUps(torn)
  PROVE  Complete(5, disk.objects, torn) /\ disk.blank \cap Required = {}
<1>1. plan = <<>> /\ disk.version = 5
  BY DEF IInv, CommitInv, AtHead, HeadRevision
<1>2. Marks = torn
  BY <1>1 DEF Marks
<1> QED
  BY <1>1, <1>2 DEF IInv, SchemaInv, BlankInv, Intact

\* After `alembic upgrade head`, however often it was cut short and given
\* again, every table and column that app/models maps exists, and no column
\* it requires is NULL in a run stored before.
THEOREM ModelsServed == Spec => []ServesModels
<1>1. IInv => ServesModels
  <2> SUFFICES ASSUME IInv, AtHead, OnlyUps(torn)
               PROVE  /\ {o \in Models : ~IsIndex(o)} \subseteq disk.objects
                      /\ disk.blank \cap Required = {}
    BY DEF ServesModels
  <2>1. Complete(5, disk.objects, torn) /\ disk.blank \cap Required = {}
    BY AtHeadComplete
  <2>2. ASSUME NEW o \in Models, ~IsIndex(o)
        PROVE  o \in disk.objects
    BY <2>1, <2>2, ModelsMade DEF Complete
  <2> QED
    BY <2>1, <2>2
<1> QED
  BY <1>1, Invariance, PTL

\* Every index that app/models declares exists too, unless 0003, 0004 or
\* 0005 was cut short on SQLite after it had created the index's table.
THEOREM IndexesServed == Spec => []IndexesComplete
<1>1. IInv => IndexesComplete
  <2> SUFFICES ASSUME IInv, AtHead, OnlyUps(torn), NEW o \in Models, IsIndex(o), o \notin disk.objects
               PROVE  \/ /\ o.of \in {"findings", "provenances", "coverage_gaps", "human_review_items"}
                         /\ <<"up", 3>> \in torn
                      \/ o.of = "run_transcript_events" /\ <<"up", 4>> \in torn
                      \/ o.of = "outbox_events" /\ <<"up", 5>> \in torn
    BY DEF IndexesComplete
  <2>1. Complete(5, disk.objects, torn)
    BY AtHeadComplete
  <2>2. PICK r \in 1..5 : o \in Made(r)
    BY ModelsMade
  <2>3. r >= 3
    BY <2>1, <2>2 DEF Complete
  <2>4. r \in 3..5
    BY <2>3
  <2>5. Table(o.of) \in Made(r)
    BY <2>2, <2>4, TableStays
  <2>6. Table(o.of) \in disk.objects
    <3>1. ~IsIndex(Table(o.of))
      BY ObjectFields DEF IsIndex
    <3> QED
      BY <2>1, <2>5, <3>1 DEF Complete
  <2>7. <<"up", r>> \in torn
    BY <2>1, <2>2, <2>4, <2>6 DEF Complete, HeadRevision
  <2>8. o.of \in NewTables(r)
    BY <2>2, <2>4, MadeKinds DEF MadeAs
  <2>9. r = 3 \/ r = 4 \/ r = 5
    BY <2>4
  <2> QED
    BY <2>7, <2>8, <2>9 DEF NewTables
<1> QED
  BY <1>1, Invariance, PTL

\* While no downgrade was cut short, the only upgrade that a server ever
\* rejects is the first, which creates its tables without looking.
THEOREM UpgradesRepeat == Spec => []OnlyFirstUpgradeSticks
<1>1. IInv => OnlyFirstUpgradeSticks
  BY DEF IInv, RefusedInv, OnlyFirstUpgradeSticks
<1> QED
  BY <1>1, Invariance, PTL

\* With no script cut short no statement is ever rejected, and every
\* downgrade takes back exactly what its upgrade made.
THEOREM DownsUndoUps == Spec => []DownUndoesUp
<1>1. IInv => DownUndoesUp
  <2> SUFFICES ASSUME IInv
               PROVE  DownUndoesUp
    OBVIOUS
  <2>1. \A s \in refused : ~s.clean
    BY DEF IInv, RefusedInv
  <2>2. ASSUME torn = {}, goal = Idle \/ server = "postgresql"
        PROVE  disk.objects = SchemaAt(disk.version)
    <3>1. plan # <<>> => server # "sqlite"
      BY <2>2 DEF IInv, CommitInv
    <3>2. Marks = {}
      BY <2>2, <3>1 DEF Marks
    <3> QED
      BY <3>2 DEF IInv, SchemaInv, Intact
  <2> QED
    BY <2>1, <2>2 DEF DownUndoesUp
<1> QED
  BY <1>1, Invariance, PTL
=============================================================================
