-------------------------- MODULE DebugPanelProofs --------------------------
(***************************************************************************)
(* Proofs about DebugPanel: the poll is honest and, with lines that end in *)
(* LF, the timeline shows the events that have arrived whole, for every    *)
(* number of sends, loops and rounds and for every list of events.         *)
(***************************************************************************)
EXTENDS DebugPanel, SequenceTheorems, FiniteSetTheorems, TLAPS

-----------------------------------------------------------------------------
(***************************************************************************)
(* The words of the stream.                                                *)
(***************************************************************************)

\* The five words of an event whose lines end with LF.
LEMMA BlockLF ==
    ASSUME NEW name
    PROVE  /\ BlockLength("lf") = 5
           /\ Block("lf", name)[1] = name
           /\ Block("lf", name)[2] = "LF"
           /\ Block("lf", name)[3] = "data"
           /\ Block("lf", name)[4] = "LF"
           /\ Block("lf", name)[5] = "LF"
BY DEF Block, BlockLength

\* The eight words of an event whose lines end with CRLF.
LEMMA BlockCRLF ==
    ASSUME NEW name
    PROVE  /\ BlockLength("crlf") = 8
           /\ Block("crlf", name)[1] = name
           /\ Block("crlf", name)[2] = "CR"
           /\ Block("crlf", name)[3] = "LF"
           /\ Block("crlf", name)[4] = "data"
           /\ Block("crlf", name)[5] = "CR"
           /\ Block("crlf", name)[6] = "LF"
           /\ Block("crlf", name)[7] = "CR"
           /\ Block("crlf", name)[8] = "LF"
BY DEF Block, BlockLength

LEMMA NamesDiffer ==
    ASSUME NEW i \in 1..Len(Events)
    PROVE  Events[i] \in Names /\ Events[i] \notin {"LF", "CR", "data", "run_status"}
<1>1. DOMAIN Events = 1..Len(Events)
  BY PanelAssumption
<1>2. Events[i] \in Names
  BY <1>1, Zenon DEF Names
<1>3. {"LF", "CR", "data", "run_status"} \cap Names = {}
  BY PanelAssumption, Zenon
<1> QED
  BY <1>2, <1>3

\* A word of the stream by its event and its place in it.
LEMMA TokenAt ==
    ASSUME NEW q \in Nat, NEW r \in Nat
    PROVE  /\ r < 5 => Token("lf", 5 * q + r + 1) = Block("lf", Events[q + 1])[r + 1]
           /\ r < 8 => Token("crlf", 8 * q + r + 1) = Block("crlf", Events[q + 1])[r + 1]
<1>1. r < 5 => (5 * q + r) \div 5 = q /\ (5 * q + r) % 5 = r
  OBVIOUS
<1>2. r < 8 => (8 * q + r) \div 8 = q /\ (8 * q + r) % 8 = r
  OBVIOUS
<1>3. (5 * q + r + 1) - 1 = 5 * q + r /\ (8 * q + r + 1) - 1 = 8 * q + r
  OBVIOUS
<1>4. 1 + q = q + 1 /\ 1 + r = r + 1
  OBVIOUS
<1> HIDE DEF Block
<1> QED
  BY <1>1, <1>2, <1>3, <1>4, BlockLF, BlockCRLF DEF Token

-----------------------------------------------------------------------------
(***************************************************************************)
(* Splitting a buffer whose lines end with LF: it starts at the beginning  *)
(* of an event and holds Len(b) \div 5 whole ones.                         *)
(***************************************************************************)

LEMMA WordsLF ==
    ASSUME NEW b, NEW c \in Nat, Aligned("lf", b, 5 * c), NEW q \in Nat
    PROVE  /\ 5 * q + 1 <= Len(b) => /\ c + q + 1 \in 1..Len(Events)
                                     /\ b[5 * q + 1] = Events[c + q + 1]
           /\ 5 * q + 2 <= Len(b) => b[5 * q + 2] = "LF"
           /\ 5 * q + 3 <= Len(b) => b[5 * q + 3] = "data"
           /\ 5 * q + 4 <= Len(b) => b[5 * q + 4] = "LF"
           /\ 5 * q + 5 <= Len(b) => b[5 * q + 5] = "LF"
<1>1. Len(b) \in Nat /\ Len(Events) \in Nat /\ 5 * c + Len(b) <= 5 * Len(Events)
  BY BlockLF, PanelAssumption DEF Aligned
<1>2. \A r \in 0..4 : 5 * q + r + 1 <= Len(b) =>
          b[5 * q + r + 1] = Block("lf", Events[c + q + 1])[r + 1]
  <2>1. TAKE r \in 0..4
  <2>2. HAVE 5 * q + r + 1 <= Len(b)
  <2>3. 5 * q + r + 1 \in 1..Len(b)
    BY <1>1, <2>2
  <2>4. b[5 * q + r + 1] = Token("lf", 5 * c + (5 * q + r + 1))
    BY <2>3 DEF Aligned
  <2>5. 5 * c + (5 * q + r + 1) = 5 * (c + q) + r + 1
    OBVIOUS
  <2>6. Token("lf", 5 * (c + q) + r + 1) = Block("lf", Events[(c + q) + 1])[r + 1]
    <3>1. c + q \in Nat /\ r \in Nat /\ r < 5
      OBVIOUS
    <3> QED
      BY <3>1, TokenAt
  <2> QED
    BY <2>4, <2>5, <2>6
<1>3. 5 * q + 1 <= Len(b) => c + q + 1 \in 1..Len(Events)
  BY <1>1
<1>4. /\ 5 * q + 0 + 1 = 5 * q + 1 /\ 5 * q + 1 + 1 = 5 * q + 2 /\ 5 * q + 2 + 1 = 5 * q + 3
      /\ 5 * q + 3 + 1 = 5 * q + 4 /\ 5 * q + 4 + 1 = 5 * q + 5
      /\ 0 + 1 = 1 /\ 1 + 1 = 2 /\ 2 + 1 = 3 /\ 3 + 1 = 4 /\ 4 + 1 = 5
  OBVIOUS
<1>5. 0 \in 0..4 /\ 1 \in 0..4 /\ 2 \in 0..4 /\ 3 \in 0..4 /\ 4 \in 0..4
  OBVIOUS
<1> DEFINE words == Block("lf", Events[c + q + 1])
<1>6. /\ words[1] = Events[c + q + 1] /\ words[2] = "LF" /\ words[3] = "data"
      /\ words[4] = "LF" /\ words[5] = "LF"
  BY BlockLF
<1> HIDE DEF words
<1>7. /\ 5 * q + 0 + 1 <= Len(b) => b[5 * q + 0 + 1] = words[0 + 1]
      /\ 5 * q + 1 + 1 <= Len(b) => b[5 * q + 1 + 1] = words[1 + 1]
      /\ 5 * q + 2 + 1 <= Len(b) => b[5 * q + 2 + 1] = words[2 + 1]
      /\ 5 * q + 3 + 1 <= Len(b) => b[5 * q + 3 + 1] = words[3 + 1]
      /\ 5 * q + 4 + 1 <= Len(b) => b[5 * q + 4 + 1] = words[4 + 1]
  BY <1>2, <1>5, Zenon DEF words
<1>8. /\ 5 * q + 1 <= Len(b) => b[5 * q + 1] = words[1]
      /\ 5 * q + 2 <= Len(b) => b[5 * q + 2] = words[2]
      /\ 5 * q + 3 <= Len(b) => b[5 * q + 3] = words[3]
      /\ 5 * q + 4 <= Len(b) => b[5 * q + 4] = words[4]
      /\ 5 * q + 5 <= Len(b) => b[5 * q + 5] = words[5]
  BY <1>4, <1>7
<1> QED
  BY <1>3, <1>6, <1>8

\* The two line feeds in a row are the ends of the whole events.
LEMMA CutsLF ==
    ASSUME NEW b, NEW c \in Nat, Aligned("lf", b, 5 * c)
    PROVE  Cuts(b) = {5 * q - 1 : q \in 1..(Len(b) \div 5)}
<1>1. Len(b) \in Nat
  BY DEF Aligned
<1>2. \A q \in 1..(Len(b) \div 5) : 5 * q - 1 \in Cuts(b)
  <2>1. TAKE q \in 1..(Len(b) \div 5)
  <2>2. q - 1 \in Nat /\ 5 * (q - 1) + 5 <= Len(b)
    BY <1>1
  <2>3. /\ 5 * (q - 1) + 4 <= Len(b) => b[5 * (q - 1) + 4] = "LF"
        /\ 5 * (q - 1) + 5 <= Len(b) => b[5 * (q - 1) + 5] = "LF"
    BY <2>2, WordsLF
  <2>4. /\ 5 * (q - 1) + 4 = 5 * q - 1 /\ 5 * (q - 1) + 5 = (5 * q - 1) + 1
        /\ 5 * q - 1 \in 1..(Len(b) - 1) /\ 5 * (q - 1) + 4 <= Len(b)
    BY <1>1, <2>2
  <2> QED
    BY <2>2, <2>3, <2>4 DEF Cuts
<1>3. ASSUME NEW i \in Cuts(b)
      PROVE  \E q \in 1..(Len(b) \div 5) : i = 5 * q - 1
  <2>1. i \in 1..(Len(b) - 1) /\ b[i] = "LF" /\ b[i + 1] = "LF"
    BY DEF Cuts
  <2> DEFINE q == (i - 1) \div 5
             r == (i - 1) % 5
  <2>2. i \in Nat /\ q \in Nat /\ r \in 0..4 /\ i = 5 * q + r + 1 /\ i + 1 <= Len(b)
    BY <1>1, <2>1
  <2> HIDE DEF q, r
  <2>3. CASE r = 3
    <3>1. q + 1 \in 1..(Len(b) \div 5) /\ i = 5 * (q + 1) - 1
      BY <1>1, <2>2, <2>3
    <3> QED
      BY <3>1
  <2>4. CASE r = 4
    <3>1. q + 1 \in Nat /\ i + 1 = 5 * (q + 1) + 1
      BY <2>2, <2>4
    <3>2. 5 * (q + 1) + 1 <= Len(b)
              => /\ c + (q + 1) + 1 \in 1..Len(Events)
                 /\ b[5 * (q + 1) + 1] = Events[c + (q + 1) + 1]
      BY <3>1, WordsLF
    <3>3. 5 * (q + 1) + 1 <= Len(b)
      BY <2>2, <3>1
    <3> QED
      BY <2>1, <3>1, <3>2, <3>3, NamesDiffer
  <2>5. CASE r = 0
    <3>1. i = 5 * q + 1 /\ 5 * q + 1 <= Len(b)
      BY <1>1, <2>2, <2>5
    <3>2. c + q + 1 \in 1..Len(Events) /\ b[i] = Events[c + q + 1]
      BY <2>2, <3>1, WordsLF
    <3> QED
      BY <2>1, <3>2, NamesDiffer
  <2>6. CASE r = 1
    <3>1. i + 1 = 5 * q + 3
      BY <2>2, <2>6
    <3>2. b[i + 1] = "data"
      BY <2>2, <3>1, WordsLF
    <3> QED
      BY <2>1, <3>2
  <2>7. CASE r = 2
    <3>1. i = 5 * q + 3 /\ 5 * q + 3 <= Len(b)
      BY <1>1, <2>2, <2>7
    <3>2. b[i] = "data"
      BY <2>2, <3>1, WordsLF
    <3> QED
      BY <2>1, <3>2
  <2> QED
    BY <2>2, <2>3, <2>4, <2>5, <2>6, <2>7
<1> QED
  BY <1>2, <1>3

LEMMA Multiples ==
    ASSUME NEW n \in Nat
    PROVE  /\ IsFiniteSet({5 * q - 1 : q \in 1..n})
           /\ Cardinality({5 * q - 1 : q \in 1..n}) = n
<1> DEFINE T == {5 * q - 1 : q \in 1..n}
           f == [q \in 1..n |-> 5 * q - 1]
<1>1. IsFiniteSet(1..n) /\ Cardinality(1..n) = n
  BY FS_Interval
<1>2. f \in Bijection(1..n, T)
  <2>1. f \in [1..n -> T] /\ \A t \in T : \E q \in 1..n : f[q] = t
    OBVIOUS
  <2>2. \A q, p \in 1..n : f[q] = f[p] => q = p
    OBVIOUS
  <2>3. f \in Injection(1..n, T)
    BY <2>1, <2>2, Zenon DEF Injection, IsInjective
  <2>4. f \in Surjection(1..n, T)
    BY <2>1, Zenon DEF Surjection
  <2> QED
    BY <2>3, <2>4 DEF Bijection
<1>3. ExistsBijection(1..n, T)
  BY <1>2 DEF ExistsBijection
<1> QED
  BY <1>1, <1>3, FS_Bijection

LEMMA StartLF ==
    ASSUME NEW b, NEW i, NEW n \in Nat, Before(b, i) = {5 * q - 1 : q \in 1..n}
    PROVE  Start(b, i) = 5 * n + 1
<1>1. CASE n = 0
  <2>1. Before(b, i) = {}
    BY <1>1
  <2> QED
    BY <1>1, <2>1 DEF Start
<1>2. CASE n # 0
  <2> DEFINE last(j) == \A k \in Before(b, i) : k <= j
  <2>1. 5 * n - 1 \in Before(b, i) /\ last(5 * n - 1)
    BY <1>2
  <2>2. \A j \in Before(b, i) : last(j) => j = 5 * n - 1
    BY <2>1
  <2>3. (CHOOSE j \in Before(b, i) : last(j)) = 5 * n - 1
    BY <2>1, <2>2, Zenon
  <2>4. Before(b, i) # {}
    BY <2>1
  <2>5. Start(b, i) = 2 + (5 * n - 1)
    BY <2>3, <2>4, Zenon DEF Start
  <2> QED
    BY <2>5
<1> QED
  BY <1>1, <1>2

\* The items are the whole events, in order, and the rest is what follows them.
LEMMA SplitLF ==
    ASSUME NEW b, NEW c \in Nat, Aligned("lf", b, 5 * c)
    PROVE  /\ Items(b) = [n \in 1..(Len(b) \div 5) |-> <<Events[c + n], "data">>]
           /\ Rest(b) = SubSeq(b, 5 * (Len(b) \div 5) + 1, Len(b))
<1> DEFINE K == Len(b) \div 5
           Cell(n) == {5 * q - 1 : q \in 1..n}
<1>1. Len(b) \in Nat /\ K \in Nat /\ 5 * K <= Len(b)
  BY DEF Aligned
<1>2. Cuts(b) = Cell(K)
  BY CutsLF
<1> HIDE DEF K
<1>3. \A n \in Nat : Cardinality(Cell(n)) = n
  BY Multiples
<1>4. \A n \in 1..K : Before(b, 5 * n - 1) = Cell(n - 1)
  BY <1>1, <1>2 DEF Before
<1>5. Before(b, Len(b) + 1) = Cell(K)
  BY <1>1, <1>2 DEF Before
<1>6. \A n \in 1..K : /\ 5 * n - 1 \in Cuts(b)
                      /\ Cardinality(Before(b, 5 * n - 1)) = n - 1
  <2>1. TAKE n \in 1..K
  <2>2. n - 1 \in Nat
    BY <1>1
  <2>3. Cardinality(Cell(n - 1)) = n - 1
    BY <1>3, <2>2, Zenon
  <2>4. 5 * n - 1 \in Cuts(b)
    BY <1>2
  <2> QED
    BY <1>4, <2>3, <2>4
<1>7. \A i \in Cuts(b) : \E n \in 1..K : i = 5 * n - 1
  BY <1>2
<1> DEFINE nth(n) == CHOOSE i \in Cuts(b) : Cardinality(Before(b, i)) = n - 1
<1>8. \A n \in 1..K : nth(n) = 5 * n - 1
  <2>1. TAKE n \in 1..K
  <2>2. \A i \in Cuts(b) : Cardinality(Before(b, i)) = n - 1 => i = 5 * n - 1
    <3>1. SUFFICES ASSUME NEW i \in Cuts(b), Cardinality(Before(b, i)) = n - 1
                   PROVE  i = 5 * n - 1
      OBVIOUS
    <3>2. PICK m \in 1..K : i = 5 * m - 1
      BY <1>7
    <3>3. m - 1 = n - 1
      BY <1>6, <3>1, <3>2
    <3> QED
      BY <1>1, <3>2, <3>3
  <2> QED
    BY <1>6, <2>2, Zenon
<1> HIDE DEF nth
<1>9. Cardinality(Cuts(b)) = K
  BY <1>1, <1>2, <1>3
<1>10. \A n \in 1..K : Item(SubSeq(b, Start(b, 5 * n - 1), (5 * n - 1) - 1))
                         = <<Events[c + n], "data">>
  <2>1. TAKE n \in 1..K
  <2> DEFINE q == n - 1
             part == SubSeq(b, 5 * q + 1, (5 * n - 1) - 1)
  <2>2. q \in Nat /\ c + q + 1 = c + n /\ 5 * q + 1 <= Len(b)
        /\ 5 * q + 1 \in 1..Len(b) /\ (5 * n - 1) - 1 \in 1..Len(b) /\ 5 * q + 1 <= (5 * n - 1) - 1
    BY <1>1
  <2> HIDE DEF q
  <2>3. Start(b, 5 * n - 1) = 5 * q + 1
    <3>1. Before(b, 5 * n - 1) = {5 * p - 1 : p \in 1..q}
      BY <1>4 DEF q
    <3> QED
      BY <2>2, <3>1, StartLF, Zenon
  <2>4. c + n \in 1..Len(Events) /\ b[5 * q + 1] = Events[c + n]
    <3>1. 5 * q + 1 <= Len(b) => /\ c + q + 1 \in 1..Len(Events)
                                 /\ b[5 * q + 1] = Events[c + q + 1]
      BY <2>2, WordsLF
    <3> QED
      BY <2>2, <3>1
  <2>5. part # <<>> /\ part[1] = b[5 * q + 1]
    <3>1. b \in Seq(Tokens)
      BY DEF Aligned
    <3>2. Len(part) = ((5 * n - 1) - 1) - (5 * q + 1) + 1
      BY <2>2, <3>1
    <3>3. Len(part) >= 1 /\ part[1] = b[(5 * q + 1) + 1 - 1]
      BY <2>2, <3>1, <3>2
    <3> QED
      BY <2>2, <3>3
  <2>6. Item(part) = <<Events[c + n], "data">>
    BY <2>4, <2>5, NamesDiffer DEF Item
  <2> QED
    BY <2>3, <2>6
<1>11. Items(b) = [n \in 1..K |-> <<Events[c + n], "data">>]
  <2>1. Items(b) = [n \in 1..K |-> Item(SubSeq(b, Start(b, nth(n)), nth(n) - 1))]
    BY <1>9, Zenon DEF Items, nth
  <2> QED
    BY <1>8, <1>10, <2>1
<1>12. Rest(b) = SubSeq(b, 5 * K + 1, Len(b))
  BY <1>1, <1>5, StartLF DEF Rest
<1> QED
  BY <1>11, <1>12 DEF K

-----------------------------------------------------------------------------
(***************************************************************************)
(* A buffer whose lines end with CRLF is never split.                      *)
(***************************************************************************)
LEMMA CutsCRLF ==
    ASSUME NEW b, Aligned("crlf", b, 0)
    PROVE  Cuts(b) = {}
<1>1. Len(b) \in Nat /\ Len(Events) \in Nat /\ Len(b) <= 8 * Len(Events)
  BY BlockCRLF, PanelAssumption DEF Aligned
<1>2. \A q \in Nat, r \in 0..7 : 8 * q + r + 1 <= Len(b) =>
          b[8 * q + r + 1] = Block("crlf", Events[q + 1])[r + 1]
  <2>1. TAKE q \in Nat, r \in 0..7
  <2>2. HAVE 8 * q + r + 1 <= Len(b)
  <2>3. 8 * q + r + 1 \in 1..Len(b) /\ 0 + (8 * q + r + 1) = 8 * q + r + 1
    BY <1>1, <2>2
  <2>4. b[8 * q + r + 1] = Token("crlf", 8 * q + r + 1)
    BY <2>3 DEF Aligned
  <2>5. r \in Nat /\ r < 8
    OBVIOUS
  <2> QED
    BY <2>4, <2>5, TokenAt
<1>3. \A q \in Nat, r \in 0..7 : 8 * q + r + 1 <= Len(b) =>
          (b[8 * q + r + 1] = "LF" <=> r \in {2, 5, 7})
  <2>1. TAKE q \in Nat, r \in 0..7
  <2>2. HAVE 8 * q + r + 1 <= Len(b)
  <2>3. q + 1 \in 1..Len(Events)
    BY <1>1, <2>2
  <2>4. b[8 * q + r + 1] = Block("crlf", Events[q + 1])[r + 1]
    BY <1>2, <2>2
  <2>5. Events[q + 1] # "LF"
    BY <2>3, NamesDiffer
  <2> HIDE DEF Block
  <2>6. CASE r = 0
    BY <2>4, <2>5, <2>6, BlockCRLF
  <2>7. CASE r \in {1, 2, 3, 4, 5, 6, 7}
    BY <2>4, <2>7, BlockCRLF
  <2> QED
    BY <2>6, <2>7
<1>4. SUFFICES ASSUME NEW i \in 1..(Len(b) - 1), b[i] = "LF", b[i + 1] = "LF"
               PROVE  FALSE
  BY DEF Cuts
<1> DEFINE q == (i - 1) \div 8
           r == (i - 1) % 8
<1>5. q \in Nat /\ r \in 0..7 /\ i = 8 * q + r + 1 /\ i + 1 <= Len(b)
  BY <1>1
<1> HIDE DEF q, r
<1>6. r \in {2, 5, 7}
  <2>1. 8 * q + r + 1 <= Len(b)
    BY <1>1, <1>5
  <2> QED
    BY <1>3, <1>4, <1>5, <2>1
<1>7. CASE r = 7
  <2>1. q + 1 \in Nat /\ 0 \in 0..7 /\ i + 1 = 8 * (q + 1) + 0 + 1
    BY <1>5, <1>7
  <2>2. 8 * (q + 1) + 0 + 1 <= Len(b)
    BY <1>5, <2>1
  <2>3. b[8 * (q + 1) + 0 + 1] = "LF" <=> 0 \in {2, 5, 7}
    BY <1>3, <2>1, <2>2
  <2> QED
    BY <1>4, <2>1, <2>3
<1>8. CASE r # 7
  <2>1. r + 1 \in 0..7 /\ r + 1 \notin {2, 5, 7} /\ i + 1 = 8 * q + (r + 1) + 1
    BY <1>5, <1>6, <1>8
  <2>2. 8 * q + (r + 1) + 1 <= Len(b)
    BY <1>5, <2>1
  <2>3. b[8 * q + (r + 1) + 1] = "LF" <=> r + 1 \in {2, 5, 7}
    BY <1>3, <1>5, <2>1, <2>2
  <2> QED
    BY <1>4, <2>1, <2>3
<1> QED
  BY <1>7, <1>8

LEMMA SplitCRLF ==
    ASSUME NEW b, Aligned("crlf", b, 0)
    PROVE  Items(b) = <<>> /\ Rest(b) = b
<1>1. Cuts(b) = {} /\ b \in Seq(Tokens)
  BY CutsCRLF DEF Aligned
<1>2. Cardinality(Cuts(b)) = 0
  BY <1>1, FS_EmptySet
<1>3. Items(b) = <<>>
  BY <1>2 DEF Items
<1>4. Start(b, Len(b) + 1) = 1
  BY <1>1 DEF Start, Before
<1>5. SubSeq(b, 1, Len(b)) = b
  BY <1>1
<1> QED
  BY <1>3, <1>4, <1>5 DEF Rest

-----------------------------------------------------------------------------
(***************************************************************************)
(* What a chunk does to the buffer and to the wire.                        *)
(***************************************************************************)
LEMMA Chunk ==
    ASSUME NEW e, NEW buf, NEW w, NEW u \in Nat, NEW n \in 1..Len(w),
           Aligned(e, buf, u), Aligned(e, w, u + Len(buf))
    PROVE  LET b == buf \o SubSeq(w, 1, n)
               v == SubSeq(w, n + 1, Len(w))
           IN  /\ Len(b) = Len(buf) + n /\ Len(v) = Len(w) - n
               /\ Aligned(e, b, u) /\ Aligned(e, v, u + Len(b))
<1> DEFINE c == SubSeq(w, 1, n)
           b == buf \o c
           v == SubSeq(w, n + 1, Len(w))
<1>1. buf \in Seq(Tokens) /\ w \in Seq(Tokens) /\ Len(buf) \in Nat /\ Len(w) \in Nat
  BY DEF Aligned
<1>2. c \in Seq(Tokens) /\ Len(c) = n /\ \A i \in 1..n : c[i] = w[i]
  BY <1>1
<1>3. v \in Seq(Tokens) /\ Len(v) = Len(w) - n /\ \A i \in 1..(Len(w) - n) : v[i] = w[n + i]
  BY <1>1
<1> HIDE DEF c, v
<1>4. /\ b \in Seq(Tokens) /\ Len(b) = Len(buf) + n
      /\ \A i \in 1..(Len(buf) + n) : b[i] = IF i <= Len(buf) THEN buf[i] ELSE c[i - Len(buf)]
  BY <1>1, <1>2, ConcatProperties
<1> HIDE DEF b
<1> DEFINE top == BlockLength(e) * Len(Events)
<1>5. top \in Nat
  BY PanelAssumption DEF BlockLength
<1>6. /\ u + Len(buf) <= top /\ (u + Len(buf)) + Len(w) <= top
      /\ \A k \in 1..Len(buf) : buf[k] = Token(e, u + k)
      /\ \A k \in 1..Len(w) : w[k] = Token(e, u + Len(buf) + k)
  BY DEF Aligned
<1>7. Aligned(e, b, u)
  <2>1. u + Len(b) <= top
    BY <1>1, <1>4, <1>5, <1>6
  <2>2. ASSUME NEW k \in 1..Len(b) PROVE b[k] = Token(e, u + k)
    <3>1. CASE k <= Len(buf)
      BY <1>1, <1>4, <1>6, <3>1
    <3>2. CASE k > Len(buf)
      <4>1. k - Len(buf) \in 1..n /\ k - Len(buf) \in 1..Len(w)
            /\ u + Len(buf) + (k - Len(buf)) = u + k
        BY <1>1, <1>4, <3>2
      <4>2. b[k] = c[k - Len(buf)]
        BY <1>1, <1>4, <3>2
      <4> QED
        BY <1>2, <1>6, <4>1, <4>2
    <3> QED
      BY <1>1, <1>4, <3>1, <3>2
  <2> QED
    BY <1>4, <2>1, <2>2 DEF Aligned
<1>8. Aligned(e, v, u + Len(b))
  <2>1. u + Len(b) + Len(v) <= top
    BY <1>1, <1>3, <1>4, <1>5, <1>6
  <2>2. ASSUME NEW k \in 1..Len(v) PROVE v[k] = Token(e, u + Len(b) + k)
    <3>1. n + k \in 1..Len(w) /\ u + Len(buf) + (n + k) = u + Len(b) + k
      BY <1>1, <1>3, <1>4
    <3> QED
      BY <1>1, <1>3, <1>6, <3>1
  <2> QED
    BY <1>3, <2>1, <2>2 DEF Aligned
<1> QED
  BY <1>3, <1>4, <1>7, <1>8 DEF b, v, c

-----------------------------------------------------------------------------
(***************************************************************************)
(* What pushing an item, and joining the items of a chunk, do to the items *)
(* of a timeline.                                                          *)
(***************************************************************************)
LEMMA EventItems ==
    ASSUME NEW i \in 1..Len(Events)
    PROVE  <<Events[i], "data">> \in TimelineItems
BY NamesDiffer DEF TimelineItems

\* An item that is not of the stream changes nothing of what is shown.
LEMMA PushShows ==
    ASSUME NEW items \in Seq(TimelineItems), NEW x \in TimelineItems, x[2] # "data", NEW n
    PROVE  /\ Shown(Append(items, x)) = Shown(items)
           /\ ShowsFirst(items, n) => ShowsFirst(Append(items, x), n)
<1> DEFINE more == Append(items, x)
<1>1. /\ Len(items) \in Nat /\ DOMAIN items = 1..Len(items)
      /\ DOMAIN more = 1..(Len(items) + 1)
      /\ \A i \in 1..Len(items) : more[i] = items[i]
      /\ more[Len(items) + 1] = x
  BY AppendProperties
<1> HIDE DEF more
<1>2. Shown(more) = Shown(items)
  BY <1>1 DEF Shown
<1>3. \A i \in Shown(items) : more[i] = items[i]
  BY <1>1 DEF Shown
<1>4. ShowsFirst(items, n) => ShowsFirst(more, n)
  BY <1>2, <1>3 DEF ShowsFirst
<1> QED
  BY <1>2, <1>4 DEF more

LEMMA PushSaid ==
    ASSUME NEW items \in Seq(TimelineItems), NEW x \in TimelineItems
    PROVE  /\ Said(Append(items, x)) = IF x[1] = "run_status" THEN Said(items) \cup {Len(items) + 1}
                                      ELSE Said(items)
           /\ \A i \in Said(items) : Append(items, x)[i] = items[i]
           /\ Append(items, x)[Len(items) + 1] = x
<1> DEFINE more == Append(items, x)
<1>1. /\ Len(items) \in Nat /\ DOMAIN items = 1..Len(items)
      /\ DOMAIN more = 1..(Len(items) + 1)
      /\ \A i \in 1..Len(items) : more[i] = items[i]
      /\ more[Len(items) + 1] = x
  BY AppendProperties
<1> HIDE DEF more
<1>2. \A i \in Said(items) : more[i] = items[i]
  BY <1>1 DEF Said
<1>3. Said(more) = IF x[1] = "run_status" THEN Said(items) \cup {Len(items) + 1} ELSE Said(items)
  <2>1. \A i : i \in Said(more) <=> i \in Said(items) \/ (i = Len(items) + 1 /\ x[1] = "run_status")
    BY <1>1 DEF Said
  <2> QED
    BY <2>1
<1> QED
  BY <1>1, <1>2, <1>3 DEF more

\* The next k events after the first n: what has been shown grows to n + k.
LEMMA JoinShows ==
    ASSUME NEW items \in Seq(TimelineItems), NEW n \in Nat, NEW k \in Nat,
           NEW new \in Seq(TimelineItems), Len(new) = k,
           \A i \in 1..k : new[i] = <<Events[n + i], "data">>,
           ShowsFirst(items, n)
    PROVE  ShowsFirst(items \o new, n + k)
<1> DEFINE more == items \o new
           m    == Len(items)
<1>1. /\ m \in Nat /\ DOMAIN items = 1..m /\ DOMAIN more = 1..(m + k)
      /\ \A i \in 1..(m + k) : more[i] = IF i <= m THEN items[i] ELSE new[i - m]
  <2>1. more \in Seq(TimelineItems) /\ Len(more) = m + k
    BY ConcatProperties
  <2>2. \A i \in 1..(m + k) : more[i] = IF i <= m THEN items[i] ELSE new[i - m]
    BY ConcatProperties
  <2> QED
    BY <2>1, <2>2
<1> HIDE DEF more, m
<1>2. \A i \in 1..m : more[i] = items[i]
  BY <1>1
<1>3. \A j \in 1..k : m + j \in 1..(m + k) /\ more[m + j] = <<Events[n + j], "data">>
  BY <1>1
<1>4. Shown(items) \subseteq 1..m /\ IsFiniteSet(Shown(items)) /\ Cardinality(Shown(items)) = n
  <2>1. Shown(items) \subseteq 1..m
    BY <1>1 DEF Shown
  <2>2. IsFiniteSet(1..m)
    BY <1>1, FS_Interval
  <2> QED
    BY <2>1, <2>2, FS_Subset DEF ShowsFirst
<1>5. Shown(more) = Shown(items) \cup ((m + 1)..(m + k))
  <2>1. \A i \in (m + 1)..(m + k) : i \in DOMAIN more /\ more[i][2] = "data"
    <3>1. TAKE i \in (m + 1)..(m + k)
    <3>2. i - m \in 1..k /\ m + (i - m) = i
      BY <1>1
    <3> QED
      BY <1>1, <1>3, <3>2
  <2>2. \A i \in 1..m : i \in Shown(more) <=> i \in Shown(items)
    BY <1>1, <1>2 DEF Shown
  <2>3. Shown(more) \subseteq 1..(m + k)
    BY <1>1 DEF Shown
  <2>4. (m + 1)..(m + k) \subseteq Shown(more)
    BY <2>1 DEF Shown
  <2>5. \A i \in 1..(m + k) : i \in 1..m \/ i \in (m + 1)..(m + k)
    BY <1>1
  <2>6. ASSUME NEW i \in Shown(more)
        PROVE  i \in Shown(items) \cup ((m + 1)..(m + k))
    <3>1. i \in 1..m \/ i \in (m + 1)..(m + k)
      BY <2>3, <2>5
    <3> QED
      BY <2>2, <2>6, <3>1
  <2>7. Shown(items) \subseteq Shown(more)
    BY <1>4, <2>2
  <2> QED
    BY <2>4, <2>6, <2>7
<1>6. \A j \in 0..k : Cardinality(Shown(items) \cup ((m + 1)..(m + j))) = n + j
  <2>1. TAKE j \in 0..k
  <2>2. IsFiniteSet((m + 1)..(m + j)) /\ Cardinality((m + 1)..(m + j)) = j
    <3>1. m + 1 \in Int /\ m + j \in Int
      BY <1>1
    <3>2. /\ IsFiniteSet((m + 1)..(m + j))
          /\ Cardinality((m + 1)..(m + j)) = IF m + 1 > m + j THEN 0 ELSE (m + j) - (m + 1) + 1
      BY <3>1, FS_Interval, Zenon
    <3> QED
      BY <1>1, <3>2
  <2>3. Shown(items) \cap ((m + 1)..(m + j)) = {}
    <3>1. \A i \in 1..m : i \notin (m + 1)..(m + j)
      BY <1>1
    <3> QED
      BY <1>4, <3>1
  <2>4. Cardinality(Shown(items) \cup ((m + 1)..(m + j))) = n + j - Cardinality({})
    BY <1>4, <2>2, <2>3, FS_Union
  <2> QED
    BY <2>4, FS_EmptySet
<1>7. Cardinality(Shown(more)) = n + k
  BY <1>5, <1>6
<1>8. ASSUME NEW i \in Shown(more)
      PROVE  more[i] = <<Events[Cardinality(Shown(more) \cap 1..i)], "data">>
  <2>1. CASE i \in Shown(items)
    <3>1. Shown(more) \cap 1..i = Shown(items) \cap 1..i
      BY <1>1, <1>4, <1>5, <2>1
    <3>2. more[i] = items[i]
      BY <1>2, <1>4, <2>1
    <3> QED
      BY <2>1, <3>1, <3>2 DEF ShowsFirst
  <2>2. CASE i \in (m + 1)..(m + k)
    <3> DEFINE j == i - m
    <3>1. j \in 1..k /\ j \in 0..k /\ m + j = i
      BY <1>1, <2>2
    <3> HIDE DEF j
    <3>2. Shown(more) \cap 1..i = Shown(items) \cup ((m + 1)..(m + j))
      BY <1>1, <1>4, <1>5, <3>1
    <3>3. Cardinality(Shown(more) \cap 1..i) = n + j
      BY <1>6, <3>1, <3>2
    <3> QED
      BY <1>3, <3>1, <3>3
  <2> QED
    BY <1>5, <2>1, <2>2
<1> QED
  BY <1>7, <1>8 DEF ShowsFirst, more

\* No event of the stream says anything of the run.
LEMMA JoinSaid ==
    ASSUME NEW items \in Seq(TimelineItems), NEW new \in Seq(TimelineItems),
           \A i \in 1..Len(new) : new[i][1] # "run_status"
    PROVE  /\ Said(items \o new) = Said(items)
           /\ \A i \in Said(items) : (items \o new)[i] = items[i]
<1> DEFINE more == items \o new
           m    == Len(items)
           k    == Len(new)
<1>1. m \in Nat /\ k \in Nat /\ DOMAIN items = 1..m
  OBVIOUS
<1>2. /\ DOMAIN more = 1..(m + k)
      /\ \A i \in 1..(m + k) : more[i] = IF i <= m THEN items[i] ELSE new[i - m]
  <2>1. more \in Seq(TimelineItems) /\ Len(more) = m + k
    BY ConcatProperties
  <2>2. \A i \in 1..(m + k) : more[i] = IF i <= m THEN items[i] ELSE new[i - m]
    BY ConcatProperties
  <2> QED
    BY <2>1, <2>2
<1> HIDE DEF more, m
<1>3. \A i \in 1..m : more[i] = items[i]
  BY <1>1, <1>2
<1>4. \A i \in (m + 1)..(m + k) : more[i][1] # "run_status"
  <2>1. TAKE i \in (m + 1)..(m + k)
  <2>2. i - m \in 1..k /\ more[i] = new[i - m]
    BY <1>1, <1>2
  <2> QED
    BY <2>2
<1>5. Said(more) = Said(items)
  BY <1>1, <1>2, <1>3, <1>4 DEF Said
<1>6. \A i \in Said(items) : more[i] = items[i]
  BY <1>1, <1>3 DEF Said
<1> QED
  BY <1>5, <1>6 DEF more

-----------------------------------------------------------------------------
(***************************************************************************)
(* Splitting the buffer of either kind of stream.                          *)
(***************************************************************************)

\* The events that b completes.
Whole(e, b) == IF e = "lf" THEN Len(b) \div 5 ELSE 0

LEMMA Split ==
    ASSUME NEW e \in {"lf", "crlf"}, NEW b, NEW c \in Nat, e = "crlf" => c = 0,
           Aligned(e, b, BlockLength(e) * c)
    PROVE  /\ Whole(e, b) \in Nat
           /\ Items(b) \in Seq(TimelineItems) /\ Len(Items(b)) = Whole(e, b)
           /\ \A i \in 1..Whole(e, b) : /\ c + i \in 1..Len(Events)
                                        /\ Items(b)[i] = <<Events[c + i], "data">>
           /\ e = "crlf" => Items(b) = <<>>
           /\ Len(Rest(b)) = Len(b) - BlockLength(e) * Whole(e, b)
           /\ Aligned(e, Rest(b), BlockLength(e) * (c + Whole(e, b)))
<1> DEFINE K == Whole(e, b)
<1>1. b \in Seq(Tokens) /\ Len(b) \in Nat /\ Len(Events) \in Nat
  BY PanelAssumption DEF Aligned
<1>2. CASE e = "crlf"
  <2>1. Aligned("crlf", b, 0) /\ c = 0 /\ K = 0 /\ BlockLength(e) * (c + K) = 0
    BY <1>2, BlockCRLF DEF Whole
  <2>2. Items(b) = <<>> /\ Rest(b) = b
    BY <2>1, SplitCRLF
  <2>3. Items(b) \in Seq(TimelineItems) /\ Len(Items(b)) = 0
    BY <2>2
  <2>4. BlockLength(e) * K = 0
    BY <1>2, <2>1, BlockCRLF
  <2> QED
    BY <1>1, <1>2, <2>1, <2>2, <2>3, <2>4
<1>3. CASE e = "lf"
  <2>1. Aligned("lf", b, 5 * c) /\ K = Len(b) \div 5 /\ BlockLength(e) = 5
    BY <1>3, BlockLF DEF Whole
  <2>2. K \in Nat /\ 5 * K <= Len(b)
    BY <1>1, <2>1
  <2>3. /\ Items(b) = [n \in 1..K |-> <<Events[c + n], "data">>]
        /\ Rest(b) = SubSeq(b, 5 * K + 1, Len(b))
    BY <2>1, SplitLF
  <2>4. 5 * c + Len(b) <= 5 * Len(Events)
    BY <2>1 DEF Aligned
  <2>5. \A i \in 1..K : c + i \in 1..Len(Events)
    BY <1>1, <2>2, <2>4
  <2>6. \A i \in 1..K : <<Events[c + i], "data">> \in TimelineItems
    BY <2>5, EventItems
  <2>7. Items(b) \in [1..K -> TimelineItems]
    BY <2>3, <2>6
  <2>8. Items(b) \in Seq(TimelineItems) /\ Len(Items(b)) = K
    BY <2>2, <2>7
  <2>9. /\ Rest(b) \in Seq(Tokens) /\ Len(Rest(b)) = Len(b) - 5 * K
        /\ \A i \in 1..(Len(b) - 5 * K) : Rest(b)[i] = b[5 * K + i]
    <3> DEFINE u == 5 * K
    <3>1. u \in Nat /\ u <= Len(b) /\ Rest(b) = SubSeq(b, u + 1, Len(b))
      BY <2>2, <2>3
    <3> HIDE DEF u
    <3>2. /\ Rest(b) \in Seq(Tokens) /\ Len(Rest(b)) = Len(b) - u
          /\ \A i \in 1..(Len(b) - u) : Rest(b)[i] = b[u + i]
      BY <1>1, <3>1
    <3> QED
      BY <3>2 DEF u
  <2>10. Aligned("lf", Rest(b), 5 * (c + K))
    <3>1. 5 * (c + K) + Len(Rest(b)) <= 5 * Len(Events)
      BY <1>1, <2>2, <2>4, <2>9
    <3>2. ASSUME NEW i \in 1..Len(Rest(b))
          PROVE  Rest(b)[i] = Token("lf", 5 * (c + K) + i)
      <4>1. 5 * K + i \in 1..Len(b) /\ 5 * c + (5 * K + i) = 5 * (c + K) + i
            /\ i \in 1..(Len(b) - 5 * K)
        BY <1>1, <2>2, <2>9
      <4>2. b[5 * K + i] = Token("lf", 5 * c + (5 * K + i))
        BY <2>1, <4>1 DEF Aligned
      <4> QED
        BY <2>9, <4>1, <4>2
    <3> QED
      BY <2>9, <3>1, <3>2, BlockLF DEF Aligned
  <2>11. \A i \in 1..K : Items(b)[i] = <<Events[c + i], "data">>
    BY <2>3
  <2> QED
    BY <1>3, <2>1, <2>2, <2>5, <2>8, <2>9, <2>10, <2>11
<1> QED
  BY <1>2, <1>3

-----------------------------------------------------------------------------
(***************************************************************************)
(* One step of a stream.                                                   *)
(***************************************************************************)
LEMMA Lengths ==
    ASSUME TypeOK
    PROVE  /\ ends \in {"lf", "crlf"}
           /\ BlockLength(ends) = IF ends = "lf" THEN 5 ELSE 8
           /\ Len(Events) \in Nat
           /\ \A s \in Sends : /\ total[s] \in 0..Len(Events)
                               /\ Len(wire[s]) \in Nat /\ Len(buffer[s]) \in Nat
                               /\ HasRead(s) \in Int
<1>1. ends \in {"lf", "crlf"} /\ BlockLength(ends) = IF ends = "lf" THEN 5 ELSE 8
  BY PanelAssumption DEF TypeOK, BlockLength
<1>2. Len(Events) \in Nat
  BY PanelAssumption
<1>3. \A s \in Sends : /\ total[s] \in 0..Len(Events)
                       /\ Len(wire[s]) \in Nat /\ Len(buffer[s]) \in Nat
  BY DEF TypeOK
<1>4. \A s \in Sends : HasRead(s) \in Int
  BY <1>1, <1>2, <1>3 DEF HasRead
<1> QED
  BY <1>1, <1>2, <1>3, <1>4

\* What a chunk of n words shows, and that it leaves the stream aligned.
LEMMA ReadStep ==
    ASSUME TypeOK, NEW s \in Sends, StreamOf(s), NEW n, Read(s, n)
    PROVE  \E k \in Nat, new \in Seq(TimelineItems) :
               /\ Len(new) = k
               /\ timeline' = Set(timeline, s, timeline[s] \o new)
               /\ ends = "crlf" => new = <<>>
               /\ ends = "lf" => /\ Arrived(s) \in Nat /\ Arrived(s)' = Arrived(s) + k
                                 /\ \A i \in 1..k : new[i] = <<Events[Arrived(s) + i], "data">>
               /\ \A i \in 1..k : new[i][1] # "run_status"
               /\ StreamOf(s)'
<1> DEFINE L   == BlockLength(ends)
           c   == IF ends = "lf" THEN Arrived(s) ELSE 0
           b   == buffer[s] \o SubSeq(wire[s], 1, n)
           v   == SubSeq(wire[s], n + 1, Len(wire[s]))
           k   == Whole(ends, b)
<1>1. /\ ends \in {"lf", "crlf"} /\ L = (IF ends = "lf" THEN 5 ELSE 8)
      /\ total[s] \in Nat /\ Len(wire[s]) \in Nat /\ Len(buffer[s]) \in Nat
      /\ HasRead(s) \in Int
  BY Lengths
<1>2. /\ ends' = ends /\ total' = total /\ stream' = stream /\ stream[s] = "open"
      /\ n \in 1..Len(wire[s])
      /\ wire' = Set(wire, s, v) /\ buffer' = Set(buffer, s, Rest(b))
      /\ timeline' = Set(timeline, s, timeline[s] \o Items(b))
  BY DEF Read
<1>3. wire'[s] = v /\ buffer'[s] = Rest(b)
  BY <1>2 DEF Set, TypeOK
<1>4. /\ HasRead(s) >= 0 /\ Len(buffer[s]) = HasRead(s) - Used(s)
      /\ Aligned(ends, wire[s], HasRead(s)) /\ Aligned(ends, buffer[s], Used(s))
  BY DEF StreamOf
<1>5. c \in Nat /\ Used(s) = L * c /\ L * c \in Nat
  <2>1. CASE ends = "lf"
    BY <1>1, <1>4, <2>1, BlockLF DEF Arrived, Used
  <2>2. CASE ends = "crlf"
    BY <1>1, <2>2, BlockCRLF DEF Used
  <2> QED
    BY <1>1, <2>1, <2>2
<1>6. HasRead(s) = L * c + Len(buffer[s])
  BY <1>1, <1>4, <1>5
<1> HIDE DEF L
<1>7. /\ Len(b) = Len(buffer[s]) + n /\ Len(v) = Len(wire[s]) - n
      /\ Aligned(ends, b, L * c) /\ Aligned(ends, v, L * c + Len(b))
  <2> DEFINE u == L * c
  <2>1. /\ Aligned(ends, buffer[s], u) /\ Aligned(ends, wire[s], u + Len(buffer[s]))
        /\ u \in Nat /\ n \in 1..Len(wire[s])
    BY <1>2, <1>4, <1>5, <1>6
  <2> HIDE DEF u
  <2>2. /\ Len(b) = Len(buffer[s]) + n /\ Len(v) = Len(wire[s]) - n
        /\ Aligned(ends, b, u) /\ Aligned(ends, v, u + Len(b))
    BY <2>1, Chunk, Zenon
  <2> QED
    BY <2>2 DEF u
<1> HIDE DEF c, b, v
<1>8. /\ k \in Nat
      /\ Items(b) \in Seq(TimelineItems) /\ Len(Items(b)) = k
      /\ \A i \in 1..k : c + i \in 1..Len(Events) /\ Items(b)[i] = <<Events[c + i], "data">>
      /\ ends = "crlf" => Items(b) = <<>>
      /\ Len(Rest(b)) = Len(b) - L * k
      /\ Aligned(ends, Rest(b), L * (c + k))
  <2>1. ends = "crlf" => c = 0
    BY DEF c
  <2> QED
    BY <1>1, <1>5, <1>7, <2>1, Split DEF L
<1>9. HasRead(s)' = HasRead(s) + n /\ HasRead(s)' = L * c + Len(b)
  <2>1. HasRead(s)' = L * total[s] - (Len(wire[s]) - n)
    BY <1>2, <1>3, <1>7 DEF HasRead, L
  <2>2. HasRead(s) = L * total[s] - Len(wire[s])
    BY DEF HasRead, L
  <2>3. L * total[s] \in Int /\ n \in Int
    BY <1>1, <1>2
  <2>4. HasRead(s)' = HasRead(s) + n
    BY <1>1, <2>1, <2>2, <2>3
  <2> DEFINE u == L * c
  <2>5. u \in Nat /\ Len(buffer[s]) \in Nat /\ HasRead(s) = u + Len(buffer[s])
        /\ Len(b) = Len(buffer[s]) + n
    BY <1>1, <1>5, <1>6, <1>7
  <2> HIDE DEF u
  <2>6. HasRead(s)' = u + Len(b)
    BY <2>3, <2>4, <2>5
  <2> QED
    BY <2>4, <2>6 DEF u
<1>10. ends = "lf" => Arrived(s)' = c + k
  <2>1. SUFFICES ASSUME ends = "lf" PROVE Arrived(s)' = c + k
    OBVIOUS
  <2>2. L = 5 /\ k = Len(b) \div 5
    BY <1>1, <2>1 DEF Whole
  <2>3. Arrived(s)' = (5 * c + Len(b)) \div 5
    BY <1>2, <1>9, <2>2 DEF Arrived, L
  <2>4. Len(b) \in Nat
    BY <1>1, <1>2, <1>7
  <2> QED
    BY <1>5, <2>2, <2>3, <2>4
<1>11. Used(s)' = L * (c + k)
  <2>1. CASE ends = "lf"
    BY <1>2, <1>10, <2>1 DEF Used, L
  <2>2. CASE ends = "crlf"
    <3>1. c = 0 /\ k = 0 /\ L = 8
      BY <1>1, <2>2 DEF c, Whole
    <3>2. Used(s)' = 0
      BY <1>2, <2>2 DEF Used
    <3> QED
      BY <3>1, <3>2
  <2> QED
    BY <1>1, <2>1, <2>2
<1> HIDE DEF k
<1>12. StreamOf(s)'
  <2>1. HasRead(s)' >= 0
    BY <1>1, <1>2, <1>4, <1>9
  <2>2. Aligned(ends', wire'[s], HasRead(s)')
    BY <1>2, <1>3, <1>7, <1>9
  <2>3. Aligned(ends', buffer'[s], Used(s)')
    BY <1>2, <1>3, <1>8, <1>11
  <2>4. Len(buffer'[s]) = HasRead(s)' - Used(s)'
    <3>1. L * (c + k) = L * c + L * k /\ L * k \in Nat
      BY <1>1, <1>5, <1>8
    <3>2. Len(b) \in Nat
      BY <1>1, <1>2, <1>7
    <3> QED
      BY <1>3, <1>5, <1>8, <1>9, <1>11, <3>1, <3>2
  <2>5. stream'[s] \notin {"idle", "fetch"}
    BY <1>2
  <2> QED
    BY <2>1, <2>2, <2>3, <2>4, <2>5 DEF StreamOf
<1>13. \A i \in 1..k : Items(b)[i][1] # "run_status"
  BY <1>8, NamesDiffer
<1>14. ends = "lf" => c = Arrived(s)
  BY DEF c
<1>15. ends = "lf" => /\ Arrived(s) \in Nat /\ Arrived(s)' = Arrived(s) + k
                      /\ \A i \in 1..k : Items(b)[i] = <<Events[Arrived(s) + i], "data">>
  BY <1>5, <1>8, <1>10, <1>14
<1> QED
  BY <1>2, <1>8, <1>12, <1>13, <1>15

-----------------------------------------------------------------------------
(***************************************************************************)
(* Type correctness.                                                       *)
(***************************************************************************)
PanelItems == {<<"queued", "queued">>, <<"error", "error">>,
               <<"run_status", "completed">>, <<"run_status", "failed">>}

LEMMA PanelItemsTyped ==
    \A x \in PanelItems : x \in TimelineItems /\ x[2] # "data"
BY DEF PanelItems, TimelineItems

LEMMA PushTyped ==
    ASSUME TypeOK, NEW s \in Sends, NEW kind, NEW summary,
           <<kind, summary>> \in TimelineItems, Push(s, kind, summary)
    PROVE  timeline' \in [Sends -> Seq(TimelineItems)]
<1>1. timeline[s] \in Seq(TimelineItems)
  BY DEF TypeOK
<1>2. Append(timeline[s], <<kind, summary>>) \in Seq(TimelineItems)
  BY <1>1, AppendProperties
<1> QED
  BY <1>2 DEF Push, Set, TypeOK

LEMMA TypeInit == Init => TypeOK
<1> SUFFICES ASSUME Init PROVE TypeOK
  OBVIOUS
<1>1. ends \in LineEnds /\ sent \in 0..MaxSends /\ run \in [Sends -> Run!Statuses]
  BY PanelAssumption DEF Init, Run!Statuses
<1>2. /\ round \in [Sends -> 0..MaxRounds] /\ total \in [Sends -> 0..Len(Events)]
      /\ inspector \in (0..MaxSends) \X Run!Statuses
  BY PanelAssumption DEF Init, Run!Statuses
<1>3. /\ wire \in [Sends -> Seq(Tokens)] /\ buffer \in [Sends -> Seq(Tokens)]
      /\ timeline \in [Sends -> Seq(TimelineItems)]
  BY DEF Init
<1> QED
  BY <1>1, <1>2, <1>3 DEF Init, TypeOK

LEMMA TypeSend ==
    ASSUME TypeOK, NEW m, Send(m)
    PROVE  TypeOK'
<1>1. sent' = sent + 1 /\ sent' \in 0..MaxSends
  BY PanelAssumption DEF TypeOK, Send
<1>2. timeline' \in [Sends -> Seq(TimelineItems)]
  BY DEF Send
<1>3. /\ stream' \in [Sends -> {"idle", "fetch", "open", "closed", "failed"}]
      /\ poll' \in [Sends -> {"idle", "post", "get", "sleep", "reported", "gave_up", "broken"}]
  BY DEF Send, Set, TypeOK
<1> QED
  BY <1>1, <1>2, <1>3 DEF Send, TypeOK

LEMMA TypePoll ==
    ASSUME TypeOK, NEW s \in Sends, LoopOf(s), PollStep(s) \/ RunMoves(s)
    PROVE  TypeOK'
<1> USE DEF TypeOK, Set
<1>1. CASE Queued(s)
  <2>1. timeline' \in [Sends -> Seq(TimelineItems)]
    BY <1>1, PushTyped, PanelItemsTyped DEF Queued, PanelItems
  <2>2. run' \in [Sends -> Run!Statuses]
    BY <1>1 DEF Queued, Run!Submit, Run!Move, Run!Statuses
  <2> QED
    BY <1>1, <2>1, <2>2 DEF Queued, reading
<1>2. CASE RequestFails(s)
  <2>1. run' \in [Sends -> Run!Statuses]
    BY <1>2 DEF RequestFails, Run!Submit, Run!Move, Run!Statuses
  <2> QED
    BY <1>2, <2>1 DEF RequestFails, reading
<1>3. CASE Answer(s)
  <2>1. timeline' \in [Sends -> Seq(TimelineItems)]
    <3>1. CASE Reported(s)
      <4>1. Push(s, "run_status", run[s]) /\ run[s] \in {"completed", "failed"}
        BY <1>3, <3>1 DEF Answer, Reported, Run!Ended
      <4>2. <<"run_status", run[s]>> \in TimelineItems
        BY <4>1, PanelItemsTyped DEF PanelItems
      <4> QED
        BY <4>1, <4>2, PushTyped
    <3>2. CASE ~Reported(s)
      BY <1>3, <3>2 DEF Answer
    <3> QED
      BY <3>1, <3>2
  <2>2. poll' \in [Sends -> {"idle", "post", "get", "sleep", "reported", "gave_up", "broken"}]
    BY <1>3 DEF Answer
  <2>3. sent \in 0..MaxSends /\ s \in 0..MaxSends /\ run[s] \in Run!Statuses
    BY PanelAssumption DEF Sends
  <2>4. inspector' \in (0..MaxSends) \X Run!Statuses
    BY <1>3, <2>3 DEF Answer
  <2> QED
    BY <1>3, <2>1, <2>2, <2>4 DEF Answer, reading
<1>4. CASE WakeUp(s)
  <2>1. round[s] + 1 \in 0..MaxRounds
    BY <1>4, PanelAssumption DEF WakeUp, LoopOf
  <2>2. round' \in [Sends -> 0..MaxRounds]
    BY <1>4, <2>1 DEF WakeUp, NextRound
  <2> QED
    BY <1>4, <2>2 DEF WakeUp, reading
<1>5. CASE RunMoves(s)
  <2>1. run' \in [Sends -> Run!Statuses]
    BY <1>5 DEF RunMoves, Run!Execute, Run!Start, Run!Complete, Run!Fail, Run!Move, Run!Statuses
  <2> QED
    BY <1>5, <2>1 DEF RunMoves, reading
<1> QED
  BY <1>1, <1>2, <1>3, <1>4, <1>5 DEF PollStep

LEMMA WireAligned ==
    ASSUME TypeOK, NEW n \in 0..Len(Events)
    PROVE  /\ Wire(ends, n) \in Seq(Tokens) /\ Len(Wire(ends, n)) = BlockLength(ends) * n
           /\ Aligned(ends, Wire(ends, n), 0)
<1>1. /\ ends \in {"lf", "crlf"} /\ BlockLength(ends) = IF ends = "lf" THEN 5 ELSE 8
      /\ Len(Events) \in Nat
  BY Lengths
<1>2. BlockLength(ends) * n \in Nat /\ BlockLength(ends) * n <= BlockLength(ends) * Len(Events)
  BY <1>1
<1>3. ASSUME NEW k \in 1..(BlockLength(ends) * n)
      PROVE  Token(ends, k) \in Tokens
  <2>1. CASE ends = "lf"
    <3> DEFINE q == (k - 1) \div 5
               r == (k - 1) % 5
    <3>1. q \in Nat /\ r \in 0..4 /\ r \in Nat /\ r < 5 /\ k = 5 * q + r + 1 /\ q + 1 \in 1..Len(Events)
      BY <1>1, <2>1
    <3> HIDE DEF q, r
    <3>2. Token("lf", k) = Block("lf", Events[q + 1])[r + 1]
      BY <3>1, TokenAt
    <3>3. Events[q + 1] \in Tokens
      BY <3>1, NamesDiffer DEF Tokens
    <3>4. r = 0 \/ r = 1 \/ r = 2 \/ r = 3 \/ r = 4
      BY <3>1
    <3> QED
      BY <2>1, <3>2, <3>3, <3>4, BlockLF DEF Tokens
  <2>2. CASE ends = "crlf"
    <3> DEFINE q == (k - 1) \div 8
               r == (k - 1) % 8
    <3>1. q \in Nat /\ r \in 0..7 /\ r \in Nat /\ r < 8 /\ k = 8 * q + r + 1 /\ q + 1 \in 1..Len(Events)
      BY <1>1, <2>2
    <3> HIDE DEF q, r
    <3>2. Token("crlf", k) = Block("crlf", Events[q + 1])[r + 1]
      BY <3>1, TokenAt
    <3>3. Events[q + 1] \in Tokens
      BY <3>1, NamesDiffer DEF Tokens
    <3>4. r = 0 \/ r = 1 \/ r = 2 \/ r = 3 \/ r = 4 \/ r = 5 \/ r = 6 \/ r = 7
      BY <3>1
    <3> QED
      BY <2>2, <3>2, <3>3, <3>4, BlockCRLF DEF Tokens
  <2> QED
    BY <1>1, <2>1, <2>2
<1> DEFINE top == BlockLength(ends) * n
<1>4. top \in Nat /\ top <= BlockLength(ends) * Len(Events)
  BY <1>2
<1>5. Wire(ends, n) = [k \in 1..top |-> Token(ends, k)]
  BY DEF Wire
<1>6. \A k \in 1..top : Token(ends, k) \in Tokens
  BY <1>3
<1> HIDE DEF top
<1>7. Wire(ends, n) \in Seq(Tokens) /\ Len(Wire(ends, n)) = top
  <2>1. Wire(ends, n) \in [1..top -> Tokens]
    BY <1>5, <1>6
  <2> QED
    BY <1>4, <2>1
<1>8. \A k \in 1..top : Wire(ends, n)[k] = Token(ends, 0 + k)
  BY <1>4, <1>5
<1>9. 0 + top <= BlockLength(ends) * Len(Events)
  BY <1>4
<1> QED
  BY <1>7, <1>8, <1>9 DEF Aligned, top

\* A stream no step touches.
LEMMA SameStream ==
    ASSUME NEW t \in Sends, StreamOf(t), ends' = ends,
           total'[t] = total[t], wire'[t] = wire[t], buffer'[t] = buffer[t],
           stream'[t] \in {"idle", "fetch"} => stream[t] \in {"idle", "fetch"}
    PROVE  StreamOf(t)' /\ Arrived(t)' = Arrived(t)
<1>1. HasRead(t)' = HasRead(t)
  BY DEF HasRead
<1>2. Arrived(t)' = Arrived(t)
  BY <1>1 DEF Arrived
<1>3. Used(t)' = Used(t)
  BY <1>2 DEF Used
<1> QED
  BY <1>1, <1>2, <1>3 DEF StreamOf

LEMMA TypeStream ==
    ASSUME TypeOK, NEW s \in Sends, StreamOf(s),
           Connect(s) \/ StreamFails(s) \/ Close(s) \/ \E n \in 1..Len(wire[s]) : Read(s, n)
    PROVE  TypeOK'
<1>1. CASE Connect(s)
  <2>1. PICK n \in 0..Len(Events) : total' = Set(total, s, n) /\ wire' = Set(wire, s, Wire(ends, n))
    BY <1>1 DEF Connect
  <2>2. Wire(ends, n) \in Seq(Tokens)
    BY WireAligned
  <2>3. total' \in [Sends -> 0..Len(Events)] /\ wire' \in [Sends -> Seq(Tokens)]
    BY <2>1, <2>2 DEF TypeOK, Set
  <2>4. stream' \in [Sends -> {"idle", "fetch", "open", "closed", "failed"}]
    BY <1>1 DEF Connect, TypeOK, Set
  <2> QED
    BY <1>1, <2>3, <2>4 DEF Connect, TypeOK, polling
<1>2. CASE StreamFails(s)
  <2>1. timeline' \in [Sends -> Seq(TimelineItems)]
    BY <1>2, PushTyped, PanelItemsTyped DEF StreamFails, PanelItems
  <2>2. stream' \in [Sends -> {"idle", "fetch", "open", "closed", "failed"}]
    BY <1>2 DEF StreamFails, TypeOK, Set
  <2> QED
    BY <1>2, <2>1, <2>2 DEF StreamFails, TypeOK, polling
<1>3. CASE Close(s)
  <2>1. stream' \in [Sends -> {"idle", "fetch", "open", "closed", "failed"}]
    BY <1>3 DEF Close, TypeOK, Set
  <2> QED
    BY <1>3, <2>1 DEF Close, TypeOK, polling
<1>4. ASSUME NEW n \in 1..Len(wire[s]), Read(s, n) PROVE TypeOK'
  <2>1. PICK new \in Seq(TimelineItems) :
            timeline' = Set(timeline, s, timeline[s] \o new) /\ StreamOf(s)'
    BY <1>4, ReadStep
  <2>2. timeline[s] \o new \in Seq(TimelineItems)
    BY ConcatProperties DEF TypeOK
  <2>3. timeline' \in [Sends -> Seq(TimelineItems)]
    BY <2>1, <2>2 DEF TypeOK, Set
  <2>4. wire'[s] \in Seq(Tokens) /\ buffer'[s] \in Seq(Tokens)
    BY <2>1 DEF StreamOf, Aligned
  <2>5. \E v, r : wire' = Set(wire, s, v) /\ buffer' = Set(buffer, s, r)
    BY <1>4 DEF Read
  <2>6. wire' \in [Sends -> Seq(Tokens)] /\ buffer' \in [Sends -> Seq(Tokens)]
    BY <2>4, <2>5 DEF TypeOK, Set
  <2> QED
    BY <1>4, <2>3, <2>6 DEF Read, TypeOK, polling
<1> QED
  BY <1>1, <1>2, <1>3, <1>4

-----------------------------------------------------------------------------
(***************************************************************************)
(* The loops and the streams.                                              *)
(***************************************************************************)
StreamStep(s) == Connect(s) \/ StreamFails(s) \/ Close(s) \/ \E n \in 1..Len(wire[s]) : Read(s, n)

LEMMA Steps ==
    ASSUME Next
    PROVE  \/ \E m \in Modes : Send(m)
           \/ \E s \in Sends : PollStep(s) \/ RunMoves(s)
           \/ \E s \in Sends : StreamStep(s)
BY Zenon DEF Next, StreamStep

\* A poll leaves the streams alone, and a stream the polls.
LEMMA PollFrame ==
    ASSUME NEW s \in Sends, PollStep(s) \/ RunMoves(s)
    PROVE  ends' = ends /\ sent' = sent /\ reading' = reading
BY DEF PollStep, Queued, RequestFails, Answer, WakeUp, RunMoves

LEMMA StreamFrame ==
    ASSUME NEW s \in Sends, StreamStep(s)
    PROVE  ends' = ends /\ sent' = sent /\ polling' = polling
BY DEF StreamStep, Connect, StreamFails, Close, Read

LEMMA LoopNext ==
    ASSUME TypeOK, NEW t \in Sends, LoopOf(t), Next
    PROVE  LoopOf(t)'
<1> USE DEF LoopOf, Set
<1>1. ASSUME NEW m \in Modes, Send(m) PROVE LoopOf(t)'
  <2>1. sent' = sent + 1 /\ sent \in Nat /\ t \in Nat /\ round' = round
    BY <1>1 DEF Send, TypeOK, Sends
  <2>2. t # sent' => poll'[t] = poll[t] /\ stream'[t] = stream[t]
    BY <1>1 DEF Send, TypeOK
  <2>3. t = sent' => poll'[t] \in {"idle", "post"} /\ round[t] = 0
    BY <1>1, <2>1 DEF Send, TypeOK
  <2> QED
    BY <2>1, <2>2, <2>3
<1>2. ASSUME NEW s \in Sends, PollStep(s) \/ RunMoves(s) PROVE LoopOf(t)'
  <2>1. sent' = sent /\ stream' = stream
    BY <1>2, PollFrame DEF reading
  <2>2. CASE Queued(s)
    BY <2>1, <2>2, PanelAssumption DEF Queued, TypeOK
  <2>3. CASE RequestFails(s)
    BY <2>1, <2>3 DEF RequestFails, TypeOK
  <2>4. CASE Answer(s)
    BY <2>1, <2>4 DEF Answer, TypeOK
  <2>5. CASE WakeUp(s)
    BY <2>1, <2>5 DEF WakeUp, TypeOK
  <2>6. CASE RunMoves(s)
    BY <2>1, <2>6 DEF RunMoves
  <2> QED
    BY <1>2, <2>2, <2>3, <2>4, <2>5, <2>6 DEF PollStep
<1>3. ASSUME NEW s \in Sends, StreamStep(s) PROVE LoopOf(t)'
  <2>1. sent' = sent /\ poll' = poll /\ round' = round
    BY <1>3, StreamFrame DEF polling
  <2>2. stream'[t] = "idle" \/ stream[t] # "idle"
    BY <1>3 DEF StreamStep, Connect, StreamFails, Close, Read, TypeOK
  <2> QED
    BY <2>1, <2>2
<1> QED
  BY <1>1, <1>2, <1>3, Steps

LEMMA StreamNext ==
    ASSUME TypeOK, NEW t \in Sends, LoopOf(t), StreamOf(t), Next
    PROVE  StreamOf(t)'
<1>1. ASSUME NEW m \in Modes, Send(m) PROVE StreamOf(t)'
  <2>1. ends' = ends /\ total' = total /\ wire' = wire /\ buffer' = buffer
    BY <1>1 DEF Send
  <2>2. stream'[t] \in {"idle", "fetch"} => stream[t] \in {"idle", "fetch"}
    <3>1. sent' = sent + 1 /\ sent \in Nat /\ t \in Nat
      BY <1>1 DEF Send, TypeOK, Sends
    <3>2. t = sent' => stream[t] = "idle"
      BY <3>1 DEF LoopOf
    <3>3. t # sent' => stream'[t] = stream[t]
      BY <1>1 DEF Send, TypeOK, Set
    <3> QED
      BY <3>2, <3>3
  <2> QED
    BY <2>1, <2>2, SameStream
<1>2. ASSUME NEW s \in Sends, PollStep(s) \/ RunMoves(s) PROVE StreamOf(t)'
  BY <1>2, PollFrame, SameStream DEF reading
<1>3. ASSUME NEW s \in Sends, StreamStep(s) PROVE StreamOf(t)'
  <2>1. ends' = ends
    BY <1>3, StreamFrame
  <2>2. CASE s # t
    <3>1. /\ total'[t] = total[t] /\ wire'[t] = wire[t] /\ buffer'[t] = buffer[t]
          /\ stream'[t] = stream[t]
      BY <1>3, <2>2 DEF StreamStep, Connect, StreamFails, Close, Read, TypeOK, Set, reading
    <3> QED
      BY <2>1, <3>1, SameStream
  <2>3. CASE s = t /\ Connect(t)
    <3>1. PICK n \in 0..Len(Events) : total' = Set(total, t, n) /\ wire' = Set(wire, t, Wire(ends, n))
      BY <2>3 DEF Connect
    <3>2. /\ total'[t] = n /\ wire'[t] = Wire(ends, n) /\ stream'[t] = "open"
          /\ buffer'[t] = buffer[t]
      BY <2>3, <3>1 DEF Connect, TypeOK, Set
    <3>3. buffer[t] = <<>> /\ Aligned(ends, buffer[t], Used(t)) /\ total[t] = 0
      BY <2>3 DEF Connect, StreamOf
    <3>4. /\ Len(Wire(ends, n)) = BlockLength(ends) * n /\ BlockLength(ends) * n \in Int
          /\ Aligned(ends, Wire(ends, n), 0)
      BY WireAligned, Lengths
    <3>5. HasRead(t)' = 0
      BY <2>1, <3>2, <3>4 DEF HasRead
    <3>6. Used(t)' = 0
      <4>1. BlockLength(ends) \in {5, 8} /\ Arrived(t)' = 0 \div BlockLength(ends)
        BY <2>1, <3>5, Lengths DEF Arrived
      <4> QED
        BY <2>1, <4>1 DEF Used
    <3>7. Aligned(ends, <<>>, 0)
      <4>1. <<>> \in Seq(Tokens) /\ Len(<<>>) = 0 /\ 0 <= BlockLength(ends) * Len(Events)
        BY Lengths
      <4> QED
        BY <4>1 DEF Aligned
    <3> QED
      BY <2>1, <3>2, <3>3, <3>4, <3>5, <3>6, <3>7 DEF StreamOf
  <2>4. CASE s = t /\ (StreamFails(t) \/ Close(t))
    <3>1. /\ total' = total /\ wire' = wire /\ buffer' = buffer
          /\ stream'[t] \notin {"idle", "fetch"}
      BY <2>4 DEF StreamFails, Close, TypeOK, Set
    <3> QED
      BY <2>1, <3>1, SameStream
  <2>5. CASE s = t /\ \E n \in 1..Len(wire[t]) : Read(t, n)
    BY <2>5, ReadStep
  <2> QED
    BY <1>3, <2>2, <2>3, <2>4, <2>5 DEF StreamStep
<1> QED
  BY <1>1, <1>2, <1>3, Steps

-----------------------------------------------------------------------------
(***************************************************************************)
(* The poll.                                                               *)
(***************************************************************************)
LEMMA HonestSend ==
    ASSUME TypeOK, NEW t \in Sends, LoopOf(t), HonestOf(t), NEW m \in Modes, Send(m)
    PROVE  HonestOf(t)'
<1>1. timeline'[t] = <<>> /\ round' = round /\ sent' = sent + 1 /\ sent \in Nat /\ t \in Nat
  BY DEF Send, TypeOK, Sends
<1>2. Said(timeline'[t]) = {}
  BY <1>1 DEF Said
<1>3. CASE t = sent'
  <2>1. poll'[t] \in {"idle", "post"}
    BY <1>1, <1>3 DEF LoopOf, Send, TypeOK, Set
  <2> QED
    BY <1>2, <2>1 DEF HonestOf
<1>4. CASE t # sent'
  <2>1. poll'[t] = poll[t]
    BY <1>4 DEF Send, TypeOK, Set
  <2> QED
    BY <1>1, <1>2, <1>4, <2>1 DEF HonestOf
<1> QED
  BY <1>3, <1>4

LEMMA HonestPoll ==
    ASSUME TypeOK, NEW t \in Sends, LoopOf(t), HonestOf(t),
           NEW s \in Sends, PollStep(s) \/ RunMoves(s)
    PROVE  HonestOf(t)'
<1>1. sent' = sent
  BY PollFrame
<1>2. CASE s # t
  <2>1. poll'[t] = poll[t] /\ run'[t] = run[t] /\ round'[t] = round[t]
    BY <1>2 DEF PollStep, Queued, RequestFails, Answer, WakeUp, RunMoves, TypeOK, Set,
                Run!Submit, Run!Execute, Run!Start, Run!Complete, Run!Fail, Run!Move
  <2>2. timeline'[t] = timeline[t]
    BY <1>2 DEF PollStep, Queued, RequestFails, Answer, WakeUp, RunMoves, TypeOK, Set, Push
  <2> QED
    BY <1>1, <2>1, <2>2 DEF HonestOf
<1>3. CASE s = t
  <2>1. poll[t] # "reported" => Said(timeline[t]) = {}
    BY DEF HonestOf
  <2>2. timeline[t] \in Seq(TimelineItems)
    BY DEF TypeOK
  <2>3. CASE Queued(t)
    <3>1. poll[t] = "post" /\ poll'[t] = (IF MaxRounds = 0 THEN "gave_up" ELSE "get")
          /\ round' = round /\ timeline'[t] = Append(timeline[t], <<"queued", "queued">>)
      BY <2>3 DEF Queued, Push, TypeOK, Set
    <3>2. Said(timeline'[t]) = {}
      <4> DEFINE x == <<"queued", "queued">>
      <4>1. x \in TimelineItems /\ x[1] # "run_status"
        BY PanelItemsTyped DEF PanelItems
      <4>2. timeline'[t] = Append(timeline[t], x) /\ Said(timeline[t]) = {}
        BY <2>1, <3>1
      <4> HIDE DEF x
      <4> QED
        BY <2>2, <4>1, <4>2, PushSaid
    <3>3. round[t] = 0
      BY <3>1 DEF LoopOf
    <3> QED
      BY <3>1, <3>2, <3>3 DEF HonestOf
  <2>4. CASE RequestFails(t)
    <3>1. poll[t] # "reported" /\ poll'[t] = "broken" /\ timeline' = timeline
      BY <2>4 DEF RequestFails, TypeOK, Set
    <3> QED
      BY <2>1, <3>1 DEF HonestOf
  <2>5. CASE Answer(t) /\ Reported(t)
    <3>1. /\ poll[t] # "reported" /\ poll'[t] = "reported" /\ run' = run
          /\ run[t] \in Run!Ended /\ run[t] \in {"completed", "failed"}
          /\ timeline'[t] = Append(timeline[t], <<"run_status", run[t]>>)
      BY <2>5 DEF Answer, Reported, Push, TypeOK, Set, Run!Ended
    <3>2. <<"run_status", run[t]>> \in TimelineItems
      BY <3>1, PanelItemsTyped DEF PanelItems
    <3>3. /\ Said(timeline'[t]) = {Len(timeline[t]) + 1}
          /\ timeline'[t][Len(timeline[t]) + 1][2] = run[t]
      BY <2>1, <2>2, <3>1, <3>2, PushSaid
    <3> QED
      BY <3>1, <3>3 DEF HonestOf
  <2>6. CASE Answer(t) /\ ~Reported(t)
    <3>1. poll[t] # "reported" /\ poll'[t] = "sleep" /\ timeline' = timeline
      BY <2>6 DEF Answer, TypeOK, Set
    <3> QED
      BY <2>1, <3>1 DEF HonestOf
  <2>7. CASE WakeUp(t)
    <3>1. /\ poll[t] = "sleep" /\ timeline' = timeline /\ round'[t] = round[t] + 1
          /\ poll'[t] = IF round'[t] < MaxRounds THEN "get" ELSE "gave_up"
      BY <2>7 DEF WakeUp, NextRound, TypeOK, Set
    <3>2. round[t] < MaxRounds /\ round[t] \in Nat /\ MaxRounds \in Nat
      BY <3>1, PanelAssumption DEF LoopOf, TypeOK
    <3>3. poll'[t] = "gave_up" => round'[t] = MaxRounds
      BY <3>1, <3>2
    <3>4. poll'[t] # "reported"
      BY <3>1
    <3> QED
      BY <2>1, <3>1, <3>3, <3>4 DEF HonestOf
  <2>8. CASE RunMoves(t)
    <3>1. poll' = poll /\ round' = round /\ timeline' = timeline /\ run[t] \notin Run!Ended
      BY <2>8 DEF RunMoves, Run!Execute, Run!Start, Run!Complete, Run!Fail, Run!Move, Run!Ended
    <3>2. Said(timeline[t]) = {}
      BY <3>1 DEF HonestOf
    <3> QED
      BY <1>1, <3>1, <3>2 DEF HonestOf
  <2> QED
    BY <1>3, <2>3, <2>4, <2>5, <2>6, <2>7, <2>8 DEF PollStep
<1> QED
  BY <1>2, <1>3

LEMMA HonestStream ==
    ASSUME TypeOK, NEW t \in Sends, StreamOf(t), HonestOf(t), NEW s \in Sends, StreamStep(s)
    PROVE  HonestOf(t)'
<1>1. sent' = sent /\ run' = run /\ poll' = poll /\ round' = round
  BY StreamFrame DEF polling
<1>2. timeline[t] \in Seq(TimelineItems)
  BY DEF TypeOK
<1>3. /\ Said(timeline'[t]) = Said(timeline[t])
      /\ \A i \in Said(timeline[t]) : timeline'[t][i] = timeline[t][i]
  <2>1. CASE timeline'[t] = timeline[t]
    BY <2>1
  <2>2. CASE s = t /\ StreamFails(t)
    <3>1. timeline'[t] = Append(timeline[t], <<"error", "error">>)
      BY <2>2 DEF StreamFails, Push, TypeOK, Set
    <3> DEFINE x == <<"error", "error">>
    <3>2. x \in TimelineItems /\ x[1] # "run_status"
      BY PanelItemsTyped DEF PanelItems
    <3>3. timeline'[t] = Append(timeline[t], x)
      BY <3>1
    <3> HIDE DEF x
    <3>4. /\ Said(Append(timeline[t], x)) = Said(timeline[t])
          /\ \A i \in Said(timeline[t]) : Append(timeline[t], x)[i] = timeline[t][i]
      BY <1>2, <3>2, PushSaid
    <3> QED
      BY <3>3, <3>4, Zenon
  <2>3. CASE s = t /\ \E n \in 1..Len(wire[t]) : Read(t, n)
    <3>1. PICK k \in Nat, new \in Seq(TimelineItems) :
              /\ Len(new) = k /\ timeline' = Set(timeline, t, timeline[t] \o new)
              /\ \A i \in 1..k : new[i][1] # "run_status"
      BY <2>3, ReadStep, Zenon
    <3>2. timeline'[t] = timeline[t] \o new
      BY <3>1 DEF TypeOK, Set
    <3>3. \A i \in 1..Len(new) : new[i][1] # "run_status"
      BY <3>1
    <3>4. /\ Said(timeline[t] \o new) = Said(timeline[t])
          /\ \A i \in Said(timeline[t]) : (timeline[t] \o new)[i] = timeline[t][i]
      BY <1>2, <3>3, JoinSaid
    <3> QED
      BY <3>2, <3>4, Zenon
  <2>4. timeline'[t] = timeline[t] \/ (s = t /\ (StreamFails(t) \/ \E n \in 1..Len(wire[t]) : Read(t, n)))
    BY DEF StreamStep, Connect, StreamFails, Close, Read, Push, TypeOK, Set
  <2> QED
    BY <2>1, <2>2, <2>3, <2>4
<1> QED
  BY <1>1, <1>3 DEF HonestOf

-----------------------------------------------------------------------------
(***************************************************************************)
(* The timeline.                                                           *)
(***************************************************************************)
WhenLF(s) == ends = "lf" => FaithfulOf(s)

LEMMA FaithfulSend ==
    ASSUME TypeOK, NEW t \in Sends, LoopOf(t), StreamOf(t), NEW m \in Modes, Send(m)
    PROVE  WhenLF(t)'
<1>1. /\ timeline'[t] = <<>> /\ ends' = ends /\ total' = total /\ wire' = wire
      /\ sent' = sent + 1 /\ sent \in Nat /\ t \in Nat
  BY DEF Send, TypeOK, Sends
<1>2. Shown(timeline'[t]) = {} /\ Cardinality({}) = 0
  BY <1>1, FS_EmptySet DEF Shown
<1>3. t = sent' => Arrived(t)' = 0
  <2>1. SUFFICES ASSUME t = sent' PROVE Arrived(t)' = 0
    OBVIOUS
  <2>2. total[t] = 0 /\ HasRead(t) >= 0
    BY <1>1, <2>1 DEF LoopOf, StreamOf
  <2>3. BlockLength(ends) \in {5, 8} /\ Len(wire[t]) \in Nat
    BY Lengths
  <2>4. HasRead(t)' = 0
    BY <1>1, <2>2, <2>3 DEF HasRead
  <2> QED
    BY <1>1, <2>3, <2>4 DEF Arrived
<1> QED
  BY <1>2, <1>3 DEF WhenLF, FaithfulOf, ShowsFirst

\* A step that pushes nothing of the stream.
LEMMA FaithfulPush ==
    ASSUME TypeOK, NEW t \in Sends, WhenLF(t), ends' = ends, sent' = sent,
           Arrived(t)' = Arrived(t), NEW x \in PanelItems,
           timeline'[t] = timeline[t] \/ timeline'[t] = Append(timeline[t], x)
    PROVE  WhenLF(t)'
<1>1. timeline[t] \in Seq(TimelineItems) /\ x \in TimelineItems /\ x[2] # "data"
  BY PanelItemsTyped DEF TypeOK
<1>2. /\ Shown(timeline'[t]) = Shown(timeline[t])
      /\ ShowsFirst(timeline[t], Arrived(t)) => ShowsFirst(timeline'[t], Arrived(t))
  BY <1>1, PushShows
<1> QED
  BY <1>2 DEF WhenLF, FaithfulOf

LEMMA FaithfulPoll ==
    ASSUME TypeOK, NEW t \in Sends, StreamOf(t), WhenLF(t),
           NEW s \in Sends, PollStep(s) \/ RunMoves(s)
    PROVE  WhenLF(t)'
<1>1. ends' = ends /\ sent' = sent /\ reading' = reading
  BY PollFrame
<1>2. Arrived(t)' = Arrived(t)
  BY <1>1, SameStream DEF reading
<1>3. \E x \in PanelItems : timeline'[t] = timeline[t] \/ timeline'[t] = Append(timeline[t], x)
  <2>1. CASE Queued(s)
    BY <2>1 DEF Queued, Push, TypeOK, Set, PanelItems
  <2>2. CASE Answer(s)
    <3>1. CASE Reported(s)
      <4>1. <<"run_status", run[s]>> \in PanelItems
        BY <3>1 DEF Reported, Run!Ended, PanelItems
      <4>2. timeline'[t] = timeline[t] \/ timeline'[t] = Append(timeline[t], <<"run_status", run[s]>>)
        BY <2>2, <3>1 DEF Answer, Push, TypeOK, Set
      <4> QED
        BY <4>1, <4>2
    <3>2. CASE ~Reported(s)
      BY <2>2, <3>2 DEF Answer, PanelItems
    <3> QED
      BY <3>1, <3>2
  <2>3. CASE RequestFails(s) \/ WakeUp(s) \/ RunMoves(s)
    BY <2>3 DEF RequestFails, WakeUp, RunMoves, PanelItems
  <2> QED
    BY <2>1, <2>2, <2>3 DEF PollStep
<1> QED
  BY <1>1, <1>2, <1>3, FaithfulPush

LEMMA FaithfulStream ==
    ASSUME TypeOK, NEW t \in Sends, StreamOf(t), StreamOf(t)', WhenLF(t),
           NEW s \in Sends, StreamStep(s)
    PROVE  WhenLF(t)'
<1>1. ends' = ends /\ sent' = sent
  BY StreamFrame
<1>2. CASE s # t
  <2>1. /\ total'[t] = total[t] /\ wire'[t] = wire[t] /\ buffer'[t] = buffer[t]
        /\ stream'[t] = stream[t] /\ timeline'[t] = timeline[t]
    BY <1>2 DEF StreamStep, Connect, StreamFails, Close, Read, Push, TypeOK, Set, reading
  <2>2. Arrived(t)' = Arrived(t)
    BY <1>1, <2>1, SameStream
  <2> QED
    BY <1>1, <2>1, <2>2 DEF WhenLF, FaithfulOf
<1>3. CASE s = t /\ Connect(t)
  <2>1. PICK n \in 0..Len(Events) : total' = Set(total, t, n) /\ wire' = Set(wire, t, Wire(ends, n))
    BY <1>3 DEF Connect
  <2>2. total'[t] = n /\ wire'[t] = Wire(ends, n) /\ timeline' = timeline
    BY <1>3, <2>1 DEF Connect, TypeOK, Set
  <2>3. BlockLength(ends) \in {5, 8} /\ Len(wire[t]) \in Nat
    BY Lengths
  <2>4. HasRead(t)' = 0
    <3>1. Len(Wire(ends, n)) = BlockLength(ends) * n /\ BlockLength(ends) * n \in Int
      BY <2>3, WireAligned
    <3> QED
      BY <1>1, <2>2, <3>1 DEF HasRead
  <2>5. HasRead(t) = 0
    <3>1. total[t] = 0 /\ HasRead(t) >= 0
      BY <1>3 DEF Connect, StreamOf
    <3> QED
      BY <2>3, <3>1 DEF HasRead
  <2>6. Arrived(t)' = Arrived(t)
    BY <1>1, <2>4, <2>5 DEF Arrived
  <2> QED
    BY <1>1, <2>2, <2>6 DEF WhenLF, FaithfulOf
<1>4. CASE s = t /\ (StreamFails(t) \/ Close(t))
  <2>1. /\ total' = total /\ wire' = wire /\ buffer' = buffer
        /\ stream'[t] \notin {"idle", "fetch"}
    BY <1>4 DEF StreamFails, Close, TypeOK, Set
  <2>2. Arrived(t)' = Arrived(t)
    BY <1>1, <2>1, SameStream
  <2>3. <<"error", "error">> \in PanelItems
    BY DEF PanelItems
  <2>4. timeline'[t] = timeline[t] \/ timeline'[t] = Append(timeline[t], <<"error", "error">>)
    BY <1>4 DEF StreamFails, Close, Push, TypeOK, Set
  <2> QED
    BY <1>1, <2>2, <2>3, <2>4, FaithfulPush
<1>5. CASE s = t /\ \E n \in 1..Len(wire[t]) : Read(t, n)
  <2>1. PICK k \in Nat, new \in Seq(TimelineItems) :
            /\ Len(new) = k /\ timeline' = Set(timeline, t, timeline[t] \o new)
            /\ ends = "crlf" => new = <<>>
            /\ ends = "lf" => /\ Arrived(t) \in Nat /\ Arrived(t)' = Arrived(t) + k
                              /\ \A i \in 1..k : new[i] = <<Events[Arrived(t) + i], "data">>
    BY <1>5, ReadStep, Zenon
  <2>2. timeline'[t] = timeline[t] \o new /\ timeline[t] \in Seq(TimelineItems)
    BY <2>1 DEF TypeOK, Set
  <2>3. ends = "crlf" => timeline'[t] = timeline[t]
    BY <2>1, <2>2
  <2>4. ends = "lf" /\ ShowsFirst(timeline[t], Arrived(t)) => ShowsFirst(timeline'[t], Arrived(t)')
    BY <2>1, <2>2, JoinShows
  <2> QED
    BY <1>1, <2>3, <2>4 DEF WhenLF, FaithfulOf
<1> QED
  BY <1>2, <1>3, <1>4, <1>5 DEF StreamStep

-----------------------------------------------------------------------------
(***************************************************************************)
(* The theorems.                                                           *)
(***************************************************************************)
LEMMA InvInit == Init => IInv
<1> SUFFICES ASSUME Init PROVE IInv
  OBVIOUS
<1>1. TypeOK
  BY TypeInit
<1>2. \A s \in Sends : LoopOf(s)
  BY DEF Init, LoopOf
<1>3. ASSUME NEW s \in Sends
      PROVE  HasRead(s) = 0 /\ Arrived(s) = 0 /\ Used(s) = 0 /\ Aligned(ends, <<>>, 0)
  <2>1. BlockLength(ends) \in {5, 8} /\ Len(Events) \in Nat
    BY <1>1, Lengths
  <2>2. HasRead(s) = 0
    BY <2>1 DEF Init, HasRead
  <2>3. Arrived(s) = 0
    BY <2>1, <2>2 DEF Arrived
  <2>4. Used(s) = 0
    BY <2>1, <2>3 DEF Used
  <2>5. <<>> \in Seq(Tokens) /\ Len(<<>>) = 0 /\ 0 <= BlockLength(ends) * Len(Events)
    BY <2>1
  <2> QED
    BY <2>2, <2>3, <2>4, <2>5 DEF Aligned
<1>4. \A s \in Sends : StreamOf(s)
  BY <1>3 DEF Init, StreamOf
<1>5. Shown(<<>>) = {} /\ Said(<<>>) = {} /\ Cardinality({}) = 0
  BY FS_EmptySet DEF Shown, Said
<1>6. \A s \in Sends : WhenLF(s)
  BY <1>3, <1>5 DEF Init, WhenLF, FaithfulOf, ShowsFirst
<1>7. \A s \in Sends : HonestOf(s)
  BY <1>5 DEF Init, HonestOf
<1> QED
  BY <1>1, <1>2, <1>4, <1>6, <1>7 DEF IInv, PollHonest, TimelineFaithful, WhenLF

LEMMA InvNext == IInv /\ [Next]_vars => IInv'
<1> SUFFICES ASSUME IInv, [Next]_vars PROVE IInv'
  OBVIOUS
<1>1. TypeOK /\ \A s \in Sends : LoopOf(s) /\ StreamOf(s) /\ HonestOf(s) /\ WhenLF(s)
  BY DEF IInv, PollHonest, TimelineFaithful, WhenLF
<1>2. CASE UNCHANGED vars
  <2>1. TypeOK'
    BY <1>1, <1>2 DEF vars, polling, reading, TypeOK
  <2>2. ASSUME NEW s \in Sends PROVE LoopOf(s)' /\ StreamOf(s)' /\ HonestOf(s)' /\ WhenLF(s)'
    <3>1. StreamOf(s)' /\ Arrived(s)' = Arrived(s)
      BY <1>1, <1>2, SameStream DEF vars, reading
    <3>2. LoopOf(s)'
      BY <1>1, <1>2 DEF vars, polling, reading, LoopOf
    <3>3. HonestOf(s)'
      BY <1>1, <1>2 DEF vars, polling, HonestOf
    <3>4. WhenLF(s)'
      BY <1>1, <1>2, <3>1 DEF vars, WhenLF, FaithfulOf
    <3> QED
      BY <3>1, <3>2, <3>3, <3>4
  <2> QED
    BY <2>1, <2>2 DEF IInv, PollHonest, TimelineFaithful, WhenLF
<1>3. CASE Next
  <2>1. TypeOK'
    BY <1>1, <1>3, Steps, TypeSend, TypePoll, TypeStream DEF StreamStep
  <2>2. ASSUME NEW t \in Sends PROVE LoopOf(t)' /\ StreamOf(t)' /\ HonestOf(t)' /\ WhenLF(t)'
    <3>1. LoopOf(t)' /\ StreamOf(t)'
      BY <1>1, <1>3, LoopNext, StreamNext
    <3>2. ASSUME NEW m \in Modes, Send(m) PROVE HonestOf(t)' /\ WhenLF(t)'
      BY <1>1, <3>2, HonestSend, FaithfulSend
    <3>3. ASSUME NEW s \in Sends, PollStep(s) \/ RunMoves(s) PROVE HonestOf(t)' /\ WhenLF(t)'
      BY <1>1, <3>3, HonestPoll, FaithfulPoll
    <3>4. ASSUME NEW s \in Sends, StreamStep(s) PROVE HonestOf(t)' /\ WhenLF(t)'
      BY <1>1, <3>1, <3>4, HonestStream, FaithfulStream
    <3> QED
      BY <1>3, <3>1, <3>2, <3>3, <3>4, Steps
  <2> QED
    BY <2>1, <2>2 DEF IInv, PollHonest, TimelineFaithful, WhenLF
<1> QED
  BY <1>2, <1>3

\* In every reachable state the loops of each send are where their counters
\* say, its stream is cut where the last whole event ended, and the page tells
\* the truth of both.
THEOREM Invariance == Spec => []IInv
<1>1. Init => IInv
  BY InvInit
<1>2. IInv /\ [Next]_vars => IInv'
  BY InvNext
<1> QED
  BY <1>1, <1>2, PTL DEF Spec

\* The page reports a run's outcome once, as it is, and gives up only after
\* MaxRounds questions (the loop of ChatDebugPanel).
THEOREM Honest == Spec => []PollHonest
<1>1. IInv => PollHonest
  BY DEF IInv
<1> QED
  BY <1>1, Invariance, PTL

\* However a stream is cut into chunks, the last send shows each event that has
\* arrived whole once and in order, if lines end with LF (the split of
\* streamChat); the counterexample of run debug_crlf shows that they must.
THEOREM Faithful ==
    ASSUME LineEnds = {"lf"}
    PROVE  Spec => []TimelineFaithful
<1>1. IInv => TimelineFaithful
  BY DEF IInv, TypeOK
<1> QED
  BY <1>1, Invariance, PTL

=============================================================================
