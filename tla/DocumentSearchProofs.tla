------------------------ MODULE DocumentSearchProofs ------------------------
(***************************************************************************)
(* Proofs about DocumentSearch: for every document, query, limit and       *)
(* scores the two searches together find exactly the lines the reference   *)
(* definition names, and the limit cuts off the worst of them.             *)
(***************************************************************************)
EXTENDS DocumentSearch, FiniteSetTheorems, FunctionTheorems, SequenceTheorems, TLAPS

-----------------------------------------------------------------------------
(***************************************************************************)
(* Sorting.  The place of an element is the number of elements up to it;   *)
(* places are different and there are as many as elements.                 *)
(***************************************************************************)
StrictOrder(R, L) == /\ \A x \in L : <<x, x>> \notin R
                     /\ \A x, y, z \in L : <<x, y>> \in R /\ <<y, z>> \in R => <<x, z>> \in R
                     /\ \A x, y \in L : x # y => <<x, y>> \in R \/ <<y, x>> \in R

UpTo(R, L, x) == {y \in L : y = x \/ <<y, x>> \in R}

LEMMA Initial ==
    ASSUME NEW n \in Nat
    PROVE  IsFiniteSet(1..n) /\ Cardinality(1..n) = n
<1>1. 1 \in Int /\ n \in Int
  OBVIOUS
<1>2. IsFiniteSet(1..n) /\ Cardinality(1..n) = IF 1 > n THEN 0 ELSE n - 1 + 1
  BY <1>1, FS_Interval, Zenon
<1> QED
  BY <1>2

LEMMA Sorted ==
    ASSUME NEW L, IsFiniteSet(L), NEW R, StrictOrder(R, L)
    PROVE  \E s \in [1..Cardinality(L) -> L] :
               \A i, j \in 1..Cardinality(L) : i < j => <<s[i], s[j]>> \in R
<1> DEFINE N     == Cardinality(L)
           place == [x \in L |-> Cardinality(UpTo(R, L, x))]
<1>1. N \in Nat
  BY FS_CardinalityType
<1>2. ASSUME NEW x \in L
      PROVE  IsFiniteSet(UpTo(R, L, x)) /\ Cardinality(UpTo(R, L, x)) \in 1..N
  <2>1. UpTo(R, L, x) \in SUBSET L /\ x \in UpTo(R, L, x)
    BY DEF UpTo
  <2>2. IsFiniteSet(UpTo(R, L, x)) /\ Cardinality(UpTo(R, L, x)) <= N
    BY <2>1, FS_Subset
  <2>3. Cardinality(UpTo(R, L, x)) \in Nat /\ Cardinality(UpTo(R, L, x)) # 0
    BY <2>1, <2>2, FS_CardinalityType, FS_EmptySet
  <2> QED
    BY <1>1, <2>2, <2>3
<1>3. ASSUME NEW x \in L, NEW y \in L, <<x, y>> \in R
      PROVE  Cardinality(UpTo(R, L, x)) < Cardinality(UpTo(R, L, y))
  <2>1. UpTo(R, L, x) \in SUBSET UpTo(R, L, y)
    BY <1>3 DEF StrictOrder, UpTo
  <2>2. y \in UpTo(R, L, y) /\ y \notin UpTo(R, L, x)
    BY <1>3 DEF StrictOrder, UpTo
  <2>3. Cardinality(UpTo(R, L, x)) <= Cardinality(UpTo(R, L, y))
        /\ (Cardinality(UpTo(R, L, x)) = Cardinality(UpTo(R, L, y))
              => UpTo(R, L, x) = UpTo(R, L, y))
    BY <1>2, <2>1, FS_Subset
  <2>4. Cardinality(UpTo(R, L, x)) # Cardinality(UpTo(R, L, y))
    BY <2>2, <2>3
  <2> QED
    BY <1>1, <1>2, <2>3, <2>4
<1>4. place \in Injection(L, 1..N)
  <2>1. place \in [L -> 1..N]
    BY <1>2
  <2>2. ASSUME NEW x \in L, NEW y \in L, place[x] = place[y] PROVE x = y
    <3>1. <<x, y>> \notin R /\ <<y, x>> \notin R
      BY <1>1, <1>2, <1>3, <2>2
    <3> QED
      BY <3>1 DEF StrictOrder
  <2> QED
    BY <2>1, <2>2, Fun_IsInj
<1>5. IsFiniteSet(1..N) /\ Cardinality(1..N) = N
  BY <1>1, Initial
<1>6. place \in Surjection(L, 1..N)
  BY <1>4, <1>5, FS_Injection
<1>7. \A n \in 1..N : \E x \in L : place[x] = n
  BY <1>6 DEF Surjection
<1> DEFINE s == [n \in 1..N |-> CHOOSE x \in L : place[x] = n]
<1>8. \A n \in 1..N : s[n] \in L /\ place[s[n]] = n
  BY <1>7
<1>9. ASSUME NEW i \in 1..N, NEW j \in 1..N, i < j PROVE <<s[i], s[j]>> \in R
  <2> DEFINE x == s[i]
             y == s[j]
  <2>1. x \in L /\ y \in L /\ place[x] = i /\ place[y] = j
    BY <1>8
  <2> HIDE DEF x, y
  <2>2. x # y
    BY <1>1, <1>9, <2>1
  <2>3. <<y, x>> \notin R
    <3>1. <<y, x>> \in R => place[y] < place[x]
      BY <1>3, <2>1
    <3> QED
      BY <1>1, <1>9, <2>1, <3>1
  <2> QED
    BY <2>1, <2>2, <2>3 DEF StrictOrder, x, y
<1>10. s \in [1..N -> L]
  BY <1>8
<1> QED
  BY <1>9, <1>10

\* A sequence of Cardinality(L) different elements of L has them all.
LEMMA Covers ==
    ASSUME NEW L, IsFiniteSet(L), NEW s \in [1..Cardinality(L) -> L],
           \A i, j \in 1..Cardinality(L) : i < j => s[i] # s[j]
    PROVE  \A x \in L : \E k \in 1..Cardinality(L) : s[k] = x
<1> DEFINE N == Cardinality(L)
<1>1. N \in Nat /\ IsFiniteSet(1..N) /\ Cardinality(1..N) = N
  BY FS_CardinalityType, Initial
<1>2. \A i, j \in 1..N : s[i] = s[j] => i = j
  BY <1>1
<1>3. s \in Injection(1..N, L)
  BY <1>2, Fun_IsInj
<1>4. s \in Surjection(1..N, L)
  BY <1>1, <1>3, FS_Injection
<1> QED
  BY <1>4 DEF Surjection

\* The numbers of a finite set in ascending order.
LEMMA AscendingSorts ==
    ASSUME NEW L \in SUBSET Int, IsFiniteSet(L)
    PROVE  /\ Cardinality(L) \in Nat
           /\ Ascending(L) \in [1..Cardinality(L) -> L]
           /\ \A i, j \in 1..Cardinality(L) : i < j => Ascending(L)[i] < Ascending(L)[j]
           /\ \A x \in L : \E k \in 1..Cardinality(L) : Ascending(L)[k] = x
<1> DEFINE N == Cardinality(L)
           R == {p \in L \X L : p[1] < p[2]}
<1>1. StrictOrder(R, L)
  BY DEF StrictOrder
<1>2. PICK t \in [1..N -> L] : \A i, j \in 1..N : i < j => <<t[i], t[j]>> \in R
  BY <1>1, Sorted
<1>3. \A i, j \in DOMAIN t : i < j => t[i] < t[j]
  BY <1>2
<1> DEFINE P(s) == \A i, j \in DOMAIN s : i < j => s[i] < s[j]
<1>4. Ascending(L) = CHOOSE s \in [1..N -> L] : P(s)
  BY DEF Ascending
<1>5. P(t)
  BY <1>3
<1> HIDE DEF P
<1>6. Ascending(L) \in [1..N -> L] /\ P(Ascending(L))
  BY <1>4, <1>5
<1>7. \A i, j \in 1..N : i < j => Ascending(L)[i] < Ascending(L)[j]
  BY <1>6 DEF P
<1>8. ASSUME NEW i \in 1..N, NEW j \in 1..N, i < j
      PROVE  Ascending(L)[i] # Ascending(L)[j]
  <2>1. Ascending(L)[i] \in Int
    BY <1>6
  <2>2. Ascending(L)[i] < Ascending(L)[j]
    BY <1>7, <1>8
  <2>3. \A x \in Int : ~(x < x)
    OBVIOUS
  <2> QED
    BY <2>1, <2>2, <2>3, Zenon
<1>9. N \in Nat
  BY FS_CardinalityType
<1> QED
  BY <1>6, <1>7, <1>8, <1>9, Covers

\* Lines by descending score, and in the order of the file where scores tie.
IsRanking(L, scores, s) ==
    /\ Cardinality(L) \in Nat
    /\ s \in [1..Cardinality(L) -> L]
    /\ \A i, j \in 1..Cardinality(L) : i < j => Better(scores, s[i], s[j])
    /\ \A x \in L : \E k \in 1..Cardinality(L) : s[k] = x

LEMMA RankedSorts ==
    ASSUME NEW L \in SUBSET Int, IsFiniteSet(L), NEW scores, \A x \in L : scores[x] \in Int
    PROVE  IsRanking(L, scores, Ranked(L, scores))
<1> DEFINE N == Cardinality(L)
           R == {p \in L \X L : Better(scores, p[1], p[2])}
<1>1. StrictOrder(R, L)
  BY DEF StrictOrder, Better
<1>2. PICK t \in [1..N -> L] : \A i, j \in 1..N : i < j => <<t[i], t[j]>> \in R
  BY <1>1, Sorted
<1>3. \A i, j \in DOMAIN t : i < j => Better(scores, t[i], t[j])
  BY <1>2
<1> DEFINE P(s) == \A i, j \in DOMAIN s : i < j => Better(scores, s[i], s[j])
<1>4. Ranked(L, scores) = CHOOSE s \in [1..N -> L] : P(s)
  BY DEF Ranked
<1>5. P(t)
  BY <1>3
<1> HIDE DEF P
<1>6. Ranked(L, scores) \in [1..N -> L] /\ P(Ranked(L, scores))
  BY <1>4, <1>5
<1>7. \A i, j \in 1..N : i < j => Better(scores, Ranked(L, scores)[i], Ranked(L, scores)[j])
  BY <1>6 DEF P
<1>8. ASSUME NEW i \in 1..N, NEW j \in 1..N, i < j
      PROVE  Ranked(L, scores)[i] # Ranked(L, scores)[j]
  <2>1. Ranked(L, scores)[i] \in L
    BY <1>6
  <2>2. Better(scores, Ranked(L, scores)[i], Ranked(L, scores)[j])
    BY <1>7, <1>8
  <2>3. \A x \in L : ~Better(scores, x, x)
    BY DEF Better
  <2> QED
    BY <2>1, <2>2, <2>3, Zenon
<1>9. N \in Nat
  BY FS_CardinalityType
<1>10. \A x \in L : \E k \in 1..N : Ranked(L, scores)[k] = x
  BY <1>6, <1>8, Covers
<1> QED
  BY <1>6, <1>7, <1>9, <1>10 DEF IsRanking

LEMMA Extremes ==
    ASSUME NEW L \in SUBSET Int, IsFiniteSet(L), L # {}
    PROVE  /\ \E least \in L : \A x \in L : least <= x
           /\ \E greatest \in L : \A x \in L : x <= greatest
<1> DEFINE N == Cardinality(L)
           s == Ascending(L)
<1>1. /\ N \in Nat /\ s \in [1..N -> L]
      /\ \A i, j \in 1..N : i < j => s[i] < s[j]
      /\ \A x \in L : \E k \in 1..N : s[k] = x
  BY AscendingSorts
<1>2. N # 0
  BY FS_EmptySet
<1> HIDE DEF N, s
<1>3. \A i, j \in 1..N : i <= j => s[i] <= s[j]
  <2>1. \A i \in 1..N : s[i] \in Int
    BY <1>1
  <2> QED
    BY <1>1, <2>1
<1>4. 1 \in 1..N /\ N \in 1..N /\ s[1] \in L /\ s[N] \in L
  BY <1>1, <1>2
<1>5. ASSUME NEW x \in L PROVE s[1] <= x /\ x <= s[N]
  <2>1. PICK k \in 1..N : s[k] = x
    BY <1>1
  <2> QED
    BY <1>1, <1>3, <1>4, <2>1
<1> QED
  BY <1>4, <1>5

-----------------------------------------------------------------------------
(***************************************************************************)
(* Texts.                                                                  *)
(***************************************************************************)

\* A text has a run of a class when it has a character of it.
LEMMA RunsExist ==
    ASSUME NEW S, NEW text \in Seq(S), NEW class
    PROVE  Runs(text, class) # {} <=> \E i \in 1..Len(text) : text[i] \in class
<1>1. Len(text) \in Nat /\ DOMAIN text = 1..Len(text)
  OBVIOUS
<1>2. Runs(text, class) # {} <=> Spans(text, class) # {}
  BY DEF Runs
<1>3. ASSUME NEW span \in Spans(text, class)
      PROVE  \E i \in 1..Len(text) : text[i] \in class
  <2>1. span[1] \in 1..Len(text) /\ span[2] \in 1..Len(text) /\ span[1] <= span[2]
        /\ \A k \in span[1]..span[2] : text[k] \in class
    BY <1>1, <1>3 DEF Spans
  <2>2. span[1] \in span[1]..span[2]
    BY <2>1
  <2> QED
    BY <2>1, <2>2
<1>4. ASSUME NEW i \in 1..Len(text), text[i] \in class
      PROVE  Spans(text, class) # {}
  <2> DEFINE A == {a \in 1..i : \A k \in a..i : text[k] \in class}
             B == {b \in i..Len(text) : \A k \in i..b : text[k] \in class}
  <2>1. A \in SUBSET Int /\ B \in SUBSET Int /\ i \in A /\ i \in B
    BY <1>4
  <2>2. IsFiniteSet(A) /\ IsFiniteSet(B)
    <3>1. IsFiniteSet(1..Len(text))
      BY <1>1, Initial
    <3>2. A \in SUBSET (1..Len(text)) /\ B \in SUBSET (1..Len(text))
      BY <1>1
    <3> QED
      BY <3>1, <3>2, FS_Subset
  <2>3. PICK a \in A : \A x \in A : a <= x
    BY <2>1, <2>2, Extremes
  <2>4. PICK b \in B : \A x \in B : x <= b
    BY <2>1, <2>2, Extremes
  <2>5. /\ a \in 1..i /\ b \in i..Len(text)
        /\ \A k \in a..i : text[k] \in class
        /\ \A k \in i..b : text[k] \in class
    BY <2>3, <2>4
  <2>6. a - 1 \in 1..Len(text) => text[a - 1] \notin class
    <3>1. SUFFICES ASSUME a - 1 \in 1..Len(text), text[a - 1] \in class PROVE FALSE
      OBVIOUS
    <3>2. a - 1 \in 1..i /\ \A k \in (a - 1)..i : k = a - 1 \/ k \in a..i
      BY <2>5, <3>1
    <3>3. a - 1 \in A
      BY <2>5, <3>1, <3>2
    <3> QED
      BY <2>3, <2>5, <3>3
  <2>7. b + 1 \in 1..Len(text) => text[b + 1] \notin class
    <3>1. SUFFICES ASSUME b + 1 \in 1..Len(text), text[b + 1] \in class PROVE FALSE
      OBVIOUS
    <3>2. b + 1 \in i..Len(text) /\ \A k \in i..(b + 1) : k = b + 1 \/ k \in i..b
      BY <2>5, <3>1
    <3>3. b + 1 \in B
      BY <2>5, <3>1, <3>2
    <3> QED
      BY <2>4, <2>5, <3>3
  <2>8. \A k \in a..b : text[k] \in class
    <3>1. \A k \in a..b : k \in a..i \/ k \in i..b
      BY <2>5
    <3> QED
      BY <2>5, <3>1
  <2>9. a \in 1..Len(text) /\ b \in 1..Len(text) /\ a <= b
    BY <1>1, <2>5
  <2>10. <<a, b>> \in Spans(text, class)
    BY <1>1, <2>6, <2>7, <2>8, <2>9 DEF Spans
  <2> QED
    BY <2>10
<1> QED
  BY <1>2, <1>3, <1>4

LEMMA LoweredTyped ==
    ASSUME NEW text \in Texts
    PROVE  /\ Lowered(text) \in Texts /\ Len(Lowered(text)) = Len(text)
           /\ \A i \in 1..Len(text) : Lowered(text)[i] = Lower[text[i]]
<1>1. Len(text) \in Nat /\ DOMAIN text = 1..Len(text) /\ \A i \in 1..Len(text) : text[i] \in DOMAIN Lower
  BY DEF Texts
<1>2. Lowered(text) = [i \in 1..Len(text) |-> Lower[text[i]]]
  BY <1>1 DEF Lowered
<1>3. Lowered(text) \in [1..Len(text) -> DOMAIN Lower]
  <2>1. \A i \in 1..Len(text) : Lower[text[i]] \in DOMAIN Lower
    BY <1>1, SearchAssumption
  <2> QED
    BY <1>2, <2>1
<1>4. Lowered(text) \in Texts
  BY <1>1, <1>3 DEF Texts
<1> QED
  BY <1>1, <1>2, <1>3, <1>4

\* A blank line has no token, and a query has a word unless it is blank.
LEMMA BlankNoTokens ==
    ASSUME NEW line \in Texts, Blank(line)
    PROVE  Runs(line, AsciiAlnum) = {}
<1>1. line \in Seq(DOMAIN Lower) /\ DOMAIN line = 1..Len(line)
  BY DEF Texts
<1>2. \A i \in 1..Len(line) : line[i] \notin AsciiAlnum
  BY <1>1, SearchAssumption DEF Blank
<1> QED
  BY <1>1, <1>2, RunsExist

LEMMA WordsOfQuery ==
    ASSUME NEW query \in Texts
    PROVE  Words(query) # {} <=> ~Blank(query)
<1> DEFINE low   == Lowered(query)
           class == (DOMAIN Lower) \ Space
<1>1. /\ low \in Seq(DOMAIN Lower) /\ Len(low) = Len(query)
      /\ \A i \in 1..Len(query) : low[i] = Lower[query[i]]
  BY LoweredTyped DEF Texts
<1>2. DOMAIN query = 1..Len(query) /\ \A i \in 1..Len(query) : query[i] \in DOMAIN Lower
  BY DEF Texts
<1>3. Words(query) = Runs(low, class)
  BY DEF Words
<1> HIDE DEF low
<1>4. \A i \in 1..Len(query) : low[i] \in class <=> query[i] \notin Space
  BY <1>1, <1>2, SearchAssumption
<1> HIDE DEF class
<1>5. Runs(low, class) # {} <=> \E i \in 1..Len(low) : low[i] \in class
  BY <1>1, RunsExist
<1> QED
  BY <1>1, <1>2, <1>3, <1>4, <1>5 DEF Blank

LEMMA SharesToken ==
    ASSUME NEW line, NEW query
    PROVE  Shares(line, query) <=>
               \E t \in Runs(line, AsciiAlnum), q \in Runs(query, AsciiAlnum) : Lowered(t) = Lowered(q)
BY Zenon DEF Shares, Tokens

\* The reference definition and the two searches agree on every line.
LEMMA AnswersIff ==
    ASSUME NEW line, NEW query \in Texts
    PROVE  Answers(line, query) <=> Shares(line, query) \/ ContainsAll(line, query)
BY SharesToken, WordsOfQuery, Zenon DEF Answers, ContainsAll

-----------------------------------------------------------------------------
(***************************************************************************)
(* The two searches.                                                       *)
(***************************************************************************)
LEMMA AtMostIs ==
    ASSUME NEW S, NEW s \in Seq(S), NEW most \in Nat
    PROVE  /\ AtMost(most, s) \in Seq(S)
           /\ Len(AtMost(most, s)) = (IF most < Len(s) THEN most ELSE Len(s))
           /\ \A i \in 1..Len(AtMost(most, s)) : AtMost(most, s)[i] = s[i]
<1> DEFINE n == IF most < Len(s) THEN most ELSE Len(s)
<1>1. Len(s) \in Nat /\ n \in Nat /\ n <= Len(s)
  OBVIOUS
<1>2. AtMost(most, s) = SubSeq(s, 1, n)
  BY DEF AtMost
<1> HIDE DEF n
<1>3. /\ SubSeq(s, 1, n) \in Seq(S) /\ Len(SubSeq(s, 1, n)) = n
      /\ \A i \in 1..n : SubSeq(s, 1, n)[i] = s[i]
  BY <1>1
<1> QED
  BY <1>2, <1>3 DEF n

\* The lines with a positive score, in the order they had.
Keeps(S, lines, scores, p) ==
    /\ p \in Seq(S) /\ Len(p) \in Nat /\ Len(p) <= Len(lines)
    /\ \A n \in 1..Len(p) : scores[p[n]] > 0 /\ \E k \in 1..Len(lines) : p[n] = lines[k]
    /\ \A i, j \in 1..Len(p) : i < j =>
           \E k, m \in 1..Len(lines) : k < m /\ p[i] = lines[k] /\ p[j] = lines[m]
    /\ \A k \in 1..Len(lines) : scores[lines[k]] > 0 => \E n \in 1..Len(p) : p[n] = lines[k]

LEMMA PositiveKeeps ==
    ASSUME NEW S, NEW lines \in Seq(S), NEW scores
    PROVE  Keeps(S, lines, scores, Positive(lines, scores))
<1> DEFINE kept == {k \in DOMAIN lines : scores[lines[k]] > 0}
           at   == Ascending(kept)
           N    == Cardinality(kept)
           p    == Positive(lines, scores)
<1>1. Len(lines) \in Nat /\ DOMAIN lines = 1..Len(lines)
  OBVIOUS
<1>2. /\ kept \in SUBSET (1..Len(lines)) /\ kept \in SUBSET Int
      /\ \A k \in kept : scores[lines[k]] > 0
      /\ \A k \in 1..Len(lines) : scores[lines[k]] > 0 => k \in kept
  BY <1>1
<1>3. IsFiniteSet(kept) /\ N <= Len(lines)
  <2>1. IsFiniteSet(1..Len(lines)) /\ Cardinality(1..Len(lines)) = Len(lines)
    BY <1>1, Initial
  <2> QED
    BY <1>2, <2>1, FS_Subset
<1> HIDE DEF kept
<1>4. /\ N \in Nat /\ at \in [1..N -> kept]
      /\ \A i, j \in 1..N : i < j => at[i] < at[j]
      /\ \A x \in kept : \E k \in 1..N : at[k] = x
  BY <1>2, <1>3, AscendingSorts
<1>5. p = [n \in DOMAIN at |-> lines[at[n]]]
  BY DEF Positive, kept
<1> HIDE DEF N, at, p
<1>6. \A n \in 1..N : at[n] \in kept /\ at[n] \in 1..Len(lines) /\ lines[at[n]] \in S
  BY <1>2, <1>4
<1>7. p = [n \in 1..N |-> lines[at[n]]]
  BY <1>4, <1>5
<1>8. p \in [1..N -> S]
  BY <1>6, <1>7
<1>9. p \in Seq(S) /\ Len(p) = N /\ \A n \in 1..N : p[n] = lines[at[n]]
  BY <1>4, <1>7, <1>8
<1>10. \A n \in 1..Len(p) : scores[p[n]] > 0 /\ \E k \in 1..Len(lines) : p[n] = lines[k]
  BY <1>2, <1>6, <1>9
<1>11. ASSUME NEW i \in 1..Len(p), NEW j \in 1..Len(p), i < j
       PROVE  \E k, m \in 1..Len(lines) : k < m /\ p[i] = lines[k] /\ p[j] = lines[m]
  <2>1. at[i] \in 1..Len(lines) /\ at[j] \in 1..Len(lines) /\ at[i] < at[j]
        /\ p[i] = lines[at[i]] /\ p[j] = lines[at[j]]
    BY <1>4, <1>6, <1>9, <1>11
  <2> QED
    BY <2>1
<1>12. ASSUME NEW k \in 1..Len(lines), scores[lines[k]] > 0
       PROVE  \E n \in 1..Len(p) : p[n] = lines[k]
  <2>1. k \in kept
    BY <1>2, <1>12
  <2>2. PICK n \in 1..N : at[n] = k
    BY <1>4, <2>1
  <2> QED
    BY <1>9, <2>2
<1> QED
  <2>1. Len(p) \in Nat /\ Len(p) <= Len(lines) /\ p \in Seq(S)
    BY <1>3, <1>4, <1>9
  <2>2. Keeps(S, lines, scores, p)
    BY <1>10, <1>11, <1>12, <2>1, Zenon DEF Keeps
  <2> QED
    BY <2>2 DEF p

LEMMA Lines ==
    ASSUME NEW doc \in Seq(Texts)
    PROVE  /\ Len(doc) \in Nat /\ DOMAIN doc = 1..Len(doc)
           /\ \A i \in DOMAIN doc : doc[i] \in Texts
           /\ \A L \in SUBSET (DOMAIN doc) : L \in SUBSET Int /\ IsFiniteSet(L)
<1>1. Len(doc) \in Nat /\ DOMAIN doc = 1..Len(doc) /\ \A i \in DOMAIN doc : doc[i] \in Texts
  OBVIOUS
<1>2. IsFiniteSet(1..Len(doc))
  BY <1>1, Initial
<1>3. \A L \in SUBSET (1..Len(doc)) : IsFiniteSet(L)
  BY <1>2, FS_Subset
<1>4. \A L \in SUBSET (1..Len(doc)) : L \in SUBSET Int
  OBVIOUS
<1> QED
  BY <1>1, <1>3, <1>4

\* BM25 returns the best lines that share a token with the query, best first,
\* at most "most" of them, and nothing only when there is none.
LEMMA Bm25Is ==
    ASSUME NEW doc \in Seq(Texts), NEW query \in Texts, NEW most \in Nat \ {0},
           NEW scores \in ScoresOf(doc, query)
    PROVE  LET m == Bm25(doc, query, most, scores) IN
           /\ m \in Seq(DOMAIN doc) /\ Len(m) <= most
           /\ \A n \in 1..Len(m) : scores[m[n]] > 0
           /\ \A i, j \in 1..Len(m) : i < j => Better(scores, m[i], m[j])
           /\ \A i \in DOMAIN doc : \/ \E n \in 1..Len(m) : m[n] = i
                                    \/ \A n \in 1..Len(m) : scores[m[n]] >= scores[i]
           /\ m = <<>> => \A i \in DOMAIN doc : scores[i] = 0
<1> DEFINE m     == Bm25(doc, query, most, scores)
           L     == NonBlank(doc)
           N     == Cardinality(L)
           r     == Ranked(L, scores)
           first == AtMost(most, r)
<1>1. /\ \A i \in DOMAIN doc : scores[i] \in Nat
      /\ \A i \in DOMAIN doc : scores[i] > 0 <=> Shares(doc[i], query)
  BY SearchAssumption DEF ScoresOf
<1>2. Len(doc) \in Nat /\ DOMAIN doc = 1..Len(doc) /\ \A i \in DOMAIN doc : doc[i] \in Texts
  BY Lines
<1>3. CASE Tokens(query) = {}
  <2>1. m = <<>>
    BY <1>3 DEF Bm25
  <2>2. \A i \in DOMAIN doc : ~Shares(doc[i], query)
    BY <1>3 DEF Shares
  <2>3. \A i \in DOMAIN doc : scores[i] = 0
    BY <1>1, <2>2
  <2>4. m \in Seq(DOMAIN doc) /\ Len(m) = 0
    BY <2>1
  <2> QED
    BY <2>1, <2>3, <2>4
<1>4. CASE Tokens(query) # {}
  <2>1. L \in SUBSET (DOMAIN doc) /\ L \in SUBSET Int /\ IsFiniteSet(L)
    <3>1. L \in SUBSET (DOMAIN doc)
      BY DEF NonBlank
    <3> QED
      BY <3>1, Lines
  <2>2. \A x \in L : scores[x] \in Int
    BY <1>1, <2>1
  <2>3. /\ N \in Nat /\ r \in [1..N -> L]
        /\ \A i, j \in 1..N : i < j => Better(scores, r[i], r[j])
        /\ \A x \in L : \E k \in 1..N : r[k] = x
    <3>1. IsRanking(L, scores, r)
      BY <2>1, <2>2, RankedSorts
    <3> QED
      BY <3>1 DEF IsRanking
  <2>4. ASSUME NEW i \in DOMAIN doc, scores[i] > 0 PROVE i \in L
    <3>1. Shares(doc[i], query)
      BY <1>1, <2>4
    <3>2. Runs(doc[i], AsciiAlnum) # {}
      BY <3>1, SharesToken
    <3> QED
      BY <1>2, <3>2, BlankNoTokens DEF NonBlank
  <2> HIDE DEF L, N, r
  <2>5. r \in Seq(DOMAIN doc) /\ Len(r) = N
    <3>1. r \in Seq(L) /\ Len(r) = N
      BY <2>3
    <3> QED
      BY <2>1, <3>1
  <2> DEFINE M == IF most < N THEN most ELSE N
  <2>6. M \in Nat /\ M <= N /\ M <= most /\ (N # 0 => M # 0)
    BY <2>3
  <2>7. first \in Seq(DOMAIN doc) /\ Len(first) = M /\ \A i \in 1..M : first[i] = r[i]
    BY <2>5, AtMostIs
  <2>8. m = Positive(first, scores)
    BY <1>4 DEF Bm25, L, r
  <2> HIDE DEF M, m, first
  <2>9. /\ m \in Seq(DOMAIN doc) /\ Len(m) \in Nat /\ Len(m) <= M
        /\ \A n \in 1..Len(m) : scores[m[n]] > 0 /\ \E k \in 1..M : m[n] = first[k]
        /\ \A i, j \in 1..Len(m) : i < j =>
               \E k, l \in 1..M : k < l /\ m[i] = first[k] /\ m[j] = first[l]
        /\ \A k \in 1..M : scores[first[k]] > 0 => \E n \in 1..Len(m) : m[n] = first[k]
    <3>1. Keeps(DOMAIN doc, first, scores, m)
      BY <2>7, <2>8, PositiveKeeps
    <3> QED
      BY <2>7, <3>1 DEF Keeps
  <2>10. \A k \in 1..M : k \in 1..N /\ first[k] = r[k] /\ r[k] \in DOMAIN doc
    BY <2>1, <2>3, <2>6, <2>7
  <2>11. Len(m) <= most
    BY <2>3, <2>6, <2>9
  <2>12. \A i, j \in 1..Len(m) : i < j => Better(scores, m[i], m[j])
    <3>1. TAKE i, j \in 1..Len(m)
    <3>2. HAVE i < j
    <3>3. PICK k \in 1..M, l \in 1..M : k < l /\ m[i] = first[k] /\ m[j] = first[l]
      BY <2>9, <3>2
    <3> QED
      BY <2>3, <2>10, <3>3
  <2>13. ASSUME NEW i \in DOMAIN doc, \A n \in 1..Len(m) : m[n] # i, NEW n \in 1..Len(m)
         PROVE  scores[m[n]] >= scores[i]
    <3>1. scores[m[n]] \in Nat /\ scores[i] \in Nat /\ scores[m[n]] > 0
      BY <1>1, <2>9
    <3>2. CASE scores[i] = 0
      BY <3>1, <3>2
    <3>3. CASE scores[i] > 0
      <4>1. PICK p \in 1..N : r[p] = i
        BY <2>3, <2>4, <3>3
      <4>2. p > M
        <5>1. p \in 1..M => first[p] = i
          BY <2>10, <4>1
        <5>2. p \notin 1..M
          BY <2>9, <2>13, <3>3, <5>1
        <5> QED
          BY <2>3, <2>6, <5>2
      <4>3. PICK k \in 1..M : m[n] = first[k]
        BY <2>9
      <4>4. k \in 1..N /\ k < p /\ m[n] = r[k]
        BY <2>3, <2>6, <2>10, <4>2, <4>3
      <4>5. Better(scores, m[n], i)
        BY <2>3, <4>1, <4>4
      <4> QED
        BY <3>1, <4>5 DEF Better
    <3> QED
      BY <3>1, <3>2, <3>3
  <2>14. ASSUME m = <<>>, NEW i \in DOMAIN doc PROVE scores[i] = 0
    <3>1. SUFFICES ASSUME scores[i] > 0 PROVE FALSE
      BY <1>1
    <3>2. PICK p \in 1..N : r[p] = i
      BY <2>3, <2>4, <3>1
    <3>3. 1 \in 1..M /\ first[1] = r[1] /\ r[1] \in DOMAIN doc /\ 1 \in 1..N
      BY <2>3, <2>6, <2>10, <3>2
    <3>4. scores[r[1]] > 0
      <4>1. CASE p = 1
        BY <3>1, <3>2, <4>1
      <4>2. CASE p # 1
        <5>1. Better(scores, r[1], i)
          BY <2>3, <3>2, <3>3, <4>2
        <5> QED
          BY <1>1, <3>1, <3>3, <5>1 DEF Better
      <4> QED
        BY <4>1, <4>2
    <3>5. Len(m) = 0
      BY <2>14
    <3> QED
      BY <2>9, <3>3, <3>4, <3>5
  <2> QED
    BY <2>9, <2>11, <2>12, <2>13, <2>14 DEF m
<1> QED
  BY <1>3, <1>4

\* The substring search returns the first lines with every word of the query,
\* at most "most" of them, and nothing only when there is none.
LEMMA LegacyIs ==
    ASSUME NEW doc \in Seq(Texts), NEW query, NEW most \in Nat \ {0}
    PROVE  LET m == Legacy(doc, query, most) IN
           /\ m \in Seq(DOMAIN doc) /\ Len(m) <= most
           /\ \A i, j \in 1..Len(m) : i < j => m[i] < m[j]
           /\ \A n \in 1..Len(m) : ContainsAll(doc[m[n]], query)
           /\ m = <<>> => \A i \in DOMAIN doc : ~ContainsAll(doc[i], query)
<1> DEFINE L  == {i \in DOMAIN doc : ContainsAll(doc[i], query)}
           N  == Cardinality(L)
           at == Ascending(L)
           m  == Legacy(doc, query, most)
<1>1. L \in SUBSET (DOMAIN doc) /\ L \in SUBSET Int /\ IsFiniteSet(L)
  <2>1. L \in SUBSET (DOMAIN doc)
    OBVIOUS
  <2> QED
    BY <2>1, Lines
<1>2. /\ \A i \in L : ContainsAll(doc[i], query)
      /\ \A i \in DOMAIN doc : ContainsAll(doc[i], query) => i \in L
  OBVIOUS
<1>3. m = AtMost(most, at)
  BY DEF Legacy
<1> HIDE DEF L, m
<1>4. /\ N \in Nat /\ at \in [1..N -> L]
      /\ \A i, j \in 1..N : i < j => at[i] < at[j]
      /\ \A x \in L : \E k \in 1..N : at[k] = x
  BY <1>1, AscendingSorts
<1> HIDE DEF N, at
<1>5. at \in Seq(L) /\ Len(at) = N
  BY <1>4
<1> DEFINE M == IF most < N THEN most ELSE N
<1>6. M \in Nat /\ M <= N /\ M <= most /\ (N # 0 => M # 0)
  BY <1>4
<1>7. m \in Seq(L) /\ Len(m) = M /\ \A i \in 1..M : m[i] = at[i]
  BY <1>3, <1>5, AtMostIs
<1> HIDE DEF M
<1>8. m \in Seq(DOMAIN doc) /\ Len(m) <= most
  BY <1>1, <1>6, <1>7
<1>9. \A i, j \in 1..Len(m) : i < j => m[i] < m[j]
  BY <1>4, <1>6, <1>7
<1>10. \A n \in 1..Len(m) : ContainsAll(doc[m[n]], query)
  BY <1>2, <1>7
<1>11. ASSUME m = <<>>, NEW i \in DOMAIN doc PROVE ~ContainsAll(doc[i], query)
  <2>1. M = 0
    BY <1>7, <1>11
  <2>2. \A x \in L : FALSE
    BY <1>4, <1>6, <2>1
  <2> QED
    BY <1>2, <2>2
<1> QED
  BY <1>8, <1>9, <1>10, <1>11 DEF m

\* What the two searches together return.
IsResult(doc, query, most, scores, m) ==
    /\ m \in Seq(DOMAIN doc) /\ Len(m) <= most
    /\ \A i, j \in 1..Len(m) : i < j => m[i] # m[j]
    /\ \A n \in 1..Len(m) : Answers(doc[m[n]], query)
    /\ m = <<>> => \A i \in DOMAIN doc : ~Answers(doc[i], query)
    /\ \A i \in DOMAIN doc : \/ \E n \in 1..Len(m) : m[n] = i
                             \/ \A n \in 1..Len(m) : scores[m[n]] >= scores[i]
    /\ m # <<>> => \A i \in DOMAIN doc : scores[m[1]] >= scores[i]
    /\ \/ \A n \in 1..Len(m) : scores[m[n]] > 0
       \/ \A i \in DOMAIN doc : scores[i] = 0

\* The search finds the lines the reference definition names, best first.
LEMMA SearchIs ==
    ASSUME NEW doc \in Seq(Texts), NEW query \in Texts, NEW most \in Nat \ {0},
           NEW scores \in ScoresOf(doc, query)
    PROVE  IsResult(doc, query, most, scores, Search(doc, query, most, scores))
<1> DEFINE ranked == Bm25(doc, query, most, scores)
           plain  == Legacy(doc, query, most)
           m      == Search(doc, query, most, scores)
<1>1. /\ \A i \in DOMAIN doc : scores[i] \in Nat
      /\ \A i \in DOMAIN doc : scores[i] > 0 <=> Shares(doc[i], query)
  BY SearchAssumption DEF ScoresOf
<1>2. /\ ranked \in Seq(DOMAIN doc) /\ Len(ranked) <= most
      /\ \A n \in 1..Len(ranked) : scores[ranked[n]] > 0
      /\ \A i, j \in 1..Len(ranked) : i < j => Better(scores, ranked[i], ranked[j])
      /\ \A i \in DOMAIN doc : \/ \E n \in 1..Len(ranked) : ranked[n] = i
                               \/ \A n \in 1..Len(ranked) : scores[ranked[n]] >= scores[i]
      /\ ranked = <<>> => \A i \in DOMAIN doc : scores[i] = 0
  BY Bm25Is
<1>3. /\ plain \in Seq(DOMAIN doc) /\ Len(plain) <= most
      /\ \A i, j \in 1..Len(plain) : i < j => plain[i] < plain[j]
      /\ \A n \in 1..Len(plain) : ContainsAll(doc[plain[n]], query)
      /\ plain = <<>> => \A i \in DOMAIN doc : ~ContainsAll(doc[i], query)
  BY LegacyIs
<1>4. \A i \in DOMAIN doc :
          Answers(doc[i], query) <=> Shares(doc[i], query) \/ ContainsAll(doc[i], query)
  BY AnswersIff
<1>5. m = IF ranked # <<>> THEN ranked ELSE plain
  BY DEF Search
<1> HIDE DEF ranked, plain, m
<1>6. DOMAIN doc \in SUBSET Int
  BY Lines
<1>7. CASE ranked # <<>>
  <2>1. m = ranked
    BY <1>5, <1>7
  <2>2. \A n \in 1..Len(ranked) : ranked[n] \in DOMAIN doc /\ ranked[n] \in Int
                                  /\ scores[ranked[n]] \in Nat
    BY <1>1, <1>2, <1>6
  <2>3. \A i, j \in 1..Len(ranked) : i < j => ranked[i] # ranked[j]
    <3>1. \A n \in 1..Len(ranked) : ~Better(scores, ranked[n], ranked[n])
      BY <2>2 DEF Better
    <3> QED
      BY <1>2, <3>1
  <2>4. \A n \in 1..Len(ranked) : Answers(doc[ranked[n]], query)
    BY <1>1, <1>2, <1>4, <2>2
  <2>5. 1 \in 1..Len(ranked)
    BY <1>2, <1>7
  <2>6. ASSUME NEW i \in DOMAIN doc PROVE scores[ranked[1]] >= scores[i]
    <3>1. CASE \A n \in 1..Len(ranked) : scores[ranked[n]] >= scores[i]
      BY <2>5, <3>1
    <3>2. CASE \E n \in 1..Len(ranked) : ranked[n] = i
      <4>1. PICK n \in 1..Len(ranked) : ranked[n] = i
        BY <3>2
      <4>2. CASE n = 1
        BY <2>2, <2>5, <4>1, <4>2
      <4>3. CASE n # 1
        <5>1. Better(scores, ranked[1], ranked[n])
          BY <1>2, <2>5, <4>3
        <5> QED
          BY <2>2, <2>5, <4>1, <5>1 DEF Better
      <4> QED
        BY <4>2, <4>3
    <3> QED
      BY <1>2, <3>1, <3>2
  <2> QED
    BY <1>2, <1>7, <2>1, <2>3, <2>4, <2>6 DEF IsResult, m
<1>8. CASE ranked = <<>>
  <2>1. m = plain /\ \A i \in DOMAIN doc : scores[i] = 0
    BY <1>2, <1>5, <1>8
  <2>2. \A n \in 1..Len(plain) : plain[n] \in DOMAIN doc /\ plain[n] \in Int
                                 /\ scores[plain[n]] = 0
    BY <1>3, <1>6, <2>1
  <2>3. \A i, j \in 1..Len(plain) : i < j => plain[i] # plain[j]
    BY <1>3, <2>2
  <2>4. \A n \in 1..Len(plain) : Answers(doc[plain[n]], query)
    BY <1>3, <1>4, <2>2
  <2>5. plain = <<>> => \A i \in DOMAIN doc : ~Answers(doc[i], query)
    BY <1>1, <1>3, <1>4, <2>1
  <2>6. plain # <<>> => 1 \in 1..Len(plain)
    BY <1>3
  <2>7. \A i \in DOMAIN doc, n \in 1..Len(plain) : scores[plain[n]] >= scores[i]
    BY <2>1, <2>2
  <2> QED
    BY <1>3, <2>1, <2>3, <2>4, <2>5, <2>6, <2>7 DEF IsResult, m
<1> QED
  BY <1>7, <1>8 DEF m

-----------------------------------------------------------------------------
(***************************************************************************)
(* The invariant.                                                          *)
(***************************************************************************)
LEMMA InvInit == Init => IInv
BY Zenon DEF Init, IInv, Answered

\* Parsing and validation end the run without matches or go on; the search
\* stores what it found, and the classification looks at the matches only.
LEMMA InvNext == IInv /\ [Next]_vars => IInv'
<1> SUFFICES ASSUME IInv, [Next]_vars PROVE IInv'
  OBVIOUS
<1>1. CASE Parse
  BY <1>1 DEF IInv, Answered, Parse, Finish
<1>2. CASE Invoke
  BY <1>2 DEF IInv, Answered, Invoke, Finish
<1>3. CASE Execute
  <2>1. /\ pc = "search" /\ pc' = "classify" /\ outcome = "none" /\ outcome' = "none"
        /\ reply' = reply /\ document' = document
    BY <1>3 DEF IInv, Execute
  <2>2. CASE document = NoFile
    BY <1>3, <2>1, <2>2 DEF IInv, Answered, Execute
  <2>3. CASE document # NoFile
    <3>1. /\ score' \in ScoresOf(document, reply.args.query)
          /\ matches' = Search(document, reply.args.query, reply.args.max_results, score')
      BY <1>3, <2>3 DEF Execute
    <3> QED
      BY <2>1, <2>3, <3>1 DEF IInv, Answered
  <2> QED
    BY <2>2, <2>3
<1>4. CASE Classify
  BY <1>4 DEF IInv, Answered, Classify, Finish
<1>5. CASE UNCHANGED vars
  BY <1>5 DEF vars, IInv, Answered
<1> QED
  BY <1>1, <1>2, <1>3, <1>4, <1>5 DEF Next

\* In every state the result is the one the two searches compute for the
\* validated arguments, or there is none (the handlers between
\* _try_parse_tool_call and _fast_tool_answer).
THEOREM Invariance == Spec => []IInv
<1> QED
  BY InvInit, InvNext, PTL DEF Spec

\* The result of the search in a state, whose arguments were validated.
LEMMA ResultOfState ==
    ASSUME IInv, Answered, document # NoFile
    PROVE  /\ document \in Seq(Texts)
           /\ DOMAIN score = DOMAIN document
           /\ \A i \in DOMAIN document : score[i] \in Nat
           /\ IsResult(document, reply.args.query, reply.args.max_results, score, matches)
<1>1. reply \in Replies /\ reply.args.object /\ reply.args.max_results \in 1..MaxMatches
  BY DEF IInv, ValidArgs
<1>2. reply.args.query \in Texts /\ reply.args.max_results \in Nat \ {0}
  BY <1>1, SearchAssumption
<1>3. document \in Seq(Texts)
  BY SearchAssumption DEF IInv
<1>4. /\ score \in ScoresOf(document, reply.args.query)
      /\ matches = Search(document, reply.args.query, reply.args.max_results, score)
  BY DEF IInv
<1>5. DOMAIN score = DOMAIN document /\ \A i \in DOMAIN document : score[i] \in Nat
  BY <1>4, SearchAssumption DEF ScoresOf
<1> QED
  BY <1>2, <1>3, <1>4, <1>5, SearchIs

\* As many different matches as matches.
LEMMA Distinct ==
    ASSUME NEW S, NEW m \in Seq(S), \A i, j \in 1..Len(m) : i < j => m[i] # m[j]
    PROVE  Cardinality({m[k] : k \in DOMAIN m}) = Len(m)
<1> DEFINE R == {m[k] : k \in DOMAIN m}
<1>1. Len(m) \in Nat /\ DOMAIN m = 1..Len(m)
  OBVIOUS
<1>2. m \in [1..Len(m) -> R]
  BY <1>1
<1>3. \A i, j \in 1..Len(m) : m[i] = m[j] => i = j
  BY <1>1
<1>4. m \in Injection(1..Len(m), R)
  BY <1>2, <1>3, Fun_IsInj
<1>5. m \in Surjection(1..Len(m), R)
  BY <1>1, <1>2 DEF Surjection
<1>6. m \in Bijection(1..Len(m), R)
  BY <1>4, <1>5 DEF Bijection
<1>7. IsFiniteSet(1..Len(m)) /\ Cardinality(1..Len(m)) = Len(m)
  BY <1>1, Initial
<1> HIDE DEF R
<1>8. ExistsBijection(1..Len(m), R)
  BY <1>6 DEF ExistsBijection
<1>9. Cardinality(R) = Cardinality(1..Len(m))
  BY <1>7, <1>8, FS_Bijection
<1> QED
  BY <1>7, <1>9 DEF R

LEMMA InvEvidence == IInv => EvidenceIsReal
<1> SUFFICES ASSUME IInv PROVE EvidenceIsReal
  OBVIOUS
<1> DEFINE query == reply.args.query
           most  == reply.args.max_results
<1>1. /\ matches # <<>> => Answered /\ document # NoFile
      /\ outcome = "snippet" => matches # <<>>
      /\ outcome = "empty" => Answered /\ matches = <<>>
  BY DEF IInv, Answered
<1>2. CASE Answered /\ document # NoFile
  <2>1. IsResult(document, query, most, score, matches)
    BY <1>2, ResultOfState
  <2> HIDE DEF query, most
  <2>2. /\ matches \in Seq(DOMAIN document) /\ Len(matches) <= most
        /\ \A i, j \in 1..Len(matches) : i < j => matches[i] # matches[j]
        /\ \A n \in 1..Len(matches) : Answers(document[matches[n]], query)
        /\ matches = <<>> => \A i \in DOMAIN document : ~Answers(document[i], query)
    BY <2>1 DEF IsResult
  <2>3. /\ DOMAIN matches = 1..Len(matches)
        /\ \A n \in 1..Len(matches) : matches[n] \in DOMAIN document
        /\ matches # <<>> => 1 \in 1..Len(matches)
    BY <2>2
  <2>4. Cardinality(MatchSet) = Len(matches)
    BY <2>2, Distinct DEF MatchSet
  <2>5. \A i \in MatchSet : Answers(document[i], query)
    BY <2>2, <2>3 DEF MatchSet
  <2>6. matches # <<>> => \E i \in DOMAIN document : Answers(document[i], query)
    BY <2>2, <2>3
  <2> QED
    BY <1>1, <1>2, <2>2, <2>4, <2>5, <2>6 DEF EvidenceIsReal, query, most
<1>3. CASE ~(Answered /\ document # NoFile)
  <2>1. matches = <<>> /\ outcome # "snippet" /\ (outcome = "empty" => document = NoFile)
    BY <1>1, <1>3
  <2> QED
    BY <2>1, Zenon DEF EvidenceIsReal
<1> QED
  BY <1>2, <1>3

LEMMA InvBest == IInv => BestFirst
<1> SUFFICES ASSUME IInv, matches # <<>> PROVE BestFirst
  BY DEF BestFirst
<1>1. Answered /\ document # NoFile
  BY DEF IInv
<1>2. /\ DOMAIN score = DOMAIN document
      /\ IsResult(document, reply.args.query, reply.args.max_results, score, matches)
  BY <1>1, ResultOfState
<1>3. /\ matches \in Seq(DOMAIN document)
      /\ \A i \in DOMAIN document :
             \/ \E n \in 1..Len(matches) : matches[n] = i
             \/ \A n \in 1..Len(matches) : score[matches[n]] >= score[i]
      /\ \A i \in DOMAIN document : score[matches[1]] >= score[i]
      /\ \/ \A n \in 1..Len(matches) : score[matches[n]] > 0
         \/ \A i \in DOMAIN document : score[i] = 0
  BY <1>2 DEF IsResult
<1>4. DOMAIN matches = 1..Len(matches)
  BY <1>3
<1>5. \A i \in DOMAIN score \ MatchSet, k \in MatchSet : score[k] >= score[i]
  BY <1>2, <1>3, <1>4 DEF MatchSet
<1>6. (\A k \in MatchSet : score[k] > 0) \/ (\A i \in DOMAIN score : score[i] = 0)
  BY <1>2, <1>3, <1>4 DEF MatchSet
<1> QED
  BY <1>2, <1>3, <1>5, <1>6 DEF BestFirst

\* The agent gets a snippet exactly when a line of doc.md answers the query and
\* reports a gap otherwise; every match answers the query, none twice, no more
\* than were asked for (BM25 first, then the substring search).
THEOREM Evidence == Spec => []EvidenceIsReal
<1> QED
  BY Invariance, InvEvidence, PTL

\* The limit of the search cuts off the worst lines and the first match is the
\* best (the sort and the slice in bm25_search).
THEOREM Best == Spec => []BestFirst
<1> QED
  BY Invariance, InvBest, PTL

=============================================================================
