--------------------------- MODULE MaskingProofs ---------------------------
(***************************************************************************)
(* What the engine masks and what the detector finds.  Masking is a        *)
(* function of scope and text, however the requests of several workers     *)
(* interleave, and every row it stores is a placeholder that unmask finds  *)
(* again as a whole.  Overlap resolution is correct for every text length, *)
(* every number of sources and every set of hits.                          *)
(***************************************************************************)
EXTENDS MaskEngine, Detector, HoldBackProofs

(* Numbers of two digits are compared by their first digit.                *)
LEMMA FirstDigit ==
    ASSUME NEW M \in Nat, NEW x \in Nat, NEW y \in Nat, x < y,
           NEW u \in Nat, u < M, NEW v \in Nat
    PROVE  x * M + u < y * M + v
<1>1. (x + 1) * M <= y * M
    <2>1. PICK d \in Nat : y = x + 1 + d
        <3>1. y - x - 1 \in Nat /\ y = x + 1 + (y - x - 1)
            OBVIOUS
        <3> QED
            BY <3>1
    <2>2. y * M = (x + 1) * M + d * M
        BY <2>1
    <2>3. d * M \in Nat /\ (x + 1) * M \in Nat
        BY <2>1
    <2> QED
        BY <2>2, <2>3
<1>2. (x + 1) * M = x * M + M
    OBVIOUS
<1>3. x * M \in Nat /\ y * M \in Nat
    OBVIOUS
<1> QED
    BY <1>1, <1>2, <1>3

(* Spans of a text of length L from the sources 0..S, and the place of one *)
(* in the order of the sort as a number.                                   *)
InText(s, L, S) ==
    /\ s.start \in 0..L /\ s.end \in 0..L /\ s.start <= s.end
    /\ s.source \in 0..S

Rank(s, L, S) == ((L - Size(s)) * (L + 1) + s.start) * (S + 1) + s.source

LEMMA RankOrders ==
    ASSUME NEW L \in Nat, NEW S \in Nat, NEW a, NEW b, InText(a, L, S), InText(b, L, S)
    PROVE  /\ Rank(a, L, S) \in Nat
           /\ Precedes(a, b) => Rank(a, L, S) < Rank(b, L, S)
<1> DEFINE High(s) == (L - Size(s)) * (L + 1) + s.start
<1>1. ASSUME NEW s, InText(s, L, S)
      PROVE  /\ L - Size(s) \in Nat /\ Size(s) \in Int
             /\ s.start \in Nat /\ s.start < L + 1 /\ s.source \in Nat /\ s.source < S + 1
    BY <1>1 DEF InText, Size
<1>2. ASSUME NEW s, InText(s, L, S) PROVE High(s) \in Nat
    <2>1. L - Size(s) \in Nat /\ L + 1 \in Nat /\ s.start \in Nat
        BY <1>1, <1>2
    <2>2. (L - Size(s)) * (L + 1) \in Nat
        BY <2>1
    <2> QED
        BY <2>1, <2>2
<1>3. ASSUME Size(a) > Size(b) \/ (Size(a) = Size(b) /\ a.start < b.start)
      PROVE  High(a) < High(b)
    <2>1. CASE Size(a) > Size(b)
        <3>1. L - Size(a) < L - Size(b)
            BY <1>1, <2>1
        <3> QED
            BY <1>1, <3>1, FirstDigit
    <2>2. CASE Size(a) = Size(b) /\ a.start < b.start
        <3> DEFINE h == (L - Size(a)) * (L + 1)
        <3>1. h \in Nat
            <4>1. L - Size(a) \in Nat
                BY <1>1
            <4> QED
                BY <4>1
        <3>2. High(a) = h + a.start /\ High(b) = h + b.start
            BY <2>2
        <3> HIDE DEF h, High
        <3> QED
            BY <1>1, <2>2, <3>1, <3>2
    <2> QED
        BY <1>3, <2>1, <2>2
<1>4. Rank(a, L, S) = High(a) * (S + 1) + a.source /\ Rank(b, L, S) = High(b) * (S + 1) + b.source
    BY DEF Rank
<1>5. High(a) \in Nat /\ High(b) \in Nat
    BY <1>2
<1>6. ASSUME Size(a) = Size(b), a.start = b.start PROVE High(a) = High(b)
    BY <1>6
<1> HIDE DEF High
<1>7. Rank(a, L, S) \in Nat
    <2>1. High(a) * (S + 1) \in Nat
        BY <1>5
    <2> QED
        BY <1>1, <1>4, <2>1
<1>8. ASSUME Precedes(a, b) PROVE Rank(a, L, S) < Rank(b, L, S)
    <2>1. CASE High(a) < High(b)
        BY <1>1, <1>4, <1>5, <2>1, FirstDigit
    <2>2. CASE Size(a) = Size(b) /\ a.start = b.start /\ a.source < b.source
        <3> DEFINE h == High(a) * (S + 1)
        <3>1. h \in Nat /\ Rank(a, L, S) = h + a.source /\ Rank(b, L, S) = h + b.source
            BY <1>4, <1>5, <1>6, <2>2
        <3> HIDE DEF h
        <3> QED
            BY <1>1, <2>2, <3>1
    <2>3. CASE Size(a) > Size(b) \/ (Size(a) = Size(b) /\ a.start < b.start)
        BY <1>3, <2>1, <2>3
    <2> QED
        BY <1>8, <2>2, <2>3 DEF Precedes
<1> QED
    BY <1>7, <1>8

(* There is a longest-then-leftmost resolution.                            *)
LEMMA ResolutionExists ==
    ASSUME NEW L \in Nat, NEW S \in Nat, NEW C, \A c \in C : InText(c, L, S)
    PROVE  \E K \in SUBSET C : IsResolution(K, C)
<1> DEFINE Before(n) == {c \in C : Rank(c, L, S) < n}
           T == {n \in Nat : \E K \in SUBSET C : IsResolution(K, Before(n))}
<1>1. ASSUME NEW a \in C, NEW b \in C
      PROVE  /\ Rank(a, L, S) \in Nat
             /\ Precedes(a, b) => Rank(a, L, S) < Rank(b, L, S)
    BY RankOrders
<1>2. 0 \in T
    <2>1. Before(0) = {}
        BY <1>1
    <2>2. IsResolution({}, Before(0))
        BY <2>1 DEF IsResolution
    <2> HIDE DEF Before
    <2> QED
        BY <2>2
<1>3. ASSUME NEW n \in Nat, n \in T PROVE n + 1 \in T
    <2>1. PICK K \in SUBSET C : IsResolution(K, Before(n))
        BY <1>3
    <2> DEFINE Met(c) == \E k \in K : Precedes(k, c) /\ Overlaps(k, c)
               More == {c \in C : Rank(c, L, S) = n /\ ~Met(c)}
    <2>2. K \subseteq Before(n) /\ \A c \in Before(n) : c \in K <=> ~Met(c)
        BY <2>1 DEF IsResolution
    <2>3. Before(n + 1) = Before(n) \cup {c \in C : Rank(c, L, S) = n}
        BY <1>1
    <2>4. ASSUME NEW c \in Before(n + 1), NEW k \in More PROVE ~Precedes(k, c)
        BY <1>1, <2>4
    <2>5. K \cup More \subseteq Before(n + 1)
        BY <2>2, <2>3
    <2>6. ASSUME NEW c \in Before(n + 1)
          PROVE  c \in K \cup More <=> ~\E k \in K \cup More : Precedes(k, c) /\ Overlaps(k, c)
        <3>1. (\E k \in K \cup More : Precedes(k, c) /\ Overlaps(k, c)) <=> Met(c)
            BY <2>4
        <3>2. CASE c \in Before(n)
            <4>1. c \notin More
                BY <1>1, <3>2
            <4> QED
                BY <2>2, <3>1, <3>2, <4>1
        <3>3. CASE c \in C /\ Rank(c, L, S) = n
            <4>1. c \notin K
                BY <1>1, <2>2, <3>3
            <4>2. c \in More <=> ~Met(c)
                BY <3>3
            <4> QED
                BY <3>1, <4>1, <4>2
        <3> QED
            BY <2>3, <3>2, <3>3
    <2>7. IsResolution(K \cup More, Before(n + 1))
        BY <2>5, <2>6 DEF IsResolution
    <2>8. K \cup More \in SUBSET C
        OBVIOUS
    <2> HIDE DEF Before, More
    <2> QED
        BY <2>7, <2>8
<1>4. \A n \in Nat : n \in T
    <2> HIDE DEF T
    <2> QED
        BY <1>2, <1>3, NatSetInduction
<1> DEFINE top == (L * (L + 1) + L + 1) * (S + 1)
<1>5. top \in Nat /\ \A c \in C : Rank(c, L, S) < top
    <2>1. L * (L + 1) + L + 1 \in Nat
        <3>1. L * (L + 1) \in Nat
            OBVIOUS
        <3> QED
            BY <3>1
    <2>2. top \in Nat
        BY <2>1
    <2>3. ASSUME NEW c \in C PROVE Rank(c, L, S) < top
        <3> DEFINE high == (L - Size(c)) * (L + 1) + c.start
                   y == L * (L + 1) + L + 1
        <3>1. L - Size(c) \in 0..L /\ c.start \in 0..L /\ c.source \in 0..S
            BY DEF InText, Size
        <3>2. (L - Size(c)) * (L + 1) \in Nat /\ L * (L + 1) \in Nat
              /\ (L - Size(c)) * (L + 1) <= L * (L + 1)
            <4>1. CASE L - Size(c) = L
                BY <3>1, <4>1
            <4>2. CASE L - Size(c) < L
                <5>1. (L - Size(c)) * (L + 1) + 0 < L * (L + 1) + 0
                    BY <3>1, <4>2, FirstDigit
                <5>2. L - Size(c) \in Nat /\ L + 1 \in Nat
                    BY <3>1
                <5>3. (L - Size(c)) * (L + 1) \in Nat /\ L * (L + 1) \in Nat
                    BY <5>2
                <5> QED
                    BY <5>1, <5>3
            <4> QED
                BY <3>1, <4>1, <4>2
        <3>3. high \in Nat /\ y \in Nat /\ high < y
            BY <3>1, <3>2
        <3> HIDE DEF high, y
        <3>4. high * (S + 1) + c.source < y * (S + 1) + 0
            BY <3>1, <3>3, FirstDigit
        <3>5. y * (S + 1) \in Nat
            BY <3>3
        <3>6. Rank(c, L, S) = high * (S + 1) + c.source /\ top = y * (S + 1)
            BY DEF Rank, high, y
        <3> HIDE DEF top
        <3> QED
            BY <3>4, <3>5, <3>6
    <2> QED
        BY <2>2, <2>3
<1>6. Before(top) = C
    <2> HIDE DEF top
    <2> QED
        BY <1>5
<1>7. top \in T
    <2> HIDE DEF top, T
    <2> QED
        BY <1>4, <1>5
<1> HIDE DEF top, Before
<1> QED
    BY <1>6, <1>7

-----------------------------------------------------------------------------

Sourced == Len(Patterns) + 1

LEMMA FoldLength ==
    ASSUME NEW text, IsText(text)
    PROVE  Len(FoldText(text)) = Len(text) /\ \E S : FoldText(text) \in Seq(S)
<1>1. Len(text) \in Nat
    BY DEF IsText
<1> DEFINE f == [i \in 1..Len(text) |-> Fold(text[i])]
           S == Range(f)
<1>2. \A i \in 1..Len(text) : f[i] \in S
    BY DEF Range
<1> HIDE DEF S
<1>3. f \in Seq(S)
    BY <1>1, <1>2
<1> QED
    BY <1>1, <1>3 DEF FoldText

LEMMA KeyIsText ==
    ASSUME NEW w \in Words
    PROVE  \E S : KeyOf(w) \in Seq(S)
<1>1. IsText(w.word)
    BY WordsAssumption
<1> QED
    BY <1>1, FoldLength DEF KeyOf, IsText

(* A span is a record of a range of the text that is not empty.            *)
IsSpan(c, text) ==
    /\ InText(c, Len(text), Sourced) /\ c.start < c.end
    /\ c = [start |-> c.start, end |-> c.end, term |-> c.term, source |-> c.source]

(* A dictionary hit lies inside the text and carries its term.             *)
LEMMA DictionarySpansIn ==
    ASSUME NEW text, IsText(text), NEW c \in DictionarySpans(text)
    PROVE  /\ IsSpan(c, text)
           /\ \E w \in Words :
                 /\ c.term = w.word
                 /\ c.source = IF w.cs THEN 1 ELSE 0
                 /\ Len(KeyOf(w)) = c.end - c.start
                 /\ LiteralAt(IF w.cs THEN text ELSE FoldText(text), c.start + 1, KeyOf(w))
<1>1. Len(text) \in Nat /\ Len(FoldText(text)) = Len(text) /\ Len(Patterns) \in Nat
    BY FoldLength, PatternAssumption DEF IsText
<1>2. PICK p \in (1..Len(text)) \X Words :
          /\ c = Span(p[1], p[1] + Len(p[2].word) - 1, p[2].word, IF p[2].cs THEN 1 ELSE 0)
          /\ LiteralAt(IF p[2].cs THEN text ELSE FoldText(text), p[1], KeyOf(p[2]))
    BY DEF DictionarySpans
<1> DEFINE i == p[1]
           w == p[2]
           k == IF w.cs THEN 1 ELSE 0
           v == IF w.cs THEN text ELSE FoldText(text)
<1>3. i \in 1..Len(text) /\ w \in Words
    BY <1>2
<1>4. IsText(w.word) /\ Len(w.word) \in Nat \ {0} /\ Len(KeyOf(w)) = Len(w.word)
    <2>1. IsText(w.word) /\ w.word # <<>>
        BY <1>3, WordsAssumption
    <2>2. Len(w.word) \in Nat \ {0}
        BY <2>1, EmptySeq DEF IsText
    <2>3. Len(FoldText(w.word)) = Len(w.word)
        BY <2>1, FoldLength
    <2> QED
        BY <2>1, <2>2, <2>3 DEF KeyOf
<1>5. LiteralAt(v, i, KeyOf(w)) /\ Len(v) = Len(text)
    BY <1>1, <1>2
<1>6. i + Len(w.word) - 1 <= Len(text)
    BY <1>4, <1>5 DEF LiteralAt
<1>7. k \in 0..1
    OBVIOUS
<1>8. c = [start |-> i - 1, end |-> i + Len(w.word) - 1, term |-> w.word, source |-> k]
    BY <1>2 DEF Span
<1> HIDE DEF i, w, k, v
<1>9. c.start = i - 1 /\ c.end = i + Len(w.word) - 1 /\ c.term = w.word /\ c.source = k
    BY <1>8
<1>10. IsSpan(c, text)
    <2>1. InText(c, Len(text), Sourced) /\ c.start < c.end
        BY <1>1, <1>3, <1>4, <1>6, <1>7, <1>9, SMTT(60) DEF InText, Sourced
    <2> QED
        BY <1>8, <1>9, <2>1 DEF IsSpan
<1>11. Len(KeyOf(w)) = c.end - c.start /\ c.start + 1 = i
    BY <1>3, <1>4, <1>9
<1> QED
    BY <1>3, <1>5, <1>9, <1>10, <1>11 DEF k, v

(* Two dictionary hits with one range and one source are one.              *)
LEMMA DictionaryHitsDiffer ==
    ASSUME NEW text, IsText(text), NEW a \in DictionarySpans(text),
           NEW b \in DictionarySpans(text), a.start = b.start, a.end = b.end,
           a.source = b.source
    PROVE  a = b
<1>1. PICK w \in Words :
          /\ a.term = w.word
          /\ a.source = IF w.cs THEN 1 ELSE 0
          /\ Len(KeyOf(w)) = a.end - a.start
          /\ LiteralAt(IF w.cs THEN text ELSE FoldText(text), a.start + 1, KeyOf(w))
    BY DictionarySpansIn
<1>2. PICK x \in Words :
          /\ b.term = x.word
          /\ b.source = IF x.cs THEN 1 ELSE 0
          /\ Len(KeyOf(x)) = b.end - b.start
          /\ LiteralAt(IF x.cs THEN text ELSE FoldText(text), b.start + 1, KeyOf(x))
    BY DictionarySpansIn
<1>0. w.cs \in BOOLEAN /\ x.cs \in BOOLEAN
    BY WordsAssumption
<1>3. w.cs = x.cs
    <2>1. CASE w.cs
        <3>1. a.source = 1
            BY <1>1, <2>1
        <3>2. x.cs
            <4>1. ~x.cs => b.source = 0
                BY <1>2
            <4> QED
                BY <3>1, <4>1
        <3> QED
            BY <1>0, <2>1, <3>2, Zenon
    <2>2. CASE ~w.cs
        <3>1. a.source = 0
            BY <1>1, <2>2
        <3>2. ~x.cs
            <4>1. x.cs => b.source = 1
                BY <1>2
            <4> QED
                BY <3>1, <4>1
        <3> QED
            BY <1>0, <2>2, <3>2, Zenon
    <2> QED
        BY <2>1, <2>2
<1> DEFINE v == IF w.cs THEN text ELSE FoldText(text)
<1>4. LiteralAt(v, a.start + 1, KeyOf(w)) /\ LiteralAt(v, a.start + 1, KeyOf(x))
      /\ Len(KeyOf(w)) = Len(KeyOf(x))
    BY <1>1, <1>2, <1>3
<1> HIDE DEF v
<1>5. \A k \in 1..Len(KeyOf(w)) : KeyOf(w)[k] = KeyOf(x)[k]
    BY <1>4 DEF LiteralAt
<1>6. \E S : KeyOf(w) \in Seq(S)
    BY KeyIsText
<1>7. \E S : KeyOf(x) \in Seq(S)
    BY KeyIsText
<1>8. KeyOf(w) = KeyOf(x)
    <2>1. PICK S : KeyOf(w) \in Seq(S)
        BY <1>6
    <2>2. PICK T : KeyOf(x) \in Seq(T)
        BY <1>7
    <2>3. KeyOf(w) \in Seq(S \cup T) /\ KeyOf(x) \in Seq(S \cup T)
        BY <2>1, <2>2
    <2> QED
        BY <1>4, <1>5, <2>3, SeqEqual
<1>9. a.term = b.term
    <2>1. w = x
        BY <1>3, <1>8, WordsAssumption, Zenon
    <2> QED
        BY <1>1, <1>2, <2>1
<1>10. IsSpan(a, text) /\ IsSpan(b, text)
    BY DictionarySpansIn
<1> QED
    BY <1>9, <1>10 DEF IsSpan

-----------------------------------------------------------------------------

(* The function by which PatternSpans is defined, and its equation.        *)
Hits(text, r, i) == {Len(w) : w \in {v \in Patterns[r].language : LiteralAt(text, i, v)}}

PatternStep(text, r, from, i) ==
    IF i > Len(text) THEN {}
    ELSE IF Hits(text, r, i) = {} THEN from[i + 1]
    ELSE {Span(i, i + Max(Hits(text, r, i)) - 1, Patterns[r].name, r + 1)}
             \cup from[i + Max(Hits(text, r, i))]

PatternFrom(text, r) ==
    CHOOSE from : from = [i \in 1..Len(text)+1 |-> PatternStep(text, r, from, i)]

LEMMA PatternIs ==
    ASSUME NEW text, NEW r
    PROVE  PatternSpans(text, r) = PatternFrom(text, r)[1]
BY Zenon DEF PatternSpans, PatternFrom, PatternStep, Hits

(* A match is not empty and ends inside the text.                          *)
LEMMA LongestHit ==
    ASSUME NEW text, IsText(text), NEW r \in DOMAIN Patterns, NEW i \in 1..Len(text),
           Hits(text, r, i) # {}
    PROVE  Max(Hits(text, r, i)) \in 1..Len(text)+1-i
<1>1. Len(text) \in Nat
    BY DEF IsText
<1>2. ASSUME NEW v \in Patterns[r].language, LiteralAt(text, i, v)
      PROVE  Len(v) \in 1..Len(text)+1-i
    <2>1. v \in Seq(Range(v)) /\ v # <<>>
        BY PatternAssumption DEF IsText
    <2>2. Len(v) \in Nat /\ Len(v) # 0
        BY <2>1, EmptySeq
    <2> QED
        BY <1>1, <1>2, <2>2 DEF LiteralAt
<1>3. Hits(text, r, i) \subseteq 1..Len(text)+1-i
    BY <1>2 DEF Hits
<1>4. Hits(text, r, i) \subseteq 0..Len(text)
    BY <1>1, <1>3
<1>5. Max(Hits(text, r, i)) \in Hits(text, r, i)
    BY <1>1, <1>4, MaxProperties
<1> QED
    BY <1>3, <1>5

LEMMA PatternStepLocal ==
    ASSUME NEW text, IsText(text), NEW r \in DOMAIN Patterns, NEW i \in 1..Len(text)+1,
           NEW f, NEW g, \A j \in i+1..Len(text)+1 : f[j] = g[j]
    PROVE  PatternStep(text, r, f, i) = PatternStep(text, r, g, i)
<1>0. Len(text) \in Nat
    BY DEF IsText
<1>1. CASE i > Len(text)
    BY <1>1 DEF PatternStep
<1>2. CASE i \in 1..Len(text) /\ Hits(text, r, i) = {}
    <2>1. f[i + 1] = g[i + 1]
        BY <1>0, <1>2
    <2> QED
        BY <1>2, <2>1 DEF PatternStep
<1>3. CASE i \in 1..Len(text) /\ Hits(text, r, i) # {}
    <2> DEFINE j == i + Max(Hits(text, r, i))
    <2>1. j \in i+1..Len(text)+1
        BY <1>0, <1>3, LongestHit
    <2>2. f[j] = g[j]
        BY <2>1
    <2> QED
        BY <1>3, <2>2 DEF PatternStep
<1> QED
    BY <1>0, <1>1, <1>2, <1>3

LEMMA PatternEquation ==
    ASSUME NEW text, IsText(text), NEW r \in DOMAIN Patterns
    PROVE  \A i \in 1..Len(text)+1 :
               PatternFrom(text, r)[i] = PatternStep(text, r, PatternFrom(text, r), i)
<1> DEFINE n == Len(text)
           Defined(k) == \E f : f = [i \in n+2-k..n+1 |-> PatternStep(text, r, f, i)]
           T == {k \in Nat : k <= n + 1 => Defined(k)}
<1>0. n \in Nat
    BY DEF IsText
<1>1. 0 \in T
    <2>1. [i \in n+2-0..n+1 |-> 0] =
          [i \in n+2-0..n+1 |-> PatternStep(text, r, [j \in n+2-0..n+1 |-> 0], i)]
        <3>1. n+2-0..n+1 = {}
            BY <1>0
        <3> QED
            BY <3>1
    <2>2. Defined(0)
        BY <2>1
    <2> HIDE DEF Defined
    <2> QED
        BY <2>2
<1>2. ASSUME NEW k \in Nat, k \in T
      PROVE  k + 1 \in T
    <2>1. SUFFICES ASSUME k + 1 <= n + 1 PROVE Defined(k + 1)
        <3> HIDE DEF Defined, n
        <3> QED
            BY <1>0
    <2>2. PICK f : f = [i \in n+2-k..n+1 |-> PatternStep(text, r, f, i)]
        BY <1>0, <1>2, <2>1
    <2> DEFINE D == n+2-(k+1)..n+1
               g == [i \in D |-> IF i \in n+2-k..n+1 THEN f[i]
                                 ELSE PatternStep(text, r, f, i)]
    <2>3. \A i \in D : g[i] = IF i \in n+2-k..n+1 THEN f[i]
                              ELSE PatternStep(text, r, f, i)
        OBVIOUS
    <2>4. DOMAIN g = D /\ g = [i \in DOMAIN g |-> g[i]]
        OBVIOUS
    <2>5. \A i \in n+2-k..n+1 : f[i] = PatternStep(text, r, f, i)
        BY <2>2
    <2> HIDE DEF g
    <2>6. ASSUME NEW i \in D PROVE g[i] = PatternStep(text, r, g, i)
        <3>1. g[i] = PatternStep(text, r, f, i)
            BY <2>3, <2>5
        <3>2. i \in 1..n+1 /\ \A j \in i+1..n+1 : j \in n+2-k..n+1 /\ j \in D
            BY <1>0, <2>1
        <3>3. \A j \in i+1..n+1 : f[j] = g[j]
            BY <2>3, <3>2
        <3>4. PatternStep(text, r, f, i) = PatternStep(text, r, g, i)
            BY <3>2, <3>3, PatternStepLocal
        <3> QED
            BY <3>1, <3>4
    <2>7. g = [i \in D |-> PatternStep(text, r, g, i)]
        BY <2>4, <2>6
    <2> QED
        BY <2>7, Zenon
<1>3. n + 1 \in T
    <2>1. \A k \in Nat : k \in T
        <3> HIDE DEF T
        <3> QED
            BY <1>1, <1>2, NatSetInduction
    <2> HIDE DEF T
    <2> QED
        BY <1>0, <2>1
<1>4. n + 2 - (n + 1) = 1
    BY <1>0
<1>5. \E f : f = [i \in 1..n+1 |-> PatternStep(text, r, f, i)]
    <2>1. Defined(n + 1)
        <3> HIDE DEF Defined
        <3> QED
            BY <1>0, <1>3
    <2> HIDE DEF n
    <2> QED
        BY <1>4, <2>1
<1>7. PatternFrom(text, r) =
          [i \in 1..n+1 |-> PatternStep(text, r, PatternFrom(text, r), i)]
    BY <1>5, Zenon DEF PatternFrom
<1> DEFINE f == PatternFrom(text, r)
<1> HIDE DEF f
<1>8. f = [i \in 1..n+1 |-> PatternStep(text, r, f, i)]
    BY <1>7, Zenon DEF f
<1>9. \A i \in 1..n+1 : f[i] = PatternStep(text, r, f, i)
    BY <1>8
<1> QED
    BY <1>9 DEF f

(* A regex hit lies inside the text and carries the name of its pattern.   *)
LEMMA PatternSpansIn ==
    ASSUME NEW text, IsText(text), NEW r \in DOMAIN Patterns, NEW c \in PatternSpans(text, r)
    PROVE  IsSpan(c, text) /\ c.term = Patterns[r].name /\ c.source = r + 1
<1> DEFINE n == Len(text)
           f == PatternFrom(text, r)
           Good(x) == IsSpan(x, text) /\ x.term = Patterns[r].name /\ x.source = r + 1
           T == {k \in Nat : \A i \in 1..n+1 : i >= n + 1 - k => \A x \in f[i] : Good(x)}
<1>0. n \in Nat /\ \A i \in 1..n+1 : f[i] = PatternStep(text, r, f, i)
    BY PatternEquation DEF IsText
<1>a. c \in f[1]
    BY PatternIs
<1> HIDE DEF f
<1>1. ASSUME NEW i \in 1..n+1, \A j \in i+1..n+1 : \A x \in f[j] : Good(x), NEW x \in f[i]
      PROVE  Good(x)
    <2>1. CASE i > n
        BY <1>0, <1>1, <2>1 DEF PatternStep
    <2>2. CASE i \in 1..n /\ Hits(text, r, i) = {}
        <3>1. f[i] = f[i + 1]
            BY <1>0, <2>2 DEF PatternStep
        <3>2. i + 1 \in i+1..n+1 /\ x \in f[i + 1]
            BY <1>0, <1>1, <2>2, <3>1
        <3> HIDE DEF Good
        <3> QED
            BY <1>1, <3>2
    <2>3. CASE i \in 1..n /\ Hits(text, r, i) # {}
        <3> DEFINE m == Max(Hits(text, r, i))
                   s == Span(i, i + m - 1, Patterns[r].name, r + 1)
        <3>1. m \in 1..n+1-i
            BY <2>3, LongestHit
        <3>2. x = s \/ x \in f[i + m]
            BY <1>0, <1>1, <2>3 DEF PatternStep
        <3> HIDE DEF m
        <3>3. i + m \in i+1..n+1
            BY <1>0, <2>3, <3>1
        <3>4. r \in 1..Len(Patterns)
            BY PatternAssumption DEF IsText
        <3>5. Good(s)
            <4>1. s.start = i - 1 /\ s.end = i + m - 1 /\ s.term = Patterns[r].name
                  /\ s.source = r + 1
                  /\ s = [start |-> s.start, end |-> s.end, term |-> s.term, source |-> s.source]
                BY DEF Span
            <4> HIDE DEF s
            <4>2. InText(s, Len(text), Sourced) /\ s.start < s.end
                BY <1>0, <2>3, <3>1, <3>4, <4>1 DEF InText, Sourced
            <4> QED
                BY <4>1, <4>2 DEF IsSpan
        <3> HIDE DEF Good, s
        <3> QED
            BY <1>1, <3>2, <3>3, <3>5
    <2> HIDE DEF Good
    <2> QED
        BY <1>0, <2>1, <2>2, <2>3
<1> HIDE DEF Good
<1>2. 0 \in T
    <2>1. ASSUME NEW i \in 1..n+1, i >= n + 1 - 0, NEW x \in f[i] PROVE Good(x)
        <3>1. i+1..n+1 = {}
            BY <1>0, <2>1
        <3> QED
            BY <1>1, <2>1, <3>1
    <2> QED
        BY <2>1
<1>3. ASSUME NEW k \in Nat, k \in T PROVE k + 1 \in T
    <2>1. ASSUME NEW i \in 1..n+1, i >= n + 1 - (k + 1), NEW x \in f[i] PROVE Good(x)
        <3>1. \A j \in i+1..n+1 : j \in 1..n+1 /\ j >= n + 1 - k
            BY <1>0, <2>1
        <3>2. \A j \in i+1..n+1 : \A y \in f[j] : Good(y)
            BY <1>3, <3>1
        <3> QED
            BY <1>1, <2>1, <3>2
    <2> QED
        BY <2>1
<1>4. \A k \in Nat : k \in T
    <2> HIDE DEF T
    <2> QED
        BY <1>2, <1>3, NatSetInduction
<1>5. n + 1 \in T /\ 1 \in 1..n+1 /\ 1 >= n + 1 - (n + 1)
    <2> HIDE DEF T
    <2> QED
        BY <1>0, <1>4
<1>6. Good(c)
    BY <1>5, <1>a
<1> QED
    BY <1>6 DEF Good

-----------------------------------------------------------------------------

Terms == {w.word : w \in Words} \cup {p.name : p \in Range(Patterns)}

(* A hit lies inside the text and carries a term.                          *)
LEMMA CandidatesIn ==
    ASSUME NEW text, IsText(text), NEW c \in Candidates(text)
    PROVE  IsSpan(c, text) /\ c.term \in Terms
<1>1. CASE c \in DictionarySpans(text)
    BY <1>1, DictionarySpansIn DEF Terms
<1>2. CASE c \notin DictionarySpans(text)
    <2>1. PICK r \in DOMAIN Patterns : c \in PatternSpans(text, r)
        BY <1>2 DEF Candidates
    <2>2. Patterns[r] \in Range(Patterns)
        BY DEF Range
    <2> QED
        BY <2>1, <2>2, PatternSpansIn DEF Terms
<1> QED
    BY <1>1, <1>2

(* Two hits with one range and one source are one.                         *)
LEMMA HitsDiffer ==
    ASSUME NEW text, IsText(text), NEW a \in Candidates(text), NEW b \in Candidates(text),
           a.start = b.start, a.end = b.end, a.source = b.source
    PROVE  a = b
<1>0. DOMAIN Patterns \subseteq Nat \ {0}
    BY PatternAssumption DEF IsText
<1>1. ASSUME NEW c \in Candidates(text)
      PROVE  \/ c \in DictionarySpans(text) /\ c.source \in 0..1
             \/ \E r \in DOMAIN Patterns : c \in PatternSpans(text, r)
    <2>1. c \in DictionarySpans(text) => c.source \in 0..1
        BY DictionarySpansIn
    <2> QED
        BY <2>1 DEF Candidates
<1>2. CASE a \in DictionarySpans(text) /\ b \in DictionarySpans(text)
    BY <1>2, DictionaryHitsDiffer
<1>3. ASSUME NEW r \in DOMAIN Patterns, a \in PatternSpans(text, r) \/ b \in PatternSpans(text, r)
      PROVE  a = b
    <2>1. a.source = r + 1 /\ b.source = r + 1
        BY <1>3, PatternSpansIn
    <2>2. a.source \notin 0..1
        BY <1>0, <2>1
    <2>3. PICK p \in DOMAIN Patterns : a \in PatternSpans(text, p)
        BY <1>1, <2>2
    <2>4. PICK q \in DOMAIN Patterns : b \in PatternSpans(text, q)
        BY <1>1, <2>1, <2>2
    <2>5. a.source = p + 1 /\ b.source = q + 1 /\ a.term = Patterns[p].name
          /\ b.term = Patterns[q].name /\ IsSpan(a, text) /\ IsSpan(b, text)
        BY <2>3, <2>4, PatternSpansIn
    <2>6. p = q
        <3>1. p \in Nat /\ q \in Nat
            BY <1>0
        <3>2. p + 1 = q + 1
            BY <2>1, <2>5
        <3> QED
            BY <3>1, <3>2
    <2> QED
        BY <2>5, <2>6 DEF IsSpan
<1> QED
    BY <1>1, <1>2, <1>3

(* The hits that touch no placeholder.                                     *)
FreeHits(text) ==
    {c \in Candidates(text) : ~\E r \in PlaceholderRegions(text) : Overlaps(c, r)}

(* find_matches returns their longest-then-leftmost resolution.            *)
LEMMA MatchesResolve ==
    ASSUME NEW text, IsText(text)
    PROVE  IsResolution(FindMatches(text), FreeHits(text))
<1> DEFINE eligible == FreeHits(text)
<1>1. \A c \in eligible : InText(c, Len(text), Sourced)
    BY CandidatesIn DEF IsSpan, FreeHits
<1>2. Len(text) \in Nat /\ Sourced \in Nat
    BY PatternAssumption DEF IsText, Sourced
<1>3. FindMatches(text) = CHOOSE K \in SUBSET eligible : IsResolution(K, eligible)
    BY Zenon DEF FindMatches, FreeHits
<1> HIDE DEF eligible
<1>4. \E K \in SUBSET eligible : IsResolution(K, eligible)
    BY <1>1, <1>2, ResolutionExists
<1>5. IsResolution(FindMatches(text), eligible)
    BY <1>3, <1>4
<1> QED
    BY <1>5 DEF eligible

LEMMA MatchesIn ==
    ASSUME NEW text, IsText(text)
    PROVE  \A m \in FindMatches(text) : IsSpan(m, text) /\ m.term \in Terms
BY MatchesResolve, CandidatesIn DEF IsResolution, FreeHits

(* No two matches overlap.                                                 *)
LEMMA MatchesApart ==
    ASSUME NEW text, IsText(text), NEW a \in FindMatches(text), NEW b \in FindMatches(text),
           a # b
    PROVE  a.end <= b.start \/ b.end <= a.start
<1> DEFINE C == FreeHits(text)
<1>1. C \in SUBSET Candidates(text) /\ IsResolution(FindMatches(text), C)
    BY MatchesResolve DEF FreeHits
<1> HIDE DEF C
<1>2. a \in C /\ b \in C /\ IsSpan(a, text) /\ IsSpan(b, text)
    BY <1>1, MatchesIn DEF IsResolution
<1>3. Precedes(a, b) => ~Overlaps(a, b)
    BY <1>1, <1>2 DEF IsResolution
<1>4. Precedes(b, a) => ~Overlaps(b, a)
    BY <1>1, <1>2 DEF IsResolution
<1>5. /\ a.start \in Nat /\ a.end \in Nat /\ a.source \in Nat
      /\ b.start \in Nat /\ b.end \in Nat /\ b.source \in Nat
    BY <1>2, PatternAssumption DEF IsSpan, InText, IsText, Sourced
<1>6. Precedes(a, b) \/ Precedes(b, a)
    <2>1. a.start # b.start \/ a.end # b.end \/ a.source # b.source
        BY <1>1, <1>2, HitsDiffer
    <2> QED
        BY <1>5, <2>1 DEF Precedes, Size
<1> QED
    BY <1>3, <1>4, <1>5, <1>6 DEF Overlaps

-----------------------------------------------------------------------------

(* What stands at each place of a concatenation.                           *)
LEMMA ConcatPlaces ==
    ASSUME NEW S, NEW s \in Seq(S), NEW t \in Seq(S)
    PROVE  /\ s \o t \in Seq(S) /\ Len(s \o t) = Len(s) + Len(t)
           /\ \A i \in 1..Len(s) : (s \o t)[i] = s[i]
           /\ \A i \in 1..Len(t) : (s \o t)[Len(s) + i] = t[i]
OBVIOUS

(* What stands at each place of a placeholder.                             *)
LEMMA PlaceholderChars ==
    ASSUME NEW code \in Seq(CodeChars), NEW d, IsText(d)
    PROVE  LET O == Len(Opener) C == Len(code) L == Len(Closer)
               p == Opener \o code \o Closer \o d
           IN  /\ O \in Nat /\ C \in Nat /\ L \in Nat /\ Len(d) \in Nat
               /\ p \in Seq(Range(Opener) \cup CodeChars \cup Range(Closer) \cup Range(d))
               /\ Len(p) = O + C + L + Len(d)
               /\ \A i \in 1..O : p[i] = Opener[i]
               /\ \A i \in 1..C : p[O + i] = code[i]
               /\ \A i \in 1..L : p[O + C + i] = Closer[i]
               /\ \A i \in 1..Len(d) : p[O + C + L + i] = d[i]
<1> DEFINE O == Len(Opener) C == Len(code) L == Len(Closer)
           U == Range(Opener) \cup CodeChars \cup Range(Closer) \cup Range(d)
<1>1. Opener \in Seq(Range(Opener)) /\ Closer \in Seq(Range(Closer)) /\ d \in Seq(Range(d))
    BY LiteralsAssumption DEF IsText
<1>2. Opener \in Seq(U) /\ code \in Seq(U) /\ Closer \in Seq(U) /\ d \in Seq(U)
    BY <1>1
<1> HIDE DEF U
<1> DEFINE a == Opener \o code  b == a \o Closer  p == b \o d
<1>3. /\ a \in Seq(U) /\ Len(a) = O + C
      /\ \A i \in 1..O : a[i] = Opener[i]
      /\ \A i \in 1..C : a[O + i] = code[i]
    BY <1>2
<1>a. a \in Seq(U)
    BY <1>3
<1> HIDE DEF a
<1>4. /\ b \in Seq(U) /\ Len(b) = Len(a) + L
      /\ \A i \in 1..Len(a) : b[i] = a[i]
      /\ \A i \in 1..L : b[Len(a) + i] = Closer[i]
    BY <1>2, <1>a
<1>b. b \in Seq(U)
    BY <1>4
<1> HIDE DEF b
<1>5. /\ p \in Seq(U) /\ Len(p) = Len(b) + Len(d)
      /\ \A i \in 1..Len(b) : p[i] = b[i]
      /\ \A i \in 1..Len(d) : p[Len(b) + i] = d[i]
    BY <1>2, <1>b
<1>6. p = Opener \o code \o Closer \o d
    BY DEF b, a
<1> HIDE DEF p
<1>7. O \in Nat /\ C \in Nat /\ L \in Nat /\ Len(d) \in Nat
    BY <1>2
<1> HIDE DEF O, C, L
<1>8. \A i \in 1..O : p[i] = Opener[i]
    BY <1>3, <1>4, <1>5, <1>7
<1>9. \A i \in 1..C : p[O + i] = code[i]
    BY <1>3, <1>4, <1>5, <1>7
<1>10. \A i \in 1..L : p[O + C + i] = Closer[i]
    BY <1>3, <1>4, <1>5, <1>7
<1>11. \A i \in 1..Len(d) : p[O + C + L + i] = d[i]
    BY <1>3, <1>4, <1>5, <1>7
<1>12. Len(p) = O + C + L + Len(d)
    BY <1>3, <1>4, <1>5, <1>7
<1> QED
    BY <1>5, <1>6, <1>7, <1>8, <1>9, <1>10, <1>11, <1>12 DEF O, C, L, U

(* Its body, the part without the disambiguator.                           *)
LEMMA PlaceholderBody ==
    ASSUME NEW code \in Seq(CodeChars), code # <<>>, NEW d, IsText(d)
    PROVE  Len(Opener) + Len(code) + Len(Closer)
               \in BodyEnds(Opener \o code \o Closer \o d, 1)
<1> DEFINE O == Len(Opener) C == Len(code) L == Len(Closer) D == Len(d)
           p == Opener \o code \o Closer \o d
           n == O + C + L
<1>1. /\ O \in Nat /\ C \in Nat /\ L \in Nat /\ D \in Nat
      /\ Len(p) = n + D
      /\ \A i \in 1..O : p[i] = Opener[i]
      /\ \A i \in 1..C : p[O + i] = code[i]
      /\ \A i \in 1..L : p[O + C + i] = Closer[i]
    BY PlaceholderChars
<1>2. C # 0
    BY EmptySeq
<1>3. \A i \in 1..C : code[i] \in CodeChars
    OBVIOUS
<1> HIDE DEF p, O, C, L, D
<1>5. n \in BodyEnds(p, 1)
    <2>1. LiteralAt(p, 1, Opener)
        BY <1>1 DEF LiteralAt, O
    <2>2. \A k \in 1+O..n-L : p[k] \in CodeChars
        <3>1. ASSUME NEW k \in 1+O..n-L PROVE p[k] \in CodeChars
            <4>1. k - O \in 1..C /\ k = O + (k - O)
                BY <1>1
            <4> QED
                BY <1>1, <1>3, <4>1
        <3> QED
            BY <3>1
    <2>3. LiteralAt(p, n - L + 1, Closer)
        <3>1. ASSUME NEW k \in 1..L PROVE p[n - L + 1 + k - 1] = Closer[k]
            <4>1. n - L + 1 + k - 1 = O + C + k
                BY <1>1
            <4> QED
                BY <1>1, <4>1
        <3>2. n - L + 1 + L - 1 <= Len(p)
            BY <1>1
        <3> QED
            BY <3>1, <3>2 DEF LiteralAt, L
    <2>4. n \in 1..Len(p) /\ 1 + O <= n - L
        BY <1>1, <1>2
    <2> HIDE DEF n
    <2> QED
        BY <2>1, <2>2, <2>3, <2>4 DEF BodyEnds, O, L
<1> QED
    BY <1>5 DEF p, O, C, L

(* A placeholder, with or without a disambiguator, is one match.           *)
LEMMA PlaceholderIsMatch ==
    ASSUME NEW code \in Seq(CodeChars), code # <<>>, NEW d, IsText(d),
           d = <<>> \/ (Len(d) > 1 /\ d[1] = Hyphen /\ \A k \in 2..Len(d) : d[k] \in Digits)
    PROVE  LET p == Opener \o code \o Closer \o d
           IN  MatchesAt(p, 1) /\ MatchEnd(p, 1) = Len(p)
<1> DEFINE O == Len(Opener) C == Len(code) L == Len(Closer) D == Len(d)
           p == Opener \o code \o Closer \o d
           n == O + C + L
<1>1. /\ O \in Nat /\ C \in Nat /\ L \in Nat /\ D \in Nat
      /\ Len(p) = n + D
      /\ \A i \in 1..O : p[i] = Opener[i]
      /\ \A i \in 1..C : p[O + i] = code[i]
      /\ \A i \in 1..L : p[O + C + i] = Closer[i]
      /\ \A i \in 1..D : p[n + i] = d[i]
    BY PlaceholderChars
<1>2. C # 0
    BY EmptySeq
<1>3. \A i \in 1..C : code[i] \in CodeChars
    OBVIOUS
<1>4. D = 0 \/ (D > 1 /\ d[1] = Hyphen /\ \A k \in 2..D : d[k] \in Digits)
    BY EmptySeq
<1> HIDE DEF p, O, C, L, D
<1>5. n \in BodyEnds(p, 1)
    BY PlaceholderBody DEF p, O, C, L
<1>6. ASSUME NEW e \in BodyEnds(p, 1), e > n PROVE FALSE
    <2> DEFINE last == e - L
               J == {j \in 1..L : Closer[j] = Hyphen}
    <2>1. /\ e \in 1..Len(p) /\ 1 + O <= last
          /\ \A k \in 1+O..last : p[k] \in CodeChars
          /\ \A k \in 1..L : p[last + 1 + k - 1] = Closer[k]
        BY <1>6 DEF BodyEnds, LiteralAt, O, L
    <2>2. D > 1 /\ p[n + 1] = Hyphen
        <3>1. D # 0 /\ D > 1
            BY <1>1, <1>4, <1>6, <2>1
        <3> QED
            BY <1>1, <1>4, <3>1
    <2>3. last <= n /\ last + L = e /\ last \in Nat
        <3>1. ~(n + 1 <= last)
            <4>1. ASSUME n + 1 <= last PROVE FALSE
                <5>1. n + 1 \in 1+O..last
                    BY <1>1, <2>1, <4>1
                <5> QED
                    BY <2>1, <2>2, <5>1, HyphenAssumption
            <4> QED
                BY <4>1
        <3> QED
            BY <1>1, <2>1, <3>1
    <2>4. n + 1 - last \in J
        <3>1. n + 1 - last \in 1..L /\ last + 1 + (n + 1 - last) - 1 = n + 1
            BY <1>1, <1>6, <2>3
        <3> QED
            BY <2>1, <2>2, <3>1
    <2>5. Min(J) \in J /\ \A j \in J : Min(J) <= j
        <3>1. J \subseteq Nat /\ J # {}
            BY <1>1, <2>4
        <3> HIDE DEF J
        <3> QED
            BY <3>1, MinProperties
    <2> DEFINE m == Min(J)
               j == O + C + m - last
    <2>6. m \in 1..L /\ Closer[m] = Hyphen /\ \A i \in J : m <= i
        BY <2>5
    <2> HIDE DEF m
    <2>7. p[O + C + m] = Hyphen
        BY <1>1, <2>6
    <2>8. O + C + m > last
        <3>1. ASSUME O + C + m <= last PROVE FALSE
            <4>1. O + C + m \in 1+O..last
                BY <1>1, <2>3, <2>6, <3>1
            <4> QED
                BY <2>1, <2>7, <4>1, HyphenAssumption
        <3> QED
            BY <1>1, <2>3, <2>6, <3>1
    <2>9. j \in 1..L /\ j < m /\ last + 1 + j - 1 = O + C + m
        BY <1>1, <1>6, <2>1, <2>3, <2>6, <2>8
    <2>10. j \in J
        BY <2>1, <2>7, <2>9
    <2> QED
        BY <1>1, <2>6, <2>9, <2>10
<1>7. BodyEnds(p, 1) \subseteq 0..Len(p) /\ \A e \in BodyEnds(p, 1) : e \in Nat /\ e <= n
    <2>1. BodyEnds(p, 1) \subseteq 1..Len(p)
        BY DEF BodyEnds
    <2> QED
        BY <1>1, <1>6, <2>1
<1>8. n \in Nat /\ Len(p) \in Nat
    BY <1>1
<1>9. Max(BodyEnds(p, 1)) = n
    <2> HIDE DEF n
    <2>1. Max(BodyEnds(p, 1)) \in BodyEnds(p, 1) /\ Max(BodyEnds(p, 1)) >= n
        BY <1>5, <1>7, <1>8, MaxProperties
    <2> QED
        BY <1>7, <1>8, <2>1
<1> DEFINE suffix == {k \in n+2..Len(p) : p[n+1] = Hyphen /\ \A i \in n+2..k : p[i] \in Digits}
           ends == {n} \cup suffix
<1>10. MatchEnd(p, 1) = Max(ends)
    <2> HIDE DEF n
    <2> QED
        BY <1>9 DEF MatchEnd
<1>11. Len(p) \in ends
    <2>1. CASE D = 0
        BY <1>1, <2>1
    <2>2. CASE D # 0
        <3>1. Len(p) \in n+2..Len(p) /\ p[n + 1] = Hyphen
            BY <1>1, <1>4, <2>2
        <3>2. ASSUME NEW i \in n+2..Len(p) PROVE p[i] \in Digits
            <4>1. i - n \in 2..D /\ i - n \in 1..D /\ n + (i - n) = i
                BY <1>1
            <4> QED
                BY <1>1, <1>4, <2>2, <4>1
        <3> QED
            BY <3>1, <3>2
    <2> QED
        BY <2>1, <2>2
<1>12. ends \subseteq 0..Len(p)
    BY <1>1
<1> HIDE DEF ends
<1>13. Max(ends) = Len(p)
    <2>1. Max(ends) \in ends /\ Max(ends) >= Len(p)
        BY <1>8, <1>11, <1>12, MaxProperties
    <2>2. Max(ends) \in 0..Len(p)
        BY <1>12, <2>1
    <2> HIDE DEF n
    <2> QED
        BY <1>8, <2>1, <2>2
<1>14. MatchesAt(p, 1)
    BY <1>5 DEF MatchesAt
<1> QED
    BY <1>10, <1>13, <1>14 DEF p

(* What may stand in a text, masked or not.                                *)
Chars == (UNION {Range(t) : t \in Texts}) \cup Range(Opener) \cup Range(Closer)
             \cup CodeChars \cup Digits \cup {Hyphen}

(* What mask can have derived.                                             *)
IsPlaceholder(p) ==
    \E code \in Seq(CodeChars), d \in Seq(Digits \cup {Hyphen}) :
        /\ code # <<>> /\ p = Opener \o code \o Closer \o d
        /\ d = <<>> \/ (Len(d) > 1 /\ d[1] = Hyphen /\ \A k \in 2..Len(d) : d[k] \in Digits)

LEMMA TextInChars ==
    ASSUME NEW text \in Texts
    PROVE  text \in Seq(Chars)
<1>1. text \in Seq(Range(text)) /\ Range(text) \subseteq Chars
    BY TextsAssumption, Zenon DEF IsText, Chars
<1> QED
    BY <1>1

LEMMA PlaceholderMatches ==
    ASSUME NEW p, IsPlaceholder(p)
    PROVE  MatchesAt(p, 1) /\ MatchEnd(p, 1) = Len(p)
<1>1. PICK code \in Seq(CodeChars), d \in Seq(Digits \cup {Hyphen}) :
          /\ code # <<>> /\ p = Opener \o code \o Closer \o d
          /\ d = <<>> \/ (Len(d) > 1 /\ d[1] = Hyphen /\ \A k \in 2..Len(d) : d[k] \in Digits)
    BY DEF IsPlaceholder
<1>2. IsText(d)
    BY DEF IsText, Range
<1> QED
    BY <1>1, <1>2, PlaceholderIsMatch

(* So is every slot of what derive_placeholder returns.                    *)
LEMMA CandidateIsPlaceholder ==
    ASSUME NEW s \in Scopes, NEW term \in Terms, NEW k \in 1..Len(Disambiguators)+1
    PROVE  IsPlaceholder(Candidate(DerivePlaceholder(s, term), k))
<1> DEFINE code == Code(s, term)
           p == Candidate(DerivePlaceholder(s, term), k)
<1>1. code \in Seq(CodeChars) /\ code # <<>>
    BY CodeAssumption DEF Terms
<1> HIDE DEF code
<1>2. CASE k = 1
    <2>1. <<>> \in Seq(Digits \cup {Hyphen})
        BY EmptySeq
    <2>2. p = Opener \o code \o Closer
        BY <1>2 DEF Candidate, DerivePlaceholder, code
    <2>3. Opener \o code \o Closer \o <<>> = Opener \o code \o Closer
        <3> DEFINE U == Range(Opener) \cup CodeChars \cup Range(Closer)
        <3>1. Opener \in Seq(U) /\ Closer \in Seq(U) /\ code \in Seq(U)
            BY <1>1, LiteralsAssumption
        <3> HIDE DEF U
        <3>2. Opener \o code \o Closer \in Seq(U)
            BY <3>1, ConcatProperties
        <3> QED
            BY <3>2, ConcatEmptySeq
    <2> HIDE DEF p
    <2> QED
        BY <1>1, <2>1, <2>2, <2>3, Zenon DEF IsPlaceholder, p
<1>3. CASE k # 1
    <2> DEFINE d == Disambiguators[k - 1]
    <2>1. d \in Range(Disambiguators)
        <3>1. k - 1 \in 1..Len(Disambiguators)
            BY <1>3, DisambiguatorsAssumption DEF IsText
        <3> QED
            BY <3>1, DisambiguatorsAssumption DEF IsText
    <2>2. IsText(d) /\ Len(d) > 1 /\ d[1] = Hyphen /\ \A i \in 2..Len(d) : d[i] \in Digits
        BY <2>1, DisambiguatorsAssumption
    <2>3. p = Opener \o code \o Closer \o d
        BY <1>3 DEF Candidate, DerivePlaceholder, code
    <2> HIDE DEF d
    <2>4. d \in Seq(Digits \cup {Hyphen})
        <3>1. Len(d) \in Nat /\ d = [i \in 1..Len(d) |-> d[i]]
            BY <2>2 DEF IsText
        <3>2. \A i \in 1..Len(d) : d[i] \in Digits \cup {Hyphen}
            <4>1. ASSUME NEW i \in 1..Len(d) PROVE i = 1 \/ i \in 2..Len(d)
                BY <3>1
            <4> QED
                BY <2>2, <4>1
        <3> QED
            BY <3>1, <3>2, IsASeq
    <2> HIDE DEF p
    <2>5. IsPlaceholder(p)
        BY <1>1, <2>2, <2>3, <2>4, Zenon DEF IsPlaceholder
    <2> QED
        BY <2>5 DEF p
<1> QED
    BY <1>2, <1>3

-----------------------------------------------------------------------------

(* The collision loop of assign stops at the first slot that is free or    *)
(* the original's.                                                         *)
LEMMA FirstAcceptable ==
    ASSUME NEW base, NEW o, Acceptable(base, o) # {}
    PROVE  LET k == Min(Acceptable(base, o))
           IN  /\ k \in 1..Len(Disambiguators)+1
               /\ Candidate(base, k) \notin DOMAIN vault \/ vault[Candidate(base, k)] = o
               /\ \A j \in 1..k-1 : Candidate(base, j) \in DOMAIN vault
                                    /\ vault[Candidate(base, j)] # o
<1> DEFINE A == Acceptable(base, o)
           k == Min(A)
           n == Len(Disambiguators) + 1
<1>1. n \in Nat
    BY DisambiguatorsAssumption DEF IsText
<1>2. \A i : i \in A <=> /\ i \in 1..n
                         /\ Candidate(base, i) \notin DOMAIN vault
                            \/ vault[Candidate(base, i)] = o
    BY DEF Acceptable
<1> HIDE DEF A
<1>3. A \subseteq Nat /\ A # {}
    BY <1>1, <1>2 DEF A
<1>4. k \in A /\ \A j \in A : k <= j
    BY <1>3, MinProperties
<1> HIDE DEF k, n
<1>5. k \in 1..n
    BY <1>2, <1>4
<1>6. ASSUME NEW j \in 1..k-1
      PROVE  Candidate(base, j) \in DOMAIN vault /\ vault[Candidate(base, j)] # o
    <2>1. j \in 1..n /\ ~(k <= j)
        BY <1>1, <1>5
    <2>2. j \notin A
        BY <1>4, <2>1
    <2> QED
        BY <1>2, <2>1, <2>2
<1> QED
    BY <1>2, <1>4, <1>5, <1>6 DEF A, k, n

(* There is a leftmost match.                                              *)
LEMMA LeftmostIs ==
    ASSUME NEW spans, spans # {}, \A m \in spans : m.start \in Nat
    PROVE  /\ Leftmost(spans) \in spans
           /\ \A n \in spans : Leftmost(spans).start <= n.start
<1> DEFINE T == {m.start : m \in spans}
<1>1. Min(T) \in T /\ \A y \in T : Min(T) <= y
    <2>1. T \subseteq Nat /\ T # {}
        OBVIOUS
    <2> HIDE DEF T
    <2> QED
        BY <2>1, MinProperties
<1>2. PICK m \in spans : m.start = Min(T)
    BY <1>1
<1>3. \A n \in spans : m.start <= n.start
    BY <1>1, <1>2
<1> QED
    BY <1>3, Zenon DEF Leftmost

-----------------------------------------------------------------------------

(* p is what the loop of assign ends at for a base and an original: it is  *)
(* the original's, and all slots before it are others'.                    *)
Final(v, base, o, p) ==
    \E k \in 1..Len(Disambiguators)+1 :
        /\ p = Candidate(base, k) /\ p \in DOMAIN v /\ v[p] = o
        /\ \A j \in 1..k-1 : Candidate(base, j) \in DOMAIN v /\ v[Candidate(base, j)] # o

(* There is one such placeholder, whoever asks.                            *)
LEMMA FinalUnique ==
    ASSUME NEW v, NEW base, NEW o, NEW p, NEW q, Final(v, base, o, p), Final(v, base, o, q)
    PROVE  p = q
<1> DEFINE n == Len(Disambiguators) + 1
<1>0. n \in Nat
    BY DisambiguatorsAssumption DEF IsText
<1>1. PICK k \in 1..n :
          /\ p = Candidate(base, k) /\ p \in DOMAIN v /\ v[p] = o
          /\ \A j \in 1..k-1 : Candidate(base, j) \in DOMAIN v /\ v[Candidate(base, j)] # o
    BY DEF Final
<1>2. PICK l \in 1..n :
          /\ q = Candidate(base, l) /\ q \in DOMAIN v /\ v[q] = o
          /\ \A j \in 1..l-1 : Candidate(base, j) \in DOMAIN v /\ v[Candidate(base, j)] # o
    BY DEF Final
<1> HIDE DEF n
<1>3. ~(k < l)
    <2>1. k < l => k \in 1..l-1
        BY <1>0
    <2> QED
        BY <1>1, <1>2, <2>1
<1>4. ~(l < k)
    <2>1. l < k => l \in 1..k-1
        BY <1>0
    <2> QED
        BY <1>1, <1>2, <2>1
<1>5. k = l
    BY <1>0, <1>3, <1>4
<1> QED
    BY <1>1, <1>2, <1>5

(* Rows are never changed nor removed while requests are masked.           *)
Grows(v, w) == \A p \in DOMAIN v : p \in DOMAIN w /\ w[p] = v[p]

LEMMA FinalStays ==
    ASSUME NEW v, NEW w, Grows(v, w), NEW base, NEW o, NEW p, Final(v, base, o, p)
    PROVE  Final(w, base, o, p)
BY DEF Final, Grows

(* The entry of a plan for a match.                                        *)
IsEntry(e, m, q, v) ==
    /\ e = [start |-> m.start, end |-> m.end, term |-> m.term, new |-> e.new]
    /\ Final(v, DerivePlaceholder(q.scope, m.term), SliceMatch(q.text, m), e.new)

Fields == {"state", "scope", "text", "todo", "plan", "masked"}

(* What a request has done so far: its plan holds the entries of the       *)
(* matches that are not to be done any more, and no others.                *)
InOrder(q, v) ==
    /\ q.scope \in Scopes /\ q.text \in Texts /\ q.todo \subseteq FindMatches(q.text)
    /\ \A e \in q.plan : \E m \in FindMatches(q.text) : IsEntry(e, m, q, v)
    /\ \A m \in FindMatches(q.text) \ q.todo : \E e \in q.plan : IsEntry(e, m, q, v)

RequestInv(q, v) ==
    /\ DOMAIN q = Fields
    /\ q.state \in {"idle", "masking", "blocked", "masked"}
    /\ q.todo # {} => q.state \in {"masking", "blocked"}
    /\ q.state # "idle" => InOrder(q, v)
    /\ q.state = "masked" => q.todo = {} /\ q.masked = Rebuild(q.text, q.plan)

MaskInv ==
    /\ DOMAIN owner = DOMAIN vault
    /\ \A p \in DOMAIN vault :
          IsPlaceholder(p) /\ vault[p] \in Seq(Chars) /\ owner[p] \in Scopes
    /\ DOMAIN req = Requests
    /\ \A r \in Requests : RequestInv(req[r], vault)

LEMMA SliceInChars ==
    ASSUME NEW text \in Texts, NEW m, InText(m, Len(text), Sourced)
    PROVE  SliceMatch(text, m) \in Seq(Chars)
<1>1. text \in Seq(Chars)
    BY TextInChars
<1>2. m.start + 1 \in 1..Len(text)+1 /\ m.end \in 0..Len(text)
    BY <1>1 DEF InText
<1> QED
    BY <1>1, <1>2 DEF SliceMatch

LEMMA InOrderStays ==
    ASSUME NEW v, NEW w, Grows(v, w), NEW q, InOrder(q, v)
    PROVE  InOrder(q, w)
<1>1. \A e, m : IsEntry(e, m, q, v) => IsEntry(e, m, q, w)
    BY FinalStays DEF IsEntry
<1> QED
    BY <1>1 DEF InOrder

LEMMA RequestStays ==
    ASSUME NEW v, NEW w, Grows(v, w), NEW q, RequestInv(q, v)
    PROVE  RequestInv(q, w)
BY InOrderStays DEF RequestInv

LEMMA MaskInit == Init => MaskInv
<1> SUFFICES ASSUME Init PROVE MaskInv
    OBVIOUS
<1>1. DOMAIN vault = {} /\ DOMAIN owner = {}
    BY DEF Init
<1>2. DOMAIN req = Requests /\ \A r \in Requests : req[r] = Idle
    BY DEF Init
<1>3. DOMAIN Idle = Fields /\ Idle.state = "idle" /\ Idle.todo = {}
    BY DEF Idle, Fields
<1>4. ASSUME NEW r \in Requests PROVE RequestInv(req[r], vault)
    BY <1>2, <1>3 DEF RequestInv
<1> QED
    BY <1>1, <1>2, <1>4 DEF MaskInv

(* mask() is called.                                                       *)
LEMMA StartKeeps ==
    ASSUME MaskInv, NEW r \in Requests, NEW s \in Scopes, NEW text \in Texts,
           Start(r, s, text)
    PROVE  MaskInv'
<1> DEFINE q == [Idle EXCEPT !.state = "masking", !.scope = s, !.text = text,
                             !.todo = FindMatches(text)]
<1>1. req' = [req EXCEPT ![r] = q] /\ vault' = vault /\ owner' = owner
    BY DEF Start
<1>2. /\ DOMAIN q = Fields /\ q.state = "masking" /\ q.scope = s /\ q.text = text
      /\ q.todo = FindMatches(text) /\ q.plan = {}
    BY DEF Idle, Fields
<1> HIDE DEF q
<1>3. InOrder(q, vault)
    BY <1>2 DEF InOrder
<1>4. RequestInv(q, vault)
    BY <1>2, <1>3 DEF RequestInv
<1>5. DOMAIN req' = Requests /\ \A x \in Requests : req'[x] = IF x = r THEN q ELSE req[x]
    BY <1>1 DEF MaskInv
<1>6. \A x \in Requests : RequestInv(req'[x], vault')
    BY <1>1, <1>4, <1>5 DEF MaskInv
<1> QED
    BY <1>1, <1>5, <1>6 DEF MaskInv

(* VaultError leaves mask().                                               *)
LEMMA BlockKeeps ==
    ASSUME MaskInv, NEW r \in Requests, Block(r)
    PROVE  MaskInv'
<1> DEFINE q == [req[r] EXCEPT !.state = "blocked"]
<1>1. req' = [req EXCEPT ![r] = q] /\ vault' = vault /\ owner' = owner
    BY DEF Block
<1>2. RequestInv(req[r], vault) /\ req[r].state = "masking"
    BY DEF MaskInv, Block
<1>3. /\ DOMAIN q = Fields /\ q.state = "blocked" /\ q.scope = req[r].scope
      /\ q.text = req[r].text /\ q.todo = req[r].todo /\ q.plan = req[r].plan
    BY <1>2 DEF Fields, RequestInv
<1> HIDE DEF q
<1>4. InOrder(q, vault)
    BY <1>2, <1>3 DEF InOrder, RequestInv, IsEntry
<1>5. RequestInv(q, vault)
    BY <1>2, <1>3, <1>4 DEF RequestInv
<1>6. DOMAIN req' = Requests /\ \A x \in Requests : req'[x] = IF x = r THEN q ELSE req[x]
    BY <1>1 DEF MaskInv
<1>7. \A x \in Requests : RequestInv(req'[x], vault')
    BY <1>1, <1>5, <1>6 DEF MaskInv
<1> QED
    BY <1>1, <1>6, <1>7 DEF MaskInv

(* The text is rebuilt.                                                    *)
LEMMA FinishKeeps ==
    ASSUME MaskInv, NEW r \in Requests, Finish(r)
    PROVE  MaskInv'
<1> DEFINE q == [req[r] EXCEPT !.state = "masked",
                               !.masked = Rebuild(req[r].text, req[r].plan)]
<1>1. req' = [req EXCEPT ![r] = q] /\ vault' = vault /\ owner' = owner
    BY DEF Finish
<1>2. RequestInv(req[r], vault) /\ req[r].state = "masking" /\ req[r].todo = {}
    BY DEF MaskInv, Finish
<1>3. /\ DOMAIN q = Fields /\ q.state = "masked" /\ q.scope = req[r].scope
      /\ q.text = req[r].text /\ q.todo = {} /\ q.plan = req[r].plan
      /\ q.masked = Rebuild(req[r].text, req[r].plan)
    BY <1>2 DEF Fields, RequestInv
<1> HIDE DEF q
<1>4. InOrder(q, vault)
    BY <1>2, <1>3 DEF InOrder, RequestInv, IsEntry
<1>5. RequestInv(q, vault)
    BY <1>3, <1>4 DEF RequestInv
<1>6. DOMAIN req' = Requests /\ \A x \in Requests : req'[x] = IF x = r THEN q ELSE req[x]
    BY <1>1 DEF MaskInv
<1>7. \A x \in Requests : RequestInv(req'[x], vault')
    BY <1>1, <1>5, <1>6 DEF MaskInv
<1> QED
    BY <1>1, <1>6, <1>7 DEF MaskInv

(* A placeholder is assigned to the next match.                            *)
LEMMA AssignKeeps ==
    ASSUME MaskInv, NEW r \in Requests, Assign(r)
    PROVE  MaskInv'
<1> DEFINE m == NextMatch(r)
           o == Original(r)
           k == Min(Acceptable(Base(r), o))
           p == Candidate(Base(r), k)
           e == [start |-> m.start, end |-> m.end, term |-> m.term, new |-> p]
           q == [req[r] EXCEPT !.todo = @ \ {m}, !.plan = @ \cup {e}]
<1>1. /\ req' = [req EXCEPT ![r] = q]
      /\ vault' = InsertOrIgnore(vault, p, o)
      /\ owner' = InsertOrIgnore(owner, p, req[r].scope)
      /\ req[r].state = "masking" /\ req[r].todo # {}
      /\ Acceptable(Base(r), o) # {}
    BY Zenon DEF Assign
<1>2. RequestInv(req[r], vault) /\ InOrder(req[r], vault)
    BY <1>1 DEF MaskInv, RequestInv
<1>3. m \in req[r].todo /\ m \in FindMatches(req[r].text)
    <2>1. IsText(req[r].text) /\ req[r].todo \subseteq FindMatches(req[r].text)
        BY <1>2, TextsAssumption DEF InOrder
    <2>2. \A x \in req[r].todo : x.start \in Nat
        <3>1. \A x \in FindMatches(req[r].text) : InText(x, Len(req[r].text), Sourced)
            BY <2>1, MatchesIn DEF IsSpan
        <3>2. Len(req[r].text) \in Nat
            BY <2>1 DEF IsText
        <3> QED
            BY <2>1, <3>1, <3>2 DEF InText
    <2>3. m \in req[r].todo
        BY <1>1, <2>2, LeftmostIs DEF NextMatch
    <2> QED
        BY <2>1, <2>3
<1>4. /\ k \in 1..Len(Disambiguators)+1
      /\ p \notin DOMAIN vault \/ vault[p] = o
      /\ \A j \in 1..k-1 : Candidate(Base(r), j) \in DOMAIN vault
                           /\ vault[Candidate(Base(r), j)] # o
    BY <1>1, FirstAcceptable
<1>5. IsPlaceholder(p) /\ req[r].scope \in Scopes
    <2>1. req[r].scope \in Scopes /\ m.term \in Terms
        BY <1>2, <1>3, MatchesIn, TextsAssumption DEF InOrder
    <2>2. p = Candidate(DerivePlaceholder(req[r].scope, m.term), k)
        BY DEF Base
    <2> HIDE DEF m, k
    <2> QED
        BY <1>4, <2>1, <2>2, CandidateIsPlaceholder
<1>o. o \in Seq(Chars)
    <2>1. IsText(req[r].text) /\ req[r].text \in Texts
        BY <1>2, TextsAssumption DEF InOrder
    <2>2. InText(m, Len(req[r].text), Sourced)
        BY <1>3, <2>1, MatchesIn DEF IsSpan
    <2> HIDE DEF m
    <2> QED
        BY <2>1, <2>2, SliceInChars DEF Original, m
<1> HIDE DEF p, k, o, m
<1>6. /\ DOMAIN vault' = DOMAIN vault \cup {p} /\ vault'[p] = o
      /\ \A x \in DOMAIN vault : x # p => vault'[x] = vault[x]
    BY <1>1, <1>4 DEF InsertOrIgnore
<1>7. Grows(vault, vault')
    BY <1>4, <1>6 DEF Grows
<1>8. /\ DOMAIN owner' = DOMAIN owner \cup {p}
      /\ \A x \in DOMAIN owner' : owner'[x] = IF x \in DOMAIN owner THEN owner[x]
                                              ELSE req[r].scope
    BY <1>1 DEF InsertOrIgnore
<1>9. Final(vault', Base(r), o, p)
    <2>1. p = Candidate(Base(r), k) /\ p \in DOMAIN vault' /\ vault'[p] = o
        BY <1>6 DEF p
    <2>2. \A j \in 1..k-1 : Candidate(Base(r), j) \in DOMAIN vault'
                            /\ vault'[Candidate(Base(r), j)] # o
        BY <1>4, <1>7 DEF Grows
    <2> QED
        BY <1>4, <2>1, <2>2 DEF Final
<1>10. /\ DOMAIN q = Fields /\ q.state = "masking" /\ q.scope = req[r].scope
       /\ q.text = req[r].text /\ q.todo = req[r].todo \ {m} /\ q.plan = req[r].plan \cup {e}
    <2> HIDE DEF e
    <2> QED
        BY <1>1, <1>2 DEF Fields, RequestInv
<1>11. IsEntry(e, m, q, vault')
    <2>1. e.new = p
        OBVIOUS
    <2>2. Base(r) = DerivePlaceholder(req[r].scope, m.term) /\ o = SliceMatch(req[r].text, m)
        BY DEF Base, Original, o, m
    <2> HIDE DEF q
    <2> QED
        BY <1>9, <1>10, <2>1, <2>2 DEF IsEntry
<1> HIDE DEF q, e
<1>12. InOrder(q, vault')
    <2>1. InOrder(req[r], vault')
        BY <1>2, <1>7, InOrderStays
    <2>2. \A x, n : IsEntry(x, n, req[r], vault') => IsEntry(x, n, q, vault')
        BY <1>10 DEF IsEntry
    <2>3. ASSUME NEW x \in q.plan
          PROVE  \E n \in FindMatches(q.text) : IsEntry(x, n, q, vault')
        BY <1>3, <1>10, <1>11, <2>1, <2>2 DEF InOrder
    <2>4. ASSUME NEW n \in FindMatches(q.text) \ q.todo
          PROVE  \E x \in q.plan : IsEntry(x, n, q, vault')
        BY <1>10, <1>11, <2>1, <2>2 DEF InOrder
    <2> QED
        BY <1>10, <2>1, <2>3, <2>4 DEF InOrder
<1>13. RequestInv(q, vault')
    BY <1>10, <1>12 DEF RequestInv
<1>14. DOMAIN req' = Requests /\ \A x \in Requests : req'[x] = IF x = r THEN q ELSE req[x]
    BY <1>1 DEF MaskInv
<1>15. \A x \in Requests : RequestInv(req'[x], vault')
    <2>1. \A x \in Requests : RequestInv(req[x], vault')
        BY <1>7, RequestStays DEF MaskInv
    <2> QED
        BY <1>13, <1>14, <2>1
<1>16. DOMAIN owner' = DOMAIN vault'
    BY <1>6, <1>8 DEF MaskInv
<1>17. \A x \in DOMAIN vault' :
           IsPlaceholder(x) /\ vault'[x] \in Seq(Chars) /\ owner'[x] \in Scopes
    BY <1>o, <1>5, <1>6, <1>8 DEF MaskInv
<1> QED
    BY <1>14, <1>15, <1>16, <1>17 DEF MaskInv

LEMMA MaskStep == MaskInv /\ [Next]_vars => MaskInv'
<1> SUFFICES ASSUME MaskInv, [Next]_vars PROVE MaskInv'
    OBVIOUS
<1>1. CASE Next
    BY <1>1, StartKeeps, AssignKeeps, BlockKeeps, FinishKeeps DEF Next
<1>2. CASE UNCHANGED vars
    BY <1>2 DEF vars, MaskInv
<1> QED
    BY <1>1, <1>2

(* The vault and the plans of all requests agree: a plan holds the final   *)
(* placeholder of every match that was assigned one (engine.py:46-81,      *)
(* vault.py).                                                              *)
THEOREM MaskInvariant == Spec => []MaskInv
<1> QED
    BY MaskInit, MaskStep, PTL DEF Spec

(* Every row is a placeholder that unmask finds again as a whole.          *)
THEOREM MaskTypes == Spec => []TypeOK
<1>1. MaskInv => TypeOK
    BY PlaceholderMatches DEF MaskInv, RequestInv, TypeOK
<1> QED
    BY <1>1, MaskInvariant, PTL

(* The same text in the same scope is masked to the same text.             *)
THEOREM SameMask == Spec => []SameTextSameMask
<1>1. ASSUME MaskInv PROVE SameTextSameMask
    <2> SUFFICES ASSUME NEW r \in Masked, NEW q \in Masked,
                        req[r].text = req[q].text, req[r].scope = req[q].scope
                 PROVE  req[r].masked = req[q].masked
        BY DEF SameTextSameMask
    <2>1. ASSUME NEW x \in Masked
          PROVE  /\ InOrder(req[x], vault) /\ req[x].todo = {}
                 /\ req[x].masked = Rebuild(req[x].text, req[x].plan)
        BY <1>1 DEF Masked, MaskInv, RequestInv
    <2>2. ASSUME NEW a \in Masked, NEW b \in Masked, req[a].text = req[b].text,
                 req[a].scope = req[b].scope, NEW e \in req[a].plan
          PROVE  e \in req[b].plan
        <3>1. PICK m \in FindMatches(req[a].text) : IsEntry(e, m, req[a], vault)
            BY <2>1 DEF InOrder
        <3>2. PICK f \in req[b].plan : IsEntry(f, m, req[b], vault)
            BY <2>1, <2>2 DEF InOrder
        <3>3. e.new = f.new
            BY <2>2, <3>1, <3>2, FinalUnique DEF IsEntry
        <3> QED
            BY <3>1, <3>2, <3>3 DEF IsEntry
    <2>3. req[r].plan = req[q].plan
        BY <2>2
    <2> QED
        BY <2>1, <2>3
<1> QED
    BY <1>1, MaskInvariant, PTL

-----------------------------------------------------------------------------

(* What is restored from a place on is what its tail restores to.          *)
LEMMA RestoreAt ==
    ASSUME NEW S, NEW text \in Seq(S), NEW v, NEW h \in 1..Len(text)+1
    PROVE  RestoreFrom(text, v)[h] = Restore(SubSeq(text, h, Len(text)), v)
<1>1. CASE h = Len(text) + 1
    <2>1. SubSeq(text, h, Len(text)) = <<>>
        BY <1>1
    <2>2. RestoreFrom(text, v)[h] = RestoreStep(text, v, RestoreFrom(text, v), h)
        BY RestoreEquation
    <2>3. h > Len(text)
        BY <1>1
    <2>4. RestoreFrom(text, v)[h] = <<>>
        BY <2>2, <2>3 DEF RestoreStep
    <2> QED
        BY <2>1, <2>4, RestoreNothing
<1>2. CASE h \in 1..Len(text)
    <2>1. \A j \in 1..Len(text)-h+2 :
              RestoreFrom(SubSeq(text, h, Len(text)), v)[j] = RestoreFrom(text, v)[h + j - 1]
        BY <1>2, RestoreTail
    <2>2. 1 \in 1..Len(text)-h+2 /\ h + 1 - 1 = h
        BY <1>2
    <2>3. RestoreFrom(SubSeq(text, h, Len(text)), v)[1] = RestoreFrom(text, v)[h]
        BY <2>1, <2>2
    <2> QED
        BY <2>3, RestoreIs
<1> QED
    BY <1>1, <1>2

(* Characters at which no placeholder begins are copied.                   *)
LEMMA RestoreCopies ==
    ASSUME NEW S, NEW text \in Seq(S), NEW v, GivesTexts(v, S), NEW L \in 0..Len(text),
           \A i \in 1..L : ~MatchesAt(text, i)
    PROVE  Restore(text, v) =
               SubSeq(text, 1, L) \o Restore(SubSeq(text, L + 1, Len(text)), v)
<1> DEFINE n == Len(text)
           f == RestoreFrom(text, v)
           Done(i) == f[i] = SubSeq(text, i, L) \o f[L + 1]
           T == {k \in Nat : \A i \in 1..L+1 : i >= L + 1 - k => Done(i)}
<1>1. /\ n \in Nat /\ L \in Nat /\ L <= n
      /\ \A i \in 1..n+1 : f[i] = RestoreStep(text, v, f, i) /\ f[i] \in Seq(S)
    BY RestoreEquation, RestoreFromType
<1>2. f[1] = Restore(text, v) /\ f[L + 1] = Restore(SubSeq(text, L + 1, n), v)
    <2>1. L + 1 \in 1..n+1
        BY <1>1
    <2> QED
        BY <2>1, RestoreIs, RestoreAt
<1> HIDE DEF f
<1>3. 0 \in T
    <2>1. ASSUME NEW i \in 1..L+1, i >= L + 1 - 0
          PROVE  Done(i)
        <3>1. i = L + 1 /\ SubSeq(text, i, L) = <<>> /\ f[L + 1] \in Seq(S)
            BY <1>1, <2>1
        <3>2. <<>> \o f[L + 1] = f[L + 1]
            BY <3>1, ConcatEmptySeq
        <3> QED
            BY <3>1, <3>2, Zenon
    <2> HIDE DEF Done
    <2> QED
        BY <2>1
<1>4. ASSUME NEW k \in Nat, k \in T PROVE k + 1 \in T
    <2>1. ASSUME NEW i \in 1..L+1, i >= L + 1 - (k + 1)
          PROVE  Done(i)
        <3>1. CASE i >= L + 1 - k
            <4> HIDE DEF Done
            <4> QED
                BY <1>4, <3>1
        <3>2. CASE i \in 1..L
            <4>1. i + 1 \in 1..L+1 /\ i + 1 >= L + 1 - k /\ i \in 1..n+1 /\ ~(i > n)
                BY <1>1, <2>1, <3>2
            <4>2. Done(i + 1)
                <5> HIDE DEF Done
                <5> QED
                    BY <1>4, <4>1
            <4>3. f[i] = <<text[i]>> \o f[i + 1]
                BY <1>1, <3>2, <4>1 DEF RestoreStep
            <4>4. SubSeq(text, i, L) = <<text[i]>> \o SubSeq(text, i + 1, L)
                <5>1. SubSeq(text, i, i) = <<text[i]>>
                    <6>1. i \in 1..n /\ text[i] \in S
                        BY <1>1, <3>2
                    <6>2. /\ SubSeq(text, i, i) \in Seq(S) /\ Len(SubSeq(text, i, i)) = 1
                          /\ SubSeq(text, i, i)[1] = text[i]
                        BY <6>1
                    <6>3. <<text[i]>> \in Seq(S) /\ Len(<<text[i]>>) = 1 /\ <<text[i]>>[1] = text[i]
                        BY <6>1
                    <6> DEFINE x == SubSeq(text, i, i)
                               y == <<text[i]>>
                    <6>4. x \in Seq(S) /\ y \in Seq(S) /\ Len(x) = Len(y) /\ Len(x) = 1
                          /\ x[1] = y[1]
                        BY <6>2, <6>3
                    <6> HIDE DEF x, y
                    <6>5. x = y
                        <7>1. \A j \in 1..Len(x) : x[j] = y[j]
                            BY <6>4
                        <7> QED
                            BY <6>4, <7>1, SeqEqual, Zenon
                    <6> QED
                        BY <6>5 DEF x, y
                <5>2. SubSeq(text, i, i) \o SubSeq(text, i + 1, L) = SubSeq(text, i, L)
                    <6>1. i \in 1..n+1 /\ i \in i-1..n /\ L \in i..n
                        BY <1>1, <3>2
                    <6> QED
                        BY <6>1, ConcatAdjacentSubSeq
                <5> QED
                    BY <5>1, <5>2
            <4>5. <<text[i]>> \in Seq(S) /\ SubSeq(text, i + 1, L) \in Seq(S) /\ f[L + 1] \in Seq(S)
                BY <1>1, <3>2
            <4>6. (<<text[i]>> \o SubSeq(text, i + 1, L)) \o f[L + 1]
                     = <<text[i]>> \o (SubSeq(text, i + 1, L) \o f[L + 1])
                <5> DEFINE x == <<text[i]>>
                           y == SubSeq(text, i + 1, L)
                           z == f[L + 1]
                <5>1. x \in Seq(S) /\ y \in Seq(S) /\ z \in Seq(S)
                    BY <4>5
                <5> HIDE DEF x, y, z
                <5>2. (x \o y) \o z = x \o (y \o z)
                    BY <5>1, ConcatAssociative, SMTT(30)
                <5> QED
                    BY <5>2 DEF x, y, z
            <4> QED
                BY <4>2, <4>3, <4>4, <4>6, Zenon
        <3>3. i >= L + 1 - k \/ i \in 1..L
            BY <1>1, <1>4, <2>1
        <3> HIDE DEF Done
        <3> QED
            BY <3>1, <3>2, <3>3
    <2> HIDE DEF Done
    <2> QED
        BY <1>4, <2>1
<1>5. \A k \in Nat : k \in T
    <2> HIDE DEF T
    <2> QED
        BY <1>3, <1>4, NatSetInduction
<1>6. Done(1)
    <2>1. L \in T /\ 1 \in 1..L+1 /\ 1 >= L + 1 - L
        <3> HIDE DEF T
        <3> QED
            BY <1>1, <1>5
    <2> HIDE DEF Done
    <2> QED
        BY <2>1
<1> QED
    BY <1>2, <1>6

(* A placeholder at the beginning is looked up.                            *)
LEMMA RestoreLooksUp ==
    ASSUME NEW S, NEW text \in Seq(S), NEW v, text # <<>>, MatchesAt(text, 1)
    PROVE  LET e == MatchEnd(text, 1)
               p == SubSeq(text, 1, e)
           IN  Restore(text, v) = (IF p \in DOMAIN v THEN v[p] ELSE p)
                                      \o Restore(SubSeq(text, e + 1, Len(text)), v)
<1> DEFINE f == RestoreFrom(text, v)
           e == MatchEnd(text, 1)
           p == SubSeq(text, 1, e)
<1>1. 1 \in 1..Len(text) /\ Len(text) \in Nat
    BY EmptySeq
<1>2. e \in 1..Len(text)
    BY <1>1, MatchEndIn
<1>3. e + 1 \in 1..Len(text)+1 /\ 1 \in 1..Len(text)+1 /\ ~(1 > Len(text))
    BY <1>1, <1>2
<1>4. f[1] = RestoreStep(text, v, f, 1)
    BY <1>3, RestoreEquation
<1>5. f[1] = Restore(text, v) /\ f[e + 1] = Restore(SubSeq(text, e + 1, Len(text)), v)
    <2> HIDE DEF e
    <2> QED
        BY <1>3, RestoreIs, RestoreAt
<1> HIDE DEF f
<1>6. f[1] = (IF p \in DOMAIN v THEN v[p] ELSE p) \o f[e + 1]
    BY <1>3, <1>4, Zenon DEF RestoreStep
<1> HIDE DEF e, p
<1> QED
    BY <1>5, <1>6 DEF e, p

-----------------------------------------------------------------------------

LEMMA BodyInSegment ==
    ASSUME NEW S, NEW text \in Seq(S), NEW a \in 1..Len(text), NEW b \in a..Len(text),
           NEW i \in 1..b-a+1, NEW e \in i..b-a+1, e \in BodyEnds(SubSeq(text, a, b), i)
    PROVE  a + e - 1 \in BodyEnds(text, a + i - 1)
<1> DEFINE front == SubSeq(text, 1, b)
<1>1. /\ front \in Seq(S) /\ Len(front) = b /\ b \in 0..Len(text) /\ a \in 1..b
      /\ \A k \in 1..b : front[k] = text[k]
    OBVIOUS
<1> HIDE DEF front
<1>2. SubSeq(front, a, Len(front)) = SubSeq(text, a, b)
    <2>1. /\ SubSeq(front, a, b) \in Seq(S) /\ Len(SubSeq(front, a, b)) = b - a + 1
          /\ \A k \in 1..b-a+1 : SubSeq(front, a, b)[k] = front[a + k - 1]
        BY <1>1
    <2>2. /\ SubSeq(text, a, b) \in Seq(S) /\ Len(SubSeq(text, a, b)) = b - a + 1
          /\ \A k \in 1..b-a+1 : SubSeq(text, a, b)[k] = text[a + k - 1]
        BY <1>1
    <2>3. \A k \in 1..b-a+1 : a + k - 1 \in 1..b
        BY <1>1
    <2> QED
        BY <1>1, <2>1, <2>2, <2>3, SeqEqual
<1>3. e \in BodyEnds(SubSeq(front, a, Len(front)), i)
    BY <1>2
<1>4. i \in 1..Len(front)-a+1 /\ e \in i..Len(front)-a+1 /\ a \in 1..Len(front)
    BY <1>1
<1>5. a + e - 1 \in BodyEnds(front, a + i - 1)
    BY <1>1, <1>3, <1>4, BodyInTail
<1>6. a + i - 1 \in 1..b /\ a + e - 1 \in a+i-1..b
    BY <1>1
<1> QED
    BY <1>1, <1>5, <1>6, BodyInFront DEF front

(* No opener begins but at the first character of a placeholder: in a      *)
(* piece of a text without placeholders none begins, whatever opener       *)
(* follows.                                                                *)
LEMMA PieceIsPlain ==
    ASSUME UnambiguousFormat, NEW S, NEW text \in Seq(S), NEW a \in 1..Len(text)+1,
           NEW b \in a-1..Len(text), \A i \in 1..Len(text) : ~MatchesAt(text, i),
           NEW rest \in Seq(S), rest = <<>> \/ rest[1] = Opener[1]
    PROVE  LET L == b - a + 1
               all == SubSeq(text, a, b) \o rest
           IN  /\ all \in Seq(S) /\ L \in 0..Len(all)
               /\ SubSeq(all, 1, L) = SubSeq(text, a, b) /\ SubSeq(all, L + 1, Len(all)) = rest
               /\ \A i \in 1..L : ~MatchesAt(all, i)
<1> DEFINE seg == SubSeq(text, a, b)
           L == b - a + 1
           all == seg \o rest
           n == Len(text)
<1>1. /\ seg \in Seq(S) /\ Len(seg) = L /\ L \in Nat /\ n \in Nat
      /\ \A k \in 1..L : seg[k] = text[a + k - 1]
    OBVIOUS
<1>a. seg \in Seq(S) /\ Len(seg) = L /\ L \in Nat
    BY <1>1
<1> HIDE DEF seg, L
<1>2. /\ all \in Seq(S) /\ Len(all) = L + Len(rest) /\ Len(rest) \in Nat
      /\ \A k \in 1..L : all[k] = seg[k]
      /\ \A k \in 1..Len(rest) : all[L + k] = rest[k]
    <2>1. seg \in Seq(S) /\ rest \in Seq(S) /\ Len(rest) \in Nat
        BY <1>a
    <2>2. /\ all \in Seq(S) /\ Len(all) = Len(seg) + Len(rest)
          /\ \A k \in 1..Len(seg) : all[k] = seg[k]
          /\ \A k \in 1..Len(rest) : all[Len(seg) + k] = rest[k]
        BY <2>1, ConcatPlaces
    <2> HIDE DEF all
    <2> QED
        BY <1>a, <2>1, <2>2
<1> HIDE DEF all
<1>3. SubSeq(all, 1, L) = seg /\ SubSeq(all, L + 1, Len(all)) = rest
    <2>1. SubSeq(all, 1, L) = seg
        <3>1. SubSeq(all, 1, L) \in Seq(S) /\ Len(SubSeq(all, 1, L)) = L
              /\ \A k \in 1..L : SubSeq(all, 1, L)[k] = all[k]
            BY <1>1, <1>2
        <3> QED
            BY <1>1, <1>2, <3>1, SeqEqual
    <2>2. SubSeq(all, L + 1, Len(all)) = rest
        <3>1. /\ SubSeq(all, L + 1, Len(all)) \in Seq(S)
              /\ Len(SubSeq(all, L + 1, Len(all))) = Len(rest)
              /\ \A k \in 1..Len(rest) : SubSeq(all, L + 1, Len(all))[k] = all[L + k]
            BY <1>1, <1>2
        <3> QED
            BY <1>1, <1>2, <3>1, SeqEqual
    <2> QED
        BY <2>1, <2>2
<1>4. ASSUME NEW i \in 1..L, NEW e \in BodyEnds(all, i) PROVE FALSE
    <2>1. /\ e \in i..Len(all)
          /\ \A k \in i..e : all[k] = Opener[1] => k = i
        <3>1. i \in 1..Len(all)
            BY <1>1, <1>2
        <3>2. /\ e \in i..Len(all)
              /\ \A k \in i..e : (all[k] = Bracket => k = e) /\ (all[k] = Opener[1] => k = i)
            BY <1>2, <1>4, <3>1, BodyChars
        <3> QED
            BY <3>2
    <2>2. CASE e > L
        <3>1. L + 1 \in i..e /\ 1 \in 1..Len(rest) /\ L + 1 # i
            BY <1>1, <1>2, <2>1, <2>2
        <3>2. all[L + 1] = Opener[1]
            BY <1>2, <3>1, EmptySeq
        <3> QED
            BY <2>1, <3>1, <3>2
    <2>3. CASE e <= L
        <3>1. e \in i..L /\ L \in 0..Len(all)
            BY <1>1, <1>2, <2>1, <2>3
        <3>2. e \in BodyEnds(SubSeq(all, 1, L), i)
            BY <1>2, <1>4, <3>1, BodyInFront
        <3>3. e \in BodyEnds(seg, i)
            BY <1>3, <3>2
        <3>4. a + e - 1 \in BodyEnds(text, a + i - 1)
            <4>1. a \in 1..n /\ b \in a..n /\ i \in 1..b-a+1 /\ e \in i..b-a+1
                BY <1>1, <3>1, SMTT(60) DEF L
            <4> QED
                BY <3>3, <4>1, BodyInSegment DEF seg
        <3>5. a + i - 1 \in 1..n
            BY <1>1, SMTT(60) DEF L
        <3> QED
            BY <3>4, <3>5 DEF MatchesAt
    <2> QED
        BY <1>1, <2>1, <2>2, <2>3
<1>5. \A i \in 1..L : ~MatchesAt(all, i)
    BY <1>4 DEF MatchesAt
<1>6. L \in 0..Len(all)
    BY <1>1, <1>2
<1> QED
    BY <1>2, <1>3, <1>5, <1>6 DEF all, seg, L

(* So it is copied.                                                        *)
LEMMA PlainIsCopied ==
    ASSUME UnambiguousFormat, NEW S, NEW text \in Seq(S), NEW a \in 1..Len(text)+1,
           NEW b \in a-1..Len(text), \A i \in 1..Len(text) : ~MatchesAt(text, i),
           NEW rest \in Seq(S), rest = <<>> \/ rest[1] = Opener[1],
           NEW v, GivesTexts(v, S)
    PROVE  Restore(SubSeq(text, a, b) \o rest, v) = SubSeq(text, a, b) \o Restore(rest, v)
<1> DEFINE L == b - a + 1
           seg == SubSeq(text, a, b)
           all == seg \o rest
<1>1. /\ all \in Seq(S) /\ L \in 0..Len(all)
      /\ SubSeq(all, 1, L) = seg /\ SubSeq(all, L + 1, Len(all)) = rest
      /\ \A i \in 1..L : ~MatchesAt(all, i)
    BY PieceIsPlain, Zenon
<1> HIDE DEF all, L
<1>2. Restore(all, v) = SubSeq(all, 1, L) \o Restore(SubSeq(all, L + 1, Len(all)), v)
    BY <1>1, RestoreCopies
<1> QED
    BY <1>1, <1>2 DEF all

-----------------------------------------------------------------------------

(* The function by which Rebuild is defined, and its equation.             *)
RebuildStep(text, from, todo_) ==
    [cursor \in 0..Len(text) |->
        IF todo_ = {} THEN SubSeq(text, cursor + 1, Len(text))
        ELSE LET p == Leftmost(todo_)
             IN  SubSeq(text, cursor + 1, p.start) \o p.new \o from[todo_ \ {p}][p.end]]

RebuildFrom(text, plan) ==
    CHOOSE from : from = [todo_ \in SUBSET plan |-> RebuildStep(text, from, todo_)]

LEMMA RebuildIs ==
    ASSUME NEW text, NEW plan
    PROVE  Rebuild(text, plan) = RebuildFrom(text, plan)[plan][0]
BY Zenon DEF Rebuild, RebuildFrom, RebuildStep

(* Spans of a text of length n that do not overlap.                        *)
Apart(spans, n) ==
    /\ \A x \in spans : /\ x.start \in Nat /\ x.end \in Nat
                        /\ x.start < x.end /\ x.end <= n
    /\ \A x, y \in spans : x # y => (x.end <= y.start \/ y.end <= x.start)

(* What is left when the leftmost span is done begins behind it.           *)
LEMMA LeftmostGone ==
    ASSUME NEW n \in Nat, NEW spans, Apart(spans, n), spans # {}
    PROVE  LET p == Leftmost(spans)
           IN  /\ p \in spans /\ Apart(spans \ {p}, n)
               /\ \A x \in spans \ {p} : x.start >= p.end
<1> DEFINE p == Leftmost(spans)
<1>1. \A x \in spans : x.start \in Nat /\ x.end \in Nat /\ x.start < x.end
    BY DEF Apart
<1>2. p \in spans /\ \A x \in spans : p.start <= x.start
    BY <1>1, LeftmostIs
<1> HIDE DEF p
<1>3. ASSUME NEW x \in spans \ {p} PROVE x.start >= p.end
    <2>1. x.end <= p.start \/ p.end <= x.start
        BY <1>2 DEF Apart
    <2> QED
        BY <1>1, <1>2, <2>1
<1>4. Apart(spans \ {p}, n)
    BY DEF Apart
<1> QED
    BY <1>2, <1>3, <1>4 DEF p

LEMMA RebuildStepLocal ==
    ASSUME NEW text, NEW todo_, NEW f, NEW g,
           todo_ # {} => f[todo_ \ {Leftmost(todo_)}] = g[todo_ \ {Leftmost(todo_)}]
    PROVE  RebuildStep(text, f, todo_) = RebuildStep(text, g, todo_)
<1>1. CASE todo_ = {}
    BY <1>1 DEF RebuildStep
<1>2. CASE todo_ # {}
    BY <1>2 DEF RebuildStep
<1> QED
    BY <1>1, <1>2

LEMMA RebuildEquation ==
    ASSUME NEW text, Len(text) \in Nat, NEW plan, Apart(plan, Len(text))
    PROVE  \A spans \in SUBSET plan :
               RebuildFrom(text, plan)[spans] = RebuildStep(text, RebuildFrom(text, plan), spans)
<1> DEFINE n == Len(text)
           Level(k) == {spans \in SUBSET plan : \A x \in spans : x.start >= n - k}
           Defined(k) == \E f : f = [spans \in Level(k) |-> RebuildStep(text, f, spans)]
           T == {k \in Nat : Defined(k)}
<1>0. n \in Nat /\ \A x \in plan : x.start \in Nat /\ x.end \in Nat /\ x.start < x.end /\ x.end <= n
    BY DEF Apart
<1>1. 0 \in T
    <2>1. \A spans \in Level(0) : spans = {}
        BY <1>0
    <2> DEFINE f == [spans \in Level(0) |-> RebuildStep(text, 0, spans)]
    <2>2. DOMAIN f = Level(0) /\ \A spans \in Level(0) : f[spans] = RebuildStep(text, 0, spans)
        OBVIOUS
    <2>f. f = [spans \in Level(0) |-> f[spans]]
        OBVIOUS
    <2> HIDE DEF f, Level
    <2>3. \A spans \in Level(0) : f[spans] = RebuildStep(text, f, spans)
        BY <2>1, <2>2, RebuildStepLocal
    <2>4. f = [spans \in Level(0) |-> RebuildStep(text, f, spans)]
        <3>1. f = [spans \in Level(0) |-> f[spans]]
            BY <2>f
        <3>2. [spans \in Level(0) |-> f[spans]] = [spans \in Level(0) |-> RebuildStep(text, f, spans)]
            BY <2>3, Zenon
        <3> QED
            BY <3>1, <3>2, Zenon
    <2>5. Defined(0)
        BY <2>4, Zenon
    <2> HIDE DEF Defined
    <2> QED
        BY <2>5
<1>2. ASSUME NEW k \in Nat, k \in T PROVE k + 1 \in T
    <2>1. PICK f : f = [spans \in Level(k) |-> RebuildStep(text, f, spans)]
        BY <1>2
    <2>2. ASSUME NEW spans \in Level(k + 1), spans # {}
          PROVE  spans \ {Leftmost(spans)} \in Level(k) /\ spans \ {Leftmost(spans)} \in Level(k + 1)
        <3> DEFINE p == Leftmost(spans)
        <3>1. Apart(spans, n)
            BY DEF Apart
        <3>2. p \in spans /\ \A x \in spans \ {p} : x.start >= p.end
            BY <1>0, <2>2, <3>1, LeftmostGone
        <3> HIDE DEF p
        <3>3. p \in plan /\ p.start >= n - (k + 1)
            BY <3>2
        <3>4. \A x \in spans \ {p} : x \in plan /\ x.start >= n - k /\ x.start >= n - (k + 1)
            BY <1>0, <3>2, <3>3
        <3> QED
            BY <3>4 DEF p
    <2>3. Level(k) \subseteq Level(k + 1)
        BY <1>0
    <2> HIDE DEF Level
    <2> DEFINE g == [spans \in Level(k + 1) |->
                        IF spans \in Level(k) THEN f[spans] ELSE RebuildStep(text, f, spans)]
    <2>4. /\ DOMAIN g = Level(k + 1) /\ g = [spans \in DOMAIN g |-> g[spans]]
          /\ \A spans \in Level(k + 1) :
                g[spans] = IF spans \in Level(k) THEN f[spans] ELSE RebuildStep(text, f, spans)
        OBVIOUS
    <2>5. \A spans \in Level(k) : f[spans] = RebuildStep(text, f, spans)
        BY <2>1
    <2> HIDE DEF g
    <2>6. ASSUME NEW spans \in Level(k + 1) PROVE g[spans] = RebuildStep(text, g, spans)
        <3>1. g[spans] = RebuildStep(text, f, spans)
            BY <2>4, <2>5
        <3>2. spans # {} => f[spans \ {Leftmost(spans)}] = g[spans \ {Leftmost(spans)}]
            BY <2>2, <2>4
        <3>3. RebuildStep(text, f, spans) = RebuildStep(text, g, spans)
            BY <3>2, RebuildStepLocal
        <3> QED
            BY <3>1, <3>3
    <2>7. g = [spans \in Level(k + 1) |-> RebuildStep(text, g, spans)]
        <3>1. g = [spans \in Level(k + 1) |-> g[spans]]
            BY <2>4, Zenon
        <3>2. [spans \in Level(k + 1) |-> g[spans]]
                 = [spans \in Level(k + 1) |-> RebuildStep(text, g, spans)]
            BY <2>6, Zenon
        <3> QED
            BY <3>1, <3>2, Zenon
    <2>8. Defined(k + 1)
        BY <2>7, Zenon
    <2> HIDE DEF Defined
    <2> QED
        BY <2>8
<1>3. n \in T
    <2>1. \A k \in Nat : k \in T
        <3> HIDE DEF T
        <3> QED
            BY <1>1, <1>2, NatSetInduction
    <2> HIDE DEF T
    <2> QED
        BY <1>0, <2>1
<1>4. Level(n) = SUBSET plan
    <2>1. \A spans \in SUBSET plan : \A x \in spans : x.start >= n - n
        BY <1>0
    <2> QED
        BY <2>1
<1>5. \E f : f = [spans \in SUBSET plan |-> RebuildStep(text, f, spans)]
    <2>1. Defined(n)
        <3> HIDE DEF Defined
        <3> QED
            BY <1>3
    <2>2. \E f : f = [spans \in Level(n) |-> RebuildStep(text, f, spans)]
        BY <2>1
    <2> HIDE DEF Level
    <2> QED
        BY <1>4, <2>2
<1> DEFINE f == RebuildFrom(text, plan)
<1>6. f = [spans \in SUBSET plan |-> RebuildStep(text, f, spans)]
    BY <1>5, Zenon DEF RebuildFrom
<1> HIDE DEF f
<1>7. \A spans \in SUBSET plan : f[spans] = RebuildStep(text, f, spans)
    BY <1>6
<1> QED
    BY <1>7 DEF f

-----------------------------------------------------------------------------

(* A placeholder that no digit or hyphen follows is read as a whole.       *)
LEMMA PlaceholderIsRead ==
    ASSUME UnambiguousFormat, NEW S, NEW code \in Seq(CodeChars), code # <<>>, NEW d, IsText(d),
           d = <<>> \/ (Len(d) > 1 /\ d[1] = Hyphen /\ \A k \in 2..Len(d) : d[k] \in Digits),
           NEW p, p = Opener \o code \o Closer \o d, p \in Seq(S),
           NEW rest \in Seq(S), rest # <<>> => rest[1] \notin Digits \cup {Hyphen}
    PROVE  MatchesAt(p \o rest, 1) /\ MatchEnd(p \o rest, 1) = Len(p)
<1> DEFINE n == Len(Opener) + Len(code) + Len(Closer)
           D == Len(d)
           R == Len(rest)
           all == p \o rest
<1>1. /\ n \in Nat /\ D \in Nat /\ Len(p) = n + D
      /\ \A i \in 1..D : p[n + i] = d[i]
    BY PlaceholderChars
<1>2. n \in BodyEnds(p, 1)
    BY PlaceholderBody
<1>3. D = 0 \/ (D > 1 /\ d[1] = Hyphen /\ \A k \in 2..D : d[k] \in Digits)
    BY EmptySeq
<1> HIDE DEF n, D
<1>4. /\ all \in Seq(S) /\ Len(all) = Len(p) + R /\ R \in Nat
      /\ \A k \in 1..Len(p) : all[k] = p[k]
      /\ \A k \in 1..R : all[Len(p) + k] = rest[k]
    <2>1. p \in Seq(S) /\ rest \in Seq(S) /\ R \in Nat
        OBVIOUS
    <2> QED
        BY <2>1, ConcatPlaces, SMTT(60)
<1>5. R > 0 => rest[1] \notin Digits \cup {Hyphen}
    BY EmptySeq
<1> HIDE DEF all, R
<1>6. n \in 1..n+D /\ Len(p) \in 0..Len(all) /\ 1 \in 1..Len(all) /\ Len(all) \in Nat
    <2>1. n \in 1..Len(p)
        BY <1>2 DEF BodyEnds
    <2> QED
        BY <1>1, <1>4, <2>1
<1>7. SubSeq(all, 1, Len(p)) = p
    <2> DEFINE x == SubSeq(all, 1, Len(p))
    <2>1. /\ x \in Seq(S) /\ Len(x) = Len(p)
          /\ \A k \in 1..Len(p) : x[k] = all[k]
        <3> DEFINE l == Len(p)
        <3>1. l \in 0..Len(all) /\ all \in Seq(S) /\ l \in Nat
            BY <1>4, <1>6
        <3> HIDE DEF l
        <3>2. /\ SubSeq(all, 1, l) \in Seq(S) /\ Len(SubSeq(all, 1, l)) = l
              /\ \A k \in 1..l : SubSeq(all, 1, l)[k] = all[k]
            BY <3>1
        <3> QED
            BY <3>2 DEF l
    <2> HIDE DEF x
    <2>2. \A k \in 1..Len(x) : x[k] = p[k]
        BY <1>4, <2>1
    <2>3. x = p
        BY <2>1, <2>2, SeqEqual
    <2> QED
        BY <2>3 DEF x
<1>8. n \in BodyEnds(all, 1)
    <2>1. 1 \in 1..Len(p) /\ n \in 1..Len(p)
        BY <1>1, <1>6
    <2>2. n \in BodyEnds(SubSeq(all, 1, Len(p)), 1) <=> n \in BodyEnds(all, 1)
        BY <1>4, <1>6, <2>1, BodyInFront
    <2> QED
        BY <1>2, <1>7, <2>2
<1>9. MatchesAt(all, 1)
    BY <1>8 DEF MatchesAt
<1>10. Max(BodyEnds(all, 1)) = n
    <2> DEFINE e == Max(BodyEnds(all, 1))
    <2>1. e \in BodyEnds(all, 1) /\ n <= e
        BY <1>4, <1>6, <1>8, <1>9, LongestBody
    <2> HIDE DEF e
    <2>a. /\ n \in 1..Len(all) /\ all[n] = Bracket
          /\ \A k \in 1..n : (all[k] = Bracket => k = n) /\ (all[k] = Opener[1] => k = 1)
        <3>1. all \in Seq(S) /\ 1 \in 1..Len(all) /\ n \in BodyEnds(all, 1)
            BY <1>4, <1>6, <1>8
        <3> QED
            BY <3>1, BodyChars, SMTT(60)
    <2>2. all[n] = Bracket
        BY <2>a
    <2>b. /\ e \in 1..Len(all) /\ all[e] = Bracket
          /\ \A k \in 1..e : (all[k] = Bracket => k = e) /\ (all[k] = Opener[1] => k = 1)
        <3>1. all \in Seq(S) /\ 1 \in 1..Len(all) /\ e \in BodyEnds(all, 1)
            BY <1>4, <1>6, <2>1
        <3> QED
            BY <3>1, BodyChars, SMTT(60)
    <2>3. e \in 1..Len(all) /\ \A k \in 1..e : all[k] = Bracket => k = e
        BY <2>b
    <2>4. n \in 1..e
        BY <1>1, <1>6, <2>1, <2>3
    <2> QED
        BY <2>2, <2>3, <2>4 DEF e
<1> DEFINE E == Ends(all, n)
<1>11. MatchEnd(all, 1) \in E /\ \A y \in E : y <= MatchEnd(all, 1)
    BY <1>4, <1>6, <1>9, <1>10, MatchEndIs
<1>12. Len(p) \in E
    <2>1. CASE D = 0
        BY <1>1, <2>1 DEF Ends
    <2>2. CASE D # 0
        <3>1. n + D \in n+2..Len(all) /\ all[n + 1] = Hyphen
            <4>1. n + 1 \in 1..Len(p) /\ 1 \in 1..D
                BY <1>1, <1>3, <2>2
            <4>2. p[n + 1] = d[1] /\ d[1] = Hyphen
                BY <1>1, <1>3, <2>2, <4>1
            <4>3. all[n + 1] = p[n + 1]
                BY <1>4, <4>1
            <4>4. n + D \in n+2..Len(all)
                BY <1>1, <1>3, <1>4, <1>6, <2>2, SMTT(60)
            <4> QED
                BY <4>2, <4>3, <4>4
        <3>2. ASSUME NEW i \in n+2..n+D PROVE all[i] \in Digits
            <4>1. i - n \in 2..D /\ i - n \in 1..D /\ n + (i - n) = i /\ i \in 1..Len(p)
                BY <1>1
            <4> DEFINE k == i - n
            <4>2. k \in 2..D /\ k \in 1..D /\ n + k = i
                BY <4>1
            <4> HIDE DEF k
            <4>3. p[i] = d[k] /\ d[k] \in Digits
                <5>1. p[n + k] = d[k]
                    BY <1>1, <4>2
                <5>2. d[k] \in Digits
                    BY <1>3, <2>2, <4>2
                <5> QED
                    BY <4>2, <5>1, <5>2
            <4>4. all[i] = p[i]
                BY <1>4, <4>1
            <4> QED
                BY <4>3, <4>4
        <3> QED
            BY <1>1, <3>1, <3>2 DEF Ends
    <2> QED
        BY <2>1, <2>2
<1>13. ASSUME NEW y \in E PROVE y <= Len(p)
    <2>1. CASE y = n
        BY <1>1, <2>1
    <2>2. CASE /\ y \in n+2..Len(all) /\ all[n+1] = Hyphen
               /\ \A i \in n+2..y : all[i] \in Digits
        <3>1. SUFFICES ASSUME y > Len(p) PROVE FALSE
            BY <1>1, <2>2
        <3>2. 1 \in 1..R /\ R > 0 /\ all[Len(p) + 1] = rest[1]
            <4> DEFINE l == Len(p)
            <4>1. /\ l \in Nat /\ R \in Nat /\ y \in Nat /\ y <= l + R /\ y > l
                BY <1>1, <1>4, <1>6, <2>2, <3>1
            <4>2. \A k \in 1..R : all[l + k] = rest[k]
                BY <1>4
            <4> HIDE DEF l
            <4>3. 1 \in 1..R /\ R > 0
                BY <4>1
            <4>4. all[l + 1] = rest[1]
                BY <4>2, <4>3
            <4> QED
                BY <4>3, <4>4 DEF l
        <3>3. CASE D = 0
            BY <1>1, <1>5, <2>2, <3>2, <3>3
        <3>4. CASE D # 0
            <4>1. Len(p) + 1 \in n+2..y
                BY <1>1, <1>3, <2>2, <3>1, <3>4
            <4> QED
                BY <1>5, <2>2, <3>2, <4>1
        <3> QED
            BY <3>3, <3>4
    <2> QED
        BY <2>1, <2>2 DEF Ends
<1>14. MatchEnd(all, 1) \in Nat
    <2>1. E \subseteq Nat
        BY <1>1, <1>6 DEF Ends
    <2> QED
        BY <1>11, <2>1
<1> HIDE DEF E
<1>15. MatchEnd(all, 1) = Len(p)
    <2> DEFINE e == MatchEnd(all, 1)
               l == Len(p)
    <2>1. l \in Nat /\ e \in Nat
        BY <1>1, <1>14
    <2>2. l <= e /\ e <= l
        BY <1>11, <1>12, <1>13
    <2> HIDE DEF e, l
    <2>3. e = l
        BY <2>1, <2>2
    <2> QED
        BY <2>3 DEF e, l
<1> QED
    BY <1>9, <1>15 DEF all

-----------------------------------------------------------------------------

LEMMA PlaceholderBegins ==
    ASSUME UnambiguousFormat, NEW p, IsPlaceholder(p)
    PROVE  p \in Seq(Chars) /\ p # <<>> /\ p[1] = Opener[1] /\ Len(p) \in Nat \ {0}
<1>1. PICK code \in Seq(CodeChars), d \in Seq(Digits \cup {Hyphen}) :
          p = Opener \o code \o Closer \o d
    BY DEF IsPlaceholder
<1>2. IsText(d)
    BY DEF IsText, Range
<1>3. /\ Len(Opener) \in Nat /\ Len(code) \in Nat /\ Len(Closer) \in Nat /\ Len(d) \in Nat
      /\ p \in Seq(Range(Opener) \cup CodeChars \cup Range(Closer) \cup Range(d))
      /\ Len(p) = Len(Opener) + Len(code) + Len(Closer) + Len(d)
      /\ \A i \in 1..Len(Opener) : p[i] = Opener[i]
    BY <1>1, <1>2, PlaceholderChars
<1>4. Len(Opener) \in Nat \ {0} /\ 1 \in 1..Len(Opener)
    BY FormatFacts
<1>5. Range(Opener) \cup CodeChars \cup Range(Closer) \cup Range(d) \subseteq Chars
    <2>1. Range(d) \subseteq Digits \cup {Hyphen}
        BY DEF Range
    <2> QED
        BY <2>1 DEF Chars
<1>6. p \in Seq(Chars)
    <2> DEFINE U == Range(Opener) \cup CodeChars \cup Range(Closer) \cup Range(d)
    <2>1. U \subseteq Chars /\ p \in Seq(U)
        BY <1>3, <1>5
    <2> HIDE DEF U
    <2> QED
        BY <2>1
<1>7. Len(p) \in Nat \ {0} /\ p[1] = Opener[1]
    BY <1>3, <1>4
<1> QED
    BY <1>6, <1>7, EmptySeq

(* A placeholder with what follows it is read as a whole.                  *)
LEMMA PlaceholderRead ==
    ASSUME UnambiguousFormat, NEW p, IsPlaceholder(p), NEW rest \in Seq(Chars),
           rest # <<>> => rest[1] \notin Digits \cup {Hyphen}
    PROVE  MatchesAt(p \o rest, 1) /\ MatchEnd(p \o rest, 1) = Len(p)
<1>1. PICK code \in Seq(CodeChars), d \in Seq(Digits \cup {Hyphen}) :
          /\ code # <<>> /\ p = Opener \o code \o Closer \o d
          /\ d = <<>> \/ (Len(d) > 1 /\ d[1] = Hyphen /\ \A k \in 2..Len(d) : d[k] \in Digits)
    BY DEF IsPlaceholder
<1>2. IsText(d)
    BY DEF IsText, Range
<1>3. p \in Seq(Chars) /\ p # <<>> /\ Len(p) \in Nat \ {0}
    BY PlaceholderBegins
<1> QED
    BY <1>1, <1>2, <1>3, PlaceholderIsRead

(* A placeholder with what follows it is looked up, then that is restored. *)
LEMMA PlaceholderRestored ==
    ASSUME UnambiguousFormat, NEW p, IsPlaceholder(p), NEW rest \in Seq(Chars),
           rest # <<>> => rest[1] \notin Digits \cup {Hyphen}, NEW v, p \in DOMAIN v
    PROVE  Restore(p \o rest, v) = v[p] \o Restore(rest, v)
<1>3. p \in Seq(Chars) /\ p # <<>> /\ Len(p) \in Nat \ {0}
    BY PlaceholderBegins
<1> DEFINE all == p \o rest
           e == MatchEnd(all, 1)
<1>4. MatchesAt(all, 1) /\ e = Len(p)
    BY PlaceholderRead
<1>5. /\ all \in Seq(Chars) /\ Len(all) = Len(p) + Len(rest)
      /\ SubSeq(all, 1, Len(p)) = p /\ SubSeq(all, Len(p) + 1, Len(all)) = rest
    BY <1>3, SubSeqOfConcat1, SubSeqOfConcat2, SubSeqFull, ConcatProperties
<1>6. all # <<>>
    BY <1>3, <1>5, EmptySeq
<1> HIDE DEF all
<1> DEFINE q == SubSeq(all, 1, e)
           tail == Restore(SubSeq(all, e + 1, Len(all)), v)
<1>7. Restore(all, v) = (IF q \in DOMAIN v THEN v[q] ELSE q) \o tail
    BY <1>4, <1>5, <1>6, RestoreLooksUp
<1>8. q = p /\ tail = Restore(rest, v)
    BY <1>4, <1>5
<1> HIDE DEF q, tail
<1>9. Restore(all, v) = v[p] \o Restore(rest, v)
    BY <1>7, <1>8
<1> QED
    BY <1>9 DEF all

-----------------------------------------------------------------------------

(* A text none of whose characters begins a placeholder.                   *)
Plain(text) ==
    /\ text \in Seq(Chars)
    /\ \A i \in 1..Len(text) : ~MatchesAt(text, i)

(* What the rest of a masked text may begin with: a placeholder, or the    *)
(* character of the text the rest stands for.                              *)
OpensLike(X, text, c) ==
    X = <<>> \/ X[1] = Opener[1] \/ (c < Len(text) /\ X[1] = text[c + 1])

(* X is the rest of a masked text from the place c of text on.             *)
Stands(X, text, c, v) ==
    /\ X \in Seq(Chars)
    /\ Restore(X, v) = SubSeq(text, c + 1, Len(text))
    /\ OpensLike(X, text, c)

LEMMA LastStands ==
    ASSUME UnambiguousFormat, NEW text, Plain(text), NEW v, GivesTexts(v, Chars),
           NEW c \in 0..Len(text)
    PROVE  Stands(SubSeq(text, c + 1, Len(text)), text, c, v)
<1> DEFINE n == Len(text)
           X == SubSeq(text, c + 1, n)
<1>1. n \in Nat /\ text \in Seq(Chars) /\ c \in 0..n
    BY DEF Plain
<1>2. /\ X \in Seq(Chars) /\ Len(X) = n - c
      /\ \A k \in 1..n-c : X[k] = text[c + k]
    <2>1. c + 1 \in 1..n+1
        BY <1>1
    <2> QED
        BY <1>1, <2>1
<1>3. Restore(X, v) = X
    <2>1. <<>> \in Seq(Chars) /\ c + 1 \in 1..n+1 /\ n \in (c+1)-1..n
        BY <1>1, EmptySeq
    <2>a. \A i \in 1..Len(text) : ~MatchesAt(text, i)
        BY DEF Plain
    <2>2. Restore(X \o <<>>, v) = X \o Restore(<<>>, v)
        <3> DEFINE a == c + 1
                   e == <<>>
        <3>1. a \in 1..Len(text)+1 /\ n \in a-1..Len(text)
            BY <2>1
        <3>2. e \in Seq(Chars) /\ (e = <<>> \/ e[1] = Opener[1])
            BY <2>1
        <3> HIDE DEF a, e
        <3>3. Restore(SubSeq(text, a, n) \o e, v) = SubSeq(text, a, n) \o Restore(e, v)
            <4>1. text \in Seq(Chars) /\ GivesTexts(v, Chars)
                BY <1>1
            <4> QED
                BY <2>a, <3>1, <3>2, <4>1, PlainIsCopied, SMTT(60)
        <3> QED
            BY <3>3 DEF a, e
    <2> HIDE DEF X
    <2> QED
        BY <1>2, <2>2, RestoreNothing, ConcatEmptySeq
<1>4. OpensLike(X, text, c)
    <2>1. CASE c < n
        <3>1. X[1] = text[c + 1]
            BY <1>1, <1>2, <2>1
        <3> QED
            BY <2>1, <3>1 DEF OpensLike
    <2>2. CASE ~(c < n)
        <3>1. Len(X) = 0
            BY <1>1, <1>2, <2>2
        <3> HIDE DEF X
        <3> QED
            BY <1>2, <3>1, EmptySeq DEF OpensLike
    <2> QED
        BY <2>1, <2>2
<1> HIDE DEF X
<1>5. Stands(X, text, c, v)
    BY <1>2, <1>3, <1>4 DEF Stands
<1> QED
    BY <1>5 DEF X

(* A piece of the text, a placeholder, and what stands for the rest.       *)
LEMMA PieceStands ==
    ASSUME UnambiguousFormat, Opener[1] \notin Digits \cup {Hyphen},
           NEW text, Plain(text), NEW v, GivesTexts(v, Chars),
           NEW p, IsPlaceholder(p), p \in DOMAIN v,
           NEW c \in 0..Len(text), NEW a \in c..Len(text), NEW b \in a..Len(text),
           v[p] = SubSeq(text, a + 1, b),
           b < Len(text) => text[b + 1] \notin Digits \cup {Hyphen},
           NEW Y, Stands(Y, text, b, v)
    PROVE  Stands(SubSeq(text, c + 1, a) \o p \o Y, text, c, v)
<1> DEFINE n == Len(text)
           seg == SubSeq(text, c + 1, a)
           rest == p \o Y
           X == seg \o p \o Y
<1>1. n \in Nat /\ text \in Seq(Chars) /\ c \in Nat /\ a \in Nat /\ b \in Nat
      /\ c <= a /\ a <= b /\ b <= n
    BY DEF Plain
<1>x. text \in Seq(Chars) /\ UnambiguousFormat /\ GivesTexts(v, Chars)
    BY <1>1
<1>2. /\ seg \in Seq(Chars) /\ Len(seg) = a - c
      /\ a > c => seg[1] = text[c + 1]
    <2>1. c + 1 \in 1..n+1 /\ a \in 0..n
        BY <1>1
    <2> QED
        BY <1>1, <2>1
<1>3. p \in Seq(Chars) /\ p # <<>> /\ p[1] = Opener[1] /\ Len(p) \in Nat \ {0}
    BY PlaceholderBegins
<1>4. Y \in Seq(Chars) /\ Restore(Y, v) = SubSeq(text, b + 1, n) /\ OpensLike(Y, text, b)
    BY DEF Stands
<1>5. /\ rest \in Seq(Chars) /\ rest # <<>> /\ rest[1] = Opener[1]
    <2>1. /\ rest \in Seq(Chars) /\ Len(rest) = Len(p) + Len(Y)
          /\ \A i \in 1..Len(p) : rest[i] = p[i]
        BY <1>3, <1>4, ConcatPlaces
    <2>2. 1 \in 1..Len(p) /\ Len(Y) \in Nat
        BY <1>3, <1>4
    <2>3. rest[1] = Opener[1] /\ Len(rest) # 0
        BY <1>3, <2>1, <2>2
    <2> QED
        BY <2>1, <2>3, EmptySeq
<1>6. Y # <<>> => Y[1] \notin Digits \cup {Hyphen}
    BY <1>4 DEF OpensLike
<1>7. Restore(rest, v) = SubSeq(text, a + 1, n)
    <2>1. Restore(rest, v) = v[p] \o Restore(Y, v)
        BY <1>4, <1>6, PlaceholderRestored
    <2>2. a + 1 \in 1..n+1 /\ b \in (a+1)-1..n /\ n \in b..n
        BY <1>1
    <2>3. SubSeq(text, a + 1, b) \o SubSeq(text, b + 1, n) = SubSeq(text, a + 1, n)
        BY <1>1, <2>2, ConcatAdjacentSubSeq
    <2> QED
        BY <1>4, <2>1, <2>3
<1>8. Restore(seg \o rest, v) = seg \o Restore(rest, v)
    <2>1. c + 1 \in 1..n+1 /\ a \in (c+1)-1..n
        BY <1>1
    <2>a. \A i \in 1..Len(text) : ~MatchesAt(text, i)
        BY DEF Plain
    <2> DEFINE d == c + 1
    <2>2. d \in 1..Len(text)+1 /\ a \in d-1..Len(text)
        BY <2>1
    <2>3. rest \in Seq(Chars) /\ (rest = <<>> \/ rest[1] = Opener[1])
        BY <1>5
    <2> HIDE DEF rest, d
    <2>4. Restore(SubSeq(text, d, a) \o rest, v) = SubSeq(text, d, a) \o Restore(rest, v)
        BY <1>x, <2>a, <2>2, <2>3, PlainIsCopied, SMTT(60)
    <2> QED
        BY <2>4 DEF d
<1>9. seg \o SubSeq(text, a + 1, n) = SubSeq(text, c + 1, n)
    <2>1. c + 1 \in 1..n+1 /\ a \in (c+1)-1..n /\ n \in a..n
        BY <1>1
    <2> QED
        BY <1>1, <2>1, ConcatAdjacentSubSeq
<1>10. X = seg \o rest
    <2> HIDE DEF seg
    <2> QED
        <3>1. seg \in Seq(Chars) /\ p \in Seq(Chars) /\ Y \in Seq(Chars)
            BY <1>2, <1>3, <1>4
        <3>2. (seg \o p) \o Y = seg \o (p \o Y)
            BY ONLY <3>1, ConcatAssociative, SMTT(60)
        <3> QED
            BY <3>2
<1> HIDE DEF seg, rest
<1>11. /\ seg \o rest \in Seq(Chars) /\ Len(seg \o rest) = (a - c) + Len(rest)
       /\ \A i \in 1..Len(seg) : (seg \o rest)[i] = seg[i]
    <2>1. seg \in Seq(Chars) /\ rest \in Seq(Chars)
        BY <1>2, <1>5
    <2>2. /\ seg \o rest \in Seq(Chars) /\ Len(seg \o rest) = Len(seg) + Len(rest)
          /\ \A i \in 1..Len(seg) : (seg \o rest)[i] = seg[i]
        BY <2>1, ConcatPlaces
    <2> QED
        BY <1>2, <2>2
<1>12. OpensLike(seg \o rest, text, c)
    <2>1. CASE a > c
        <3>1. 1 \in 1..Len(seg)
            BY <1>1, <1>2, <2>1
        <3>2. (seg \o rest)[1] = text[c + 1] /\ c < Len(text)
            BY <1>1, <1>2, <1>11, <2>1, <3>1
        <3> QED
            BY <3>2 DEF OpensLike
    <2>2. CASE a = c
        <3>1. seg = <<>>
            BY <1>1, <1>2, <2>2, EmptySeq
        <3>2. seg \o rest = rest
            BY <1>5, <3>1, ConcatEmptySeq
        <3> QED
            BY <1>5, <3>2 DEF OpensLike
    <2> QED
        BY <1>1, <2>1, <2>2
<1> HIDE DEF X
<1>13. Stands(X, text, c, v)
    BY <1>7, <1>8, <1>9, <1>10, <1>11, <1>12 DEF Stands
<1> QED
    BY <1>13 DEF X, seg

(* An entry of a plan: its placeholder gives back what it replaces, and no *)
(* digit or hyphen follows what it replaces.                               *)
GivesBack(e, text, v) ==
    /\ IsPlaceholder(e.new) /\ e.new \in DOMAIN v
    /\ v[e.new] = SubSeq(text, e.start + 1, e.end)
    /\ e.end < Len(text) => text[e.end + 1] \notin Digits \cup {Hyphen}

(* Whatever of the plan is left to do, _rebuild makes something that is    *)
(* restored to the rest of the text.                                       *)
LEMMA RebuildStands ==
    ASSUME UnambiguousFormat, Opener[1] \notin Digits \cup {Hyphen},
           NEW text, Plain(text), NEW v, GivesTexts(v, Chars),
           NEW plan, Apart(plan, Len(text)), \A e \in plan : GivesBack(e, text, v)
    PROVE  \A spans \in SUBSET plan : \A c \in 0..Len(text) : (\A x \in spans : c <= x.start)
               => Stands(RebuildFrom(text, plan)[spans][c], text, c, v)
<1> DEFINE n == Len(text)
           f == RebuildFrom(text, plan)
           Good(spans) == \A c \in 0..n : (\A x \in spans : c <= x.start)
                                            => Stands(f[spans][c], text, c, v)
           T == {k \in Nat : \A spans \in SUBSET plan :
                                (\A x \in spans : x.start >= n - k) => Good(spans)}
<1>0. /\ n \in Nat /\ text \in Seq(Chars)
      /\ \A x \in plan : x.start \in Nat /\ x.end \in Nat /\ x.start < x.end /\ x.end <= n
    BY DEF Plain, Apart
<1>1. \A spans \in SUBSET plan : f[spans] = RebuildStep(text, f, spans)
    BY <1>0, RebuildEquation
<1> HIDE DEF f
<1>2. Good({})
    <2>1. f[{}] = RebuildStep(text, f, {})
        BY <1>1
    <2>2. ASSUME NEW c \in 0..n PROVE Stands(f[{}][c], text, c, v)
        <3>1. f[{}][c] = SubSeq(text, c + 1, n)
            BY <2>1 DEF RebuildStep
        <3>2. Stands(SubSeq(text, c + 1, n), text, c, v)
            BY LastStands
        <3> QED
            BY <3>1, <3>2
    <2> QED
        BY <2>2
<1>3. 0 \in T
    <2>1. ASSUME NEW spans \in SUBSET plan, \A x \in spans : x.start >= n - 0
          PROVE  spans = {}
        BY <1>0, <2>1
    <2> HIDE DEF Good
    <2> QED
        BY <1>2, <2>1
<1>4. ASSUME NEW k \in Nat, k \in T PROVE k + 1 \in T
    <2>1. ASSUME NEW spans \in SUBSET plan, \A x \in spans : x.start >= n - (k + 1),
                 spans # {}, NEW c \in 0..n, \A x \in spans : c <= x.start
          PROVE  Stands(f[spans][c], text, c, v)
        <3> DEFINE p == Leftmost(spans)
                   rest == spans \ {p}
        <3>1. Apart(spans, n)
            BY DEF Apart
        <3>2. p \in spans /\ \A x \in rest : x.start >= p.end
            BY <1>0, <2>1, <3>1, LeftmostGone
        <3>3. f[spans][c] = SubSeq(text, c + 1, p.start) \o p.new \o f[rest][p.end]
            <4>1. f[spans] = RebuildStep(text, f, spans)
                BY <1>1
            <4> HIDE DEF p, rest
            <4> QED
                BY <2>1, <4>1 DEF RebuildStep, p, rest
        <3> HIDE DEF p
        <3>4. p \in plan /\ p.start \in c..n /\ p.end \in p.start..n /\ p.end \in 0..n
              /\ p.start >= n - (k + 1) /\ p.start < p.end
            <4>1. p \in plan /\ p.start >= n - (k + 1) /\ c <= p.start
                BY <2>1, <3>2
            <4> QED
                BY <1>0, <4>1
        <3>5. Stands(f[rest][p.end], text, p.end, v)
            <4>1. rest \in SUBSET plan /\ \A x \in rest : x.start >= n - k
                <5>1. ASSUME NEW x \in rest PROVE x \in plan /\ x.start >= n - k
                    <6>1. x \in plan /\ x.start >= p.end /\ x.start \in Nat
                        BY <1>0, <3>2
                    <6> QED
                        BY <1>0, <3>4, <6>1
                <5> QED
                    BY <5>1
            <4> HIDE DEF rest
            <4>2. Good(rest)
                <5> HIDE DEF Good
                <5> QED
                    BY <1>4, <4>1
            <4>3. \A x \in rest : p.end <= x.start
                <5>1. ASSUME NEW x \in rest PROVE p.end <= x.start
                    <6>1. x.start >= p.end
                        BY <3>2
                    <6> QED
                        BY <6>1
                <5> QED
                    BY <5>1
            <4> QED
                BY <3>4, <4>2, <4>3
        <3>6. GivesBack(p, text, v)
            BY <3>4
        <3> HIDE DEF rest
        <3> DEFINE a == p.start
                   b == p.end
                   new == p.new
                   Y == f[rest][b]
        <3>7. /\ a \in c..n /\ b \in a..n /\ IsPlaceholder(new) /\ new \in DOMAIN v
              /\ v[new] = SubSeq(text, a + 1, b) /\ Stands(Y, text, b, v)
              /\ b < n => text[b + 1] \notin Digits \cup {Hyphen}
            BY <3>4, <3>5, <3>6 DEF GivesBack
        <3>8. f[spans][c] = SubSeq(text, c + 1, a) \o new \o Y
            BY <3>3
        <3> HIDE DEF a, b, new, Y
        <3>9. Stands(SubSeq(text, c + 1, a) \o new \o Y, text, c, v)
            <4>1. /\ UnambiguousFormat /\ Opener[1] \notin Digits \cup {Hyphen}
                  /\ Plain(text) /\ GivesTexts(v, Chars)
                OBVIOUS
            <4>2. /\ c \in 0..Len(text) /\ a \in c..Len(text) /\ b \in a..Len(text)
                  /\ IsPlaceholder(new) /\ new \in DOMAIN v
                  /\ v[new] = SubSeq(text, a + 1, b) /\ Stands(Y, text, b, v)
                  /\ b < Len(text) => text[b + 1] \notin Digits \cup {Hyphen}
                BY <2>1, <3>7
            <4> QED
                BY <4>1, <4>2, PieceStands, Zenon
        <3> QED
            BY <3>8, <3>9
    <2>2. ASSUME NEW spans \in SUBSET plan, \A x \in spans : x.start >= n - (k + 1)
          PROVE  Good(spans)
        <3>1. CASE spans = {}
            <4> HIDE DEF Good
            <4> QED
                BY <1>2, <3>1
        <3>2. CASE spans # {}
            BY <2>1, <2>2, <3>2
        <3> QED
            BY <3>1, <3>2
    <2> HIDE DEF Good
    <2> QED
        BY <2>2
<1>5. \A k \in Nat : k \in T
    <2> HIDE DEF T
    <2> QED
        BY <1>3, <1>4, NatSetInduction
<1>6. \A spans \in SUBSET plan : Good(spans)
    <2>1. n \in T
        <3> HIDE DEF T
        <3> QED
            BY <1>0, <1>5
    <2>2. \A x \in plan : x.start >= n - n
        BY <1>0
    <2> HIDE DEF Good
    <2> QED
        BY <2>1, <2>2
<1> QED
    BY <1>6 DEF f

(* Restoring what _rebuild made of a text gives the text.                  *)
LEMMA RebuildRestores ==
    ASSUME UnambiguousFormat, Opener[1] \notin Digits \cup {Hyphen},
           NEW text, Plain(text), NEW v, GivesTexts(v, Chars),
           NEW plan, Apart(plan, Len(text)), \A e \in plan : GivesBack(e, text, v)
    PROVE  Restore(Rebuild(text, plan), v) = text
<1> DEFINE f == RebuildFrom(text, plan)
<1>1. Len(text) \in Nat /\ text \in Seq(Chars) /\ \A x \in plan : 0 <= x.start
    BY DEF Plain, Apart
<1>2. plan \in SUBSET plan /\ 0 \in 0..Len(text)
    BY <1>1
<1>3. Stands(f[plan][0], text, 0, v)
    BY <1>1, <1>2, RebuildStands
<1>4. f[plan][0] = Rebuild(text, plan)
    BY RebuildIs
<1>5. SubSeq(text, 0 + 1, Len(text)) = text
    BY <1>1, SubSeqFull
<1> QED
    BY <1>3, <1>4, <1>5 DEF Stands

(* Texts in which no placeholder stands, and where no digit or hyphen      *)
(* follows what is masked.                                                 *)
PlainTexts ==
    \A text \in Texts :
        /\ \A i \in 1..Len(text) : ~MatchesAt(text, i)
        /\ \A m \in FindMatches(text) :
              m.end < Len(text) => text[m.end + 1] \notin Digits \cup {Hyphen}

(* What is known of a masked text: the plan it was rebuilt with has an     *)
(* entry for every match, and the entries give their texts back.           *)
LEMMA MaskedIsRead ==
    ASSUME PlainTexts, MaskInv, NEW r \in Masked
    PROVE  /\ req[r].masked = Rebuild(req[r].text, req[r].plan) /\ req[r].text \in Texts
           /\ Plain(req[r].text) /\ GivesTexts(vault, Chars)
           /\ Apart(req[r].plan, Len(req[r].text))
           /\ \A e \in req[r].plan : GivesBack(e, req[r].text, vault)
           /\ \A m \in FindMatches(req[r].text) :
                 \E e \in req[r].plan : e.start = m.start /\ e.end = m.end
<1> DEFINE text == req[r].text
           plan == req[r].plan
<1>1. /\ InOrder(req[r], vault) /\ req[r].masked = Rebuild(text, plan)
      /\ text \in Texts /\ IsText(text)
    BY TextsAssumption DEF Masked, MaskInv, RequestInv, InOrder
<1>2. Plain(text) /\ Len(text) \in Nat
    BY <1>1, TextInChars DEF Plain, PlainTexts
<1>3. GivesTexts(vault, Chars)
    BY DEF MaskInv, GivesTexts
<1>4. \A e \in plan : \E m \in FindMatches(text) : IsEntry(e, m, req[r], vault)
    BY <1>1 DEF InOrder
<1>5. ASSUME NEW e \in plan, NEW m \in FindMatches(text), IsEntry(e, m, req[r], vault)
      PROVE  /\ e = [start |-> m.start, end |-> m.end, term |-> m.term, new |-> e.new]
             /\ e.start = m.start /\ e.end = m.end
             /\ e.new \in DOMAIN vault /\ vault[e.new] = SliceMatch(text, m)
             /\ Final(vault, DerivePlaceholder(req[r].scope, m.term), SliceMatch(text, m), e.new)
    <2>1. e = [start |-> m.start, end |-> m.end, term |-> m.term, new |-> e.new]
        BY <1>5 DEF IsEntry
    <2>2. Final(vault, DerivePlaceholder(req[r].scope, m.term), SliceMatch(text, m), e.new)
        BY <1>5 DEF IsEntry
    <2>3. e.start = m.start /\ e.end = m.end
        BY <2>1
    <2> QED
        BY <2>1, <2>2, <2>3 DEF Final
<1>6. ASSUME NEW e \in plan
      PROVE  /\ e.start \in Nat /\ e.end \in Nat /\ e.start < e.end /\ e.end <= Len(text)
             /\ GivesBack(e, text, vault)
    <2>1. PICK m \in FindMatches(text) : IsEntry(e, m, req[r], vault)
        BY <1>4
    <2>2. InText(m, Len(text), Sourced) /\ m.start < m.end
        BY <1>1, MatchesIn DEF IsSpan
    <2>3. IsPlaceholder(e.new)
        BY <1>5, <2>1 DEF MaskInv
    <2>4. e.end < Len(text) => text[e.end + 1] \notin Digits \cup {Hyphen}
        BY <1>1, <1>5, <2>1 DEF PlainTexts
    <2>5. vault[e.new] = SubSeq(text, e.start + 1, e.end) /\ e.new \in DOMAIN vault
        BY <1>5, <2>1 DEF SliceMatch
    <2>6. e.start \in Nat /\ e.end \in Nat /\ e.start < e.end /\ e.end <= Len(text)
        <3>1. m.start \in Nat /\ m.end \in Nat /\ m.start < m.end /\ m.end <= Len(text)
            BY <1>2, <2>2 DEF InText
        <3>2. e.start = m.start /\ e.end = m.end
            BY <1>5, <2>1
        <3> QED
            BY <3>1, <3>2
    <2> QED
        BY <2>3, <2>4, <2>5, <2>6 DEF GivesBack
<1>7. ASSUME NEW x \in plan, NEW y \in plan, x # y
      PROVE  x.end <= y.start \/ y.end <= x.start
    <2>1. PICK a \in FindMatches(text) : IsEntry(x, a, req[r], vault)
        BY <1>4
    <2>2. PICK b \in FindMatches(text) : IsEntry(y, b, req[r], vault)
        BY <1>4
    <2>3. a # b
        <3>1. SUFFICES ASSUME a = b PROVE x = y
            BY <1>7
        <3>2. x.new = y.new
            BY <1>5, <2>1, <2>2, <3>1, FinalUnique
        <3> QED
            BY <1>5, <2>1, <2>2, <3>1, <3>2
    <2> HIDE DEF text
    <2>4. a.end <= b.start \/ b.end <= a.start
        BY <1>1, <2>1, <2>2, <2>3, MatchesApart
    <2> QED
        BY <1>5, <2>1, <2>2, <2>4
<1>8. \A m \in FindMatches(text) : \E e \in plan : e.start = m.start /\ e.end = m.end
    <2>1. \A m \in FindMatches(text) : \E e \in plan : IsEntry(e, m, req[r], vault)
        BY <1>1 DEF InOrder, Masked, MaskInv, RequestInv
    <2> QED
        BY <1>5, <2>1
<1> HIDE DEF text, plan
<1>9. Apart(plan, Len(text))
    BY <1>6, <1>7 DEF Apart
<1> QED
    BY <1>1, <1>2, <1>3, <1>6, <1>8, <1>9 DEF text, plan

(* unmask of what mask made of a text gives the text, whatever was masked  *)
(* in between (engine.py:46-81 and 122).                                   *)
THEOREM MaskUnmask ==
    ASSUME UnambiguousFormat, Opener[1] \notin Digits \cup {Hyphen}, PlainTexts
    PROVE  Spec => []RoundTrip
<1>1. ASSUME MaskInv, NEW r \in Masked
      PROVE  Restore(req[r].masked, vault) = req[r].text
    BY <1>1, MaskedIsRead, RebuildRestores
<1>2. MaskInv => RoundTrip
    BY <1>1 DEF RoundTrip
<1> QED
    BY <1>2, MaskInvariant, PTL

-----------------------------------------------------------------------------

(* The function by which NamespaceSpans is defined, and its equation.      *)
SpansStep(text, from, i) ==
    IF i > Len(text) THEN {}
    ELSE IF MatchesAt(text, i)
         THEN {<<i, MatchEnd(text, i)>>} \cup from[MatchEnd(text, i) + 1]
         ELSE from[i + 1]

SpansFrom(text) ==
    CHOOSE from : from = [i \in 1..Len(text)+1 |->
        IF i > Len(text) THEN {}
        ELSE IF MatchesAt(text, i)
             THEN {<<i, MatchEnd(text, i)>>} \cup from[MatchEnd(text, i) + 1]
             ELSE from[i + 1]]

LEMMA SpansAre ==
    ASSUME NEW text
    PROVE  NamespaceSpans(text) = SpansFrom(text)[1]
BY DEF NamespaceSpans, SpansFrom

LEMMA SpansStepLocal ==
    ASSUME NEW S, NEW text \in Seq(S), NEW i \in 1..Len(text)+1, NEW f, NEW g,
           \A j \in i+1..Len(text)+1 : f[j] = g[j]
    PROVE  SpansStep(text, f, i) = SpansStep(text, g, i)
<1>1. CASE i > Len(text)
    BY <1>1 DEF SpansStep
<1>2. CASE i \in 1..Len(text) /\ MatchesAt(text, i)
    <2>1. MatchEnd(text, i) + 1 \in i+1..Len(text)+1
        BY <1>2, MatchEndIn
    <2>2. f[MatchEnd(text, i) + 1] = g[MatchEnd(text, i) + 1]
        BY <2>1
    <2> QED
        BY <1>2, <2>2 DEF SpansStep
<1>3. CASE i \in 1..Len(text) /\ ~MatchesAt(text, i)
    <2>1. f[i + 1] = g[i + 1]
        BY <1>3
    <2> QED
        BY <1>3, <2>1 DEF SpansStep
<1> QED
    BY <1>1, <1>2, <1>3

LEMMA SpansEquation ==
    ASSUME NEW S, NEW text \in Seq(S)
    PROVE  \A i \in 1..Len(text)+1 :
               SpansFrom(text)[i] = SpansStep(text, SpansFrom(text), i)
<1> DEFINE n == Len(text)
           Defined(k) == \E f : f = [i \in n+2-k..n+1 |-> SpansStep(text, f, i)]
           T == {k \in Nat : k <= n + 1 => Defined(k)}
<1>0. n \in Nat
    OBVIOUS
<1>1. 0 \in T
    <2>1. [i \in n+2-0..n+1 |-> 0] =
          [i \in n+2-0..n+1 |-> SpansStep(text, [j \in n+2-0..n+1 |-> 0], i)]
        <3>1. n+2-0..n+1 = {}
            BY <1>0
        <3> QED
            BY <3>1
    <2>2. Defined(0)
        BY <2>1
    <2> HIDE DEF Defined
    <2> QED
        BY <2>2
<1>2. ASSUME NEW k \in Nat, k \in T
      PROVE  k + 1 \in T
    <2>1. SUFFICES ASSUME k + 1 <= n + 1 PROVE Defined(k + 1)
        <3> HIDE DEF Defined, n
        <3> QED
            BY <1>0
    <2>2. PICK f : f = [i \in n+2-k..n+1 |-> SpansStep(text, f, i)]
        BY <1>0, <1>2, <2>1
    <2> DEFINE D == n+2-(k+1)..n+1
               g == [i \in D |-> IF i \in n+2-k..n+1 THEN f[i]
                                 ELSE SpansStep(text, f, i)]
    <2>3. \A i \in D : g[i] = IF i \in n+2-k..n+1 THEN f[i]
                              ELSE SpansStep(text, f, i)
        OBVIOUS
    <2>4. DOMAIN g = D /\ g = [i \in DOMAIN g |-> g[i]]
        OBVIOUS
    <2>5. \A i \in n+2-k..n+1 : f[i] = SpansStep(text, f, i)
        BY <2>2
    <2> HIDE DEF g
    <2>6. ASSUME NEW i \in D PROVE g[i] = SpansStep(text, g, i)
        <3>1. g[i] = SpansStep(text, f, i)
            BY <2>3, <2>5
        <3>2. i \in 1..n+1 /\ \A j \in i+1..n+1 : j \in n+2-k..n+1 /\ j \in D
            BY <1>0, <2>1
        <3>3. \A j \in i+1..n+1 : f[j] = g[j]
            BY <2>3, <3>2
        <3>4. SpansStep(text, f, i) = SpansStep(text, g, i)
            BY <3>2, <3>3, SpansStepLocal
        <3> QED
            BY <3>1, <3>4
    <2>7. g = [i \in D |-> SpansStep(text, g, i)]
        BY <2>4, <2>6
    <2> QED
        BY <2>7, Zenon
<1>3. n + 1 \in T
    <2>1. \A k \in Nat : k \in T
        <3> HIDE DEF T
        <3> QED
            BY <1>1, <1>2, NatSetInduction
    <2> HIDE DEF T
    <2> QED
        BY <1>0, <2>1
<1>4. n + 2 - (n + 1) = 1
    BY <1>0
<1>5. \E f : f = [i \in 1..n+1 |-> SpansStep(text, f, i)]
    <2>1. Defined(n + 1)
        <3> HIDE DEF Defined
        <3> QED
            BY <1>0, <1>3
    <2> HIDE DEF n
    <2> QED
        BY <1>4, <2>1
<1>6. SpansFrom(text) = CHOOSE f : f = [i \in 1..n+1 |-> SpansStep(text, f, i)]
    BY Zenon DEF SpansFrom, SpansStep
<1>7. SpansFrom(text) =
          [i \in 1..n+1 |-> SpansStep(text, SpansFrom(text), i)]
    BY <1>5, <1>6, Zenon
<1> DEFINE f == SpansFrom(text)
<1> HIDE DEF f
<1>8. f = [i \in 1..n+1 |-> SpansStep(text, f, i)]
    BY <1>7, Zenon DEF f
<1>9. \A i \in 1..n+1 : f[i] = SpansStep(text, f, i)
    BY <1>8
<1> QED
    BY <1>9 DEF f

(* Characters at which no placeholder begins add no span.                  *)
LEMMA SpansSkip ==
    ASSUME NEW S, NEW text \in Seq(S), NEW L \in 0..Len(text),
           \A i \in 1..L : ~MatchesAt(text, i)
    PROVE  NamespaceSpans(text) = SpansFrom(text)[L + 1]
<1> DEFINE n == Len(text)
           f == SpansFrom(text)
           T == {k \in Nat : \A i \in 1..L+1 : i >= L + 1 - k => f[i] = f[L + 1]}
<1>1. n \in Nat /\ L \in Nat /\ L <= n /\ \A i \in 1..n+1 : f[i] = SpansStep(text, f, i)
    BY SpansEquation
<1> HIDE DEF f
<1>2. 0 \in T
    <2>1. \A i \in 1..L+1 : i >= L + 1 - 0 => i = L + 1
        BY <1>1
    <2> QED
        BY <2>1
<1>3. ASSUME NEW k \in Nat, k \in T PROVE k + 1 \in T
    <2>1. ASSUME NEW i \in 1..L+1, i >= L + 1 - (k + 1) PROVE f[i] = f[L + 1]
        <3>1. CASE i >= L + 1 - k
            BY <1>3, <3>1
        <3>2. CASE i \in 1..L
            <4>1. i + 1 \in 1..L+1 /\ i + 1 >= L + 1 - k /\ i \in 1..n+1 /\ ~(i > n)
                BY <1>1, <2>1, <3>2
            <4>2. f[i + 1] = f[L + 1]
                BY <1>3, <4>1
            <4>3. f[i] = f[i + 1]
                BY <1>1, <3>2, <4>1 DEF SpansStep
            <4> QED
                BY <4>2, <4>3
        <3>3. i >= L + 1 - k \/ i \in 1..L
            BY <1>1, <1>3, <2>1
        <3> QED
            BY <3>1, <3>2, <3>3
    <2> QED
        BY <1>3, <2>1
<1>4. \A k \in Nat : k \in T
    <2> HIDE DEF T
    <2> QED
        BY <1>2, <1>3, NatSetInduction
<1>5. f[1] = f[L + 1]
    <2>1. L \in T /\ 1 \in 1..L+1 /\ 1 >= L + 1 - L
        <3> HIDE DEF T
        <3> QED
            BY <1>1, <1>4
    <2> QED
        BY <2>1
<1> QED
    BY <1>5, SpansAre DEF f

(* The spans of the tail of a text, moved, are spans of the text.          *)
LEMMA SpansTail ==
    ASSUME NEW S, NEW text \in Seq(S), NEW h \in 1..Len(text)
    PROVE  \A j \in 1..Len(text)-h+2 : \A x \in SpansFrom(SubSeq(text, h, Len(text)))[j] :
               /\ x[1] \in Nat /\ x[2] \in Nat
               /\ <<h + x[1] - 1, h + x[2] - 1>> \in SpansFrom(text)[h + j - 1]
<1> DEFINE n == Len(text)
           m == n - h + 1
           t == SubSeq(text, h, n)
           f == SpansFrom(text)
           g == SpansFrom(t)
           Moved(j) == \A x \in g[j] : /\ x[1] \in Nat /\ x[2] \in Nat
                                       /\ <<h + x[1] - 1, h + x[2] - 1>> \in f[h + j - 1]
           T == {k \in Nat : \A j \in 1..m+1 : j >= m + 1 - k => Moved(j)}
<1>1. n \in Nat /\ h \in 1..n /\ m \in Nat /\ t \in Seq(S) /\ Len(t) = m
    OBVIOUS
<1>2. /\ \A j \in 1..n+1 : f[j] = SpansStep(text, f, j)
      /\ \A j \in 1..m+1 : g[j] = SpansStep(t, g, j)
    <2>1. \A j \in 1..n+1 : f[j] = SpansStep(text, f, j)
        BY SpansEquation
    <2>2. \A j \in 1..Len(t)+1 : g[j] = SpansStep(t, g, j)
        <3> HIDE DEF t
        <3> QED
            BY <1>1, SpansEquation
    <2> HIDE DEF f, g, t
    <2> QED
        BY <1>1, <2>1, <2>2
<1>3. \A i \in 1..m : /\ MatchesAt(t, i) <=> MatchesAt(text, h + i - 1)
                      /\ MatchesAt(t, i) =>
                           /\ MatchEnd(text, h + i - 1) = h + MatchEnd(t, i) - 1
                           /\ MatchEnd(t, i) \in i..m
    <2>1. ASSUME NEW i \in 1..m
          PROVE  /\ MatchesAt(t, i) <=> MatchesAt(text, h + i - 1)
                 /\ MatchesAt(t, i) =>
                      /\ MatchEnd(text, h + i - 1) = h + MatchEnd(t, i) - 1
                      /\ MatchEnd(t, i) \in i..m
        <3>1. MatchesAt(t, i) <=> MatchesAt(text, h + i - 1)
            BY MatchInTail
        <3>2. MatchesAt(t, i) => MatchEnd(text, h + i - 1) = h + MatchEnd(t, i) - 1
            BY MatchInTail
        <3>3. ASSUME MatchesAt(t, i) PROVE MatchEnd(t, i) \in i..m
            <4> HIDE DEF t, m
            <4> QED
                BY <1>1, <3>3, MatchEndIn
        <3> QED
            BY <3>1, <3>2, <3>3
    <2> QED
        BY <2>1
<1> HIDE DEF f, g, t, m
<1>4. 0 \in T
    <2>1. ASSUME NEW j \in 1..m+1, j >= m + 1 - 0 PROVE g[j] = {}
        <3>1. j > Len(t)
            BY <1>1, <2>1
        <3> QED
            BY <1>2, <3>1 DEF SpansStep
    <2> QED
        BY <2>1
<1>5. ASSUME NEW k \in Nat, k \in T
      PROVE  k + 1 \in T
    <2>1. ASSUME NEW j \in 1..m+1, j >= m + 1 - (k + 1) PROVE Moved(j)
        <3>1. CASE j >= m + 1 - k
            <4> HIDE DEF Moved
            <4> QED
                BY <1>5, <3>1
        <3>2. CASE j \in 1..m /\ MatchesAt(t, j)
            <4> DEFINE e == MatchEnd(t, j)
                       d == MatchEnd(text, h + j - 1)
            <4>1. e \in j..m /\ d = h + e - 1 /\ MatchesAt(text, h + j - 1)
                BY <1>3, <3>2
            <4>4. ~(j > Len(t)) /\ ~(h + j - 1 > Len(text)) /\ h + j - 1 \in 1..n+1
                BY <1>1, <3>2 DEF m
            <4>5. g[j] = {<<j, e>>} \cup g[e + 1]
                BY <1>2, <3>2, <4>4 DEF SpansStep
            <4>6. f[h + j - 1] = {<<h + j - 1, d>>} \cup f[d + 1]
                BY <1>2, <4>1, <4>4 DEF SpansStep
            <4> HIDE DEF e, d
            <4>2. e + 1 \in 1..m+1 /\ e + 1 >= m + 1 - k /\ h + (e + 1) - 1 = d + 1
                BY <1>1, <2>1, <4>1
            <4>3. Moved(e + 1)
                <5> HIDE DEF Moved
                <5> QED
                    BY <1>5, <4>2
            <4>7. ASSUME NEW x \in g[j]
                  PROVE  /\ x[1] \in Nat /\ x[2] \in Nat
                         /\ <<h + x[1] - 1, h + x[2] - 1>> \in f[h + j - 1]
                <5>1. CASE x = <<j, e>>
                    <6>1. x[1] = j /\ x[2] = e /\ j \in Nat /\ e \in Nat
                        BY <1>1, <4>1, <5>1
                    <6> QED
                        BY <4>1, <4>6, <6>1
                <5>2. CASE x \in g[e + 1]
                    <6>1. /\ x[1] \in Nat /\ x[2] \in Nat
                          /\ <<h + x[1] - 1, h + x[2] - 1>> \in f[d + 1]
                        BY <4>2, <4>3, <5>2
                    <6> QED
                        BY <4>6, <6>1
                <5> QED
                    BY <4>5, <5>1, <5>2
            <4> QED
                BY <4>7
        <3>3. CASE j \in 1..m /\ ~MatchesAt(t, j)
            <4>1. ~(j > Len(t)) /\ ~(h + j - 1 > Len(text)) /\ h + j - 1 \in 1..n+1
                  /\ ~MatchesAt(text, h + j - 1)
                BY <1>1, <1>3, <3>3 DEF m
            <4>2. j + 1 \in 1..m+1 /\ j + 1 >= m + 1 - k /\ h + (j + 1) - 1 = (h + j - 1) + 1
                BY <1>1, <2>1, <3>3
            <4>3. Moved(j + 1)
                <5> HIDE DEF Moved
                <5> QED
                    BY <1>5, <4>2
            <4>4. g[j] = g[j + 1]
                BY <1>2, <3>3, <4>1 DEF SpansStep
            <4>5. f[h + j - 1] = f[(h + j - 1) + 1]
                BY <1>2, <4>1 DEF SpansStep
            <4> QED
                BY <4>2, <4>3, <4>4, <4>5
        <3>4. j >= m + 1 - k \/ j \in 1..m
            BY <1>1, <2>1
        <3> HIDE DEF Moved
        <3> QED
            BY <3>1, <3>2, <3>3, <3>4
    <2> HIDE DEF Moved
    <2> QED
        BY <2>1
<1>6. \A k \in Nat : k \in T
    <2> HIDE DEF T
    <2> QED
        BY <1>4, <1>5, NatSetInduction
<1>7. \A j \in 1..m+1 : Moved(j)
    <2>1. m \in T
        <3> HIDE DEF T
        <3> QED
            BY <1>1, <1>6
    <2>2. \A j \in 1..m+1 : j >= m + 1 - m
        BY <1>1
    <2> HIDE DEF Moved
    <2> QED
        BY <2>1, <2>2
<1>8. Len(text) - h + 2 = m + 1
    BY <1>1 DEF m
<1> QED
    BY <1>7, <1>8 DEF f, g, t

(* The spans of a piece of text, a placeholder and what follows it.        *)
LEMMA PieceSpans ==
    ASSUME UnambiguousFormat, NEW text, Plain(text), NEW p, IsPlaceholder(p),
           NEW c \in 0..Len(text), NEW a \in c..Len(text),
           NEW Y \in Seq(Chars), Y # <<>> => Y[1] \notin Digits \cup {Hyphen}
    PROVE  LET X == SubSeq(text, c + 1, a) \o (p \o Y)
               L == a - c
           IN  /\ <<L + 1, L + Len(p)>> \in NamespaceSpans(X)
               /\ \A x \in NamespaceSpans(Y) :
                     /\ x[1] \in Nat /\ x[2] \in Nat
                     /\ <<L + Len(p) + x[1], L + Len(p) + x[2]>> \in NamespaceSpans(X)
<1> DEFINE rest == p \o Y
           X == SubSeq(text, c + 1, a) \o rest
           L == a - c
           P == Len(p)
<1>1. P \in Nat \ {0} /\ p \in Seq(Chars) /\ p # <<>> /\ p[1] = Opener[1]
    BY PlaceholderBegins
<1>2. MatchesAt(rest, 1) /\ MatchEnd(rest, 1) = P
    BY PlaceholderRead
<1>3. /\ rest \in Seq(Chars) /\ Len(rest) = P + Len(Y) /\ Len(Y) \in Nat
      /\ rest # <<>> /\ rest[1] = Opener[1]
    <2>1. /\ rest \in Seq(Chars) /\ Len(rest) = Len(p) + Len(Y)
          /\ \A i \in 1..Len(p) : rest[i] = p[i]
        BY <1>1, ConcatPlaces
    <2>2. 1 \in 1..Len(p) /\ Len(Y) \in Nat
        BY <1>1
    <2>3. rest[1] = Opener[1] /\ Len(rest) # 0
        BY <1>1, <2>1, <2>2
    <2> QED
        BY <2>1, <2>2, <2>3, EmptySeq
<1>4. Y # <<>> => SubSeq(rest, P + 1, Len(rest)) = Y
    <2>1. SUFFICES ASSUME Y # <<>> PROVE SubSeq(rest, P + 1, Len(rest)) = Y
        OBVIOUS
    <2>2. Len(Y) > 0
        BY <2>1, EmptySeq
    <2>3. P + 1 \in P+1..P+Len(Y) /\ Len(rest) \in P+1..P+Len(Y)
        BY <1>1, <1>3, <2>2
    <2>4. SubSeq(p \o Y, P + 1, Len(rest)) = SubSeq(Y, (P + 1) - P, Len(rest) - P)
        <3> DEFINE l == Len(rest)
        <3>1. l \in P+1..P+Len(Y)
            BY <2>3
        <3> HIDE DEF l
        <3>2. SubSeq(p \o Y, P + 1, l) = SubSeq(Y, (P + 1) - P, l - P)
            BY <1>1, <2>3, <3>1, SubSeqOfConcat2
        <3> QED
            BY <3>2 DEF l
    <2>5. (P + 1) - P = 1 /\ Len(rest) - P = Len(Y)
        BY <1>1, <1>3
    <2>6. SubSeq(Y, 1, Len(Y)) = Y
        BY SubSeqFull
    <2> QED
        BY <2>4, <2>5, <2>6
<1>5. /\ X \in Seq(Chars) /\ L \in 0..Len(X) /\ L \in Nat
      /\ SubSeq(X, L + 1, Len(X)) = rest
      /\ \A i \in 1..L : ~MatchesAt(X, i)
    <2>1. text \in Seq(Chars) /\ \A i \in 1..Len(text) : ~MatchesAt(text, i)
        BY DEF Plain
    <2> DEFINE d == c + 1
    <2>2. d \in 1..Len(text)+1 /\ a \in d-1..Len(text) /\ L = a - d + 1 /\ L \in Nat
        BY <2>1
    <2>3. rest \in Seq(Chars) /\ (rest = <<>> \/ rest[1] = Opener[1])
        BY <1>3
    <2> HIDE DEF rest, d, L
    <2>4. LET l == a - d + 1
              all == SubSeq(text, d, a) \o rest
          IN  /\ all \in Seq(Chars) /\ l \in 0..Len(all)
              /\ SubSeq(all, 1, l) = SubSeq(text, d, a) /\ SubSeq(all, l + 1, Len(all)) = rest
              /\ \A i \in 1..l : ~MatchesAt(all, i)
        BY <2>1, <2>2, <2>3, PieceIsPlain, SMTT(60)
    <2> QED
        BY <2>2, <2>4 DEF d
<1> HIDE DEF rest, X, L, P
<1>6. NamespaceSpans(X) = SpansFrom(X)[L + 1]
    BY <1>5, SpansSkip
<1>7. L + 1 \in 1..Len(X)
    <2>1. L + 1 > Len(X) => SubSeq(X, L + 1, Len(X)) = <<>>
        BY <1>5, SubSeqEmpty
    <2> QED
        BY <1>3, <1>5, <2>1
<1>8. \A x \in SpansFrom(rest)[1] :
          x[1] \in Nat /\ x[2] \in Nat /\ <<L + x[1], L + x[2]>> \in NamespaceSpans(X)
    <2> DEFINE h == L + 1
    <2>1. h \in 1..Len(X) /\ 1 \in 1..Len(X)-h+2 /\ h + 1 - 1 = L + 1
        BY <1>5, <1>7
    <2>2. \A k \in Nat : h + k - 1 = L + k
        BY <1>5
    <2> HIDE DEF h
    <2>3. \A j \in 1..Len(X)-h+2 : \A x \in SpansFrom(SubSeq(X, h, Len(X)))[j] :
               /\ x[1] \in Nat /\ x[2] \in Nat
               /\ <<h + x[1] - 1, h + x[2] - 1>> \in SpansFrom(X)[h + j - 1]
        BY <1>5, <2>1, SpansTail
    <2>4. \A x \in SpansFrom(rest)[1] :
               /\ x[1] \in Nat /\ x[2] \in Nat
               /\ <<h + x[1] - 1, h + x[2] - 1>> \in SpansFrom(X)[L + 1]
        BY <1>5, <2>1, <2>3 DEF h
    <2> QED
        BY <1>6, <2>2, <2>4
<1>9. SpansFrom(rest)[1] = {<<1, P>>} \cup SpansFrom(rest)[P + 1]
    <2>1. 1 \in 1..Len(rest)+1 /\ ~(1 > Len(rest))
        BY <1>1, <1>3
    <2>2. SpansFrom(rest)[1] = SpansStep(rest, SpansFrom(rest), 1)
        BY <1>3, <2>1, SpansEquation
    <2> QED
        BY <1>2, <2>1, <2>2 DEF SpansStep
<1>10. <<L + 1, L + P>> \in NamespaceSpans(X)
    <2>1. <<1, P>>[1] = 1 /\ <<1, P>>[2] = P /\ <<1, P>> \in SpansFrom(rest)[1]
        BY <1>9
    <2> QED
        BY <1>8, <2>1
<1>11. ASSUME NEW x \in NamespaceSpans(Y)
       PROVE  /\ x[1] \in Nat /\ x[2] \in Nat
              /\ <<L + P + x[1], L + P + x[2]>> \in NamespaceSpans(X)
    <2>1. Y # <<>>
        <3>1. SUFFICES ASSUME Y = <<>> PROVE FALSE
            OBVIOUS
        <3>2. 1 \in 1..Len(Y)+1 /\ 1 > Len(Y)
            BY <3>1, EmptySeq
        <3>3. SpansFrom(Y)[1] = SpansStep(Y, SpansFrom(Y), 1)
            BY <3>2, SpansEquation
        <3> QED
            BY <1>11, <3>2, <3>3, SpansAre DEF SpansStep
    <2>2. Len(Y) > 0
        BY <1>3, <2>1, EmptySeq
    <2> DEFINE h == P + 1
    <2>3. h \in 1..Len(rest) /\ 1 \in 1..Len(rest)-h+2 /\ h + 1 - 1 = P + 1
        BY <1>1, <1>3, <2>2
    <2>4. \A k \in Nat : h + k - 1 = P + k
        BY <1>1
    <2>5. SubSeq(rest, h, Len(rest)) = Y
        BY <1>4, <2>1
    <2> HIDE DEF h
    <2>6. \A j \in 1..Len(rest)-h+2 : \A y \in SpansFrom(SubSeq(rest, h, Len(rest)))[j] :
               /\ y[1] \in Nat /\ y[2] \in Nat
               /\ <<h + y[1] - 1, h + y[2] - 1>> \in SpansFrom(rest)[h + j - 1]
        BY <1>3, <2>3, SpansTail
    <2>7. /\ x[1] \in Nat /\ x[2] \in Nat
          /\ <<P + x[1], P + x[2]>> \in SpansFrom(rest)[P + 1]
        BY <2>3, <2>4, <2>5, <2>6, SpansAre
    <2> DEFINE y == <<P + x[1], P + x[2]>>
    <2>8. y \in SpansFrom(rest)[1] /\ y[1] = P + x[1] /\ y[2] = P + x[2]
        BY <1>9, <2>7
    <2> HIDE DEF y
    <2>9. <<L + y[1], L + y[2]>> \in NamespaceSpans(X)
        BY <1>8, <2>8
    <2>10. L + y[1] = L + P + x[1] /\ L + y[2] = L + P + x[2]
        <3> DEFINE x1 == x[1]
                   x2 == x[2]
        <3>1. y[1] = P + x1 /\ y[2] = P + x2 /\ x1 \in Nat /\ x2 \in Nat
            BY <2>7, <2>8
        <3> HIDE DEF x1, x2
        <3>2. L + y[1] = L + P + x1 /\ L + y[2] = L + P + x2
            BY <1>1, <1>5, <3>1
        <3> QED
            BY <3>2 DEF x1, x2
    <2> QED
        BY <2>7, <2>9, <2>10
<1> QED
    BY <1>10, <1>11 DEF X, L, P, rest

(* Nothing from i to l of X is read as a placeholder.                      *)
Away(i, l, X) == \A s \in NamespaceSpans(X) : s[2] < i \/ l < s[1]

(* What stands from i to l of X stands in the text, behind c, where none   *)
(* of the spans is.                                                        *)
Taken(i, l, X, text, c, spans) ==
    \E a \in c+1..Len(text) :
        /\ a + (l - i) <= Len(text)
        /\ \A k \in 0..l-i : X[i + k] = text[a + k]
        /\ \A x \in spans : x.end < a \/ a + (l - i) <= x.start

AllTaken(X, text, c, spans) ==
    \A i \in 1..Len(X) : \A l \in i..Len(X) :
        Away(i, l, X) => Taken(i, l, X, text, c, spans)

LEMMA LastTaken ==
    ASSUME NEW text, Plain(text), NEW c \in 0..Len(text)
    PROVE  AllTaken(SubSeq(text, c + 1, Len(text)), text, c, {})
<1> DEFINE n == Len(text)
           X == SubSeq(text, c + 1, n)
<1>1. n \in Nat /\ text \in Seq(Chars) /\ c \in 0..n
    BY DEF Plain
<1>2. Len(X) = n - c /\ \A k \in 1..n-c : X[k] = text[c + k]
    <2>1. c + 1 \in 1..n+1
        BY <1>1
    <2> QED
        BY <1>1, <2>1
<1> HIDE DEF X
<1>3. ASSUME NEW i \in 1..Len(X), NEW l \in i..Len(X)
      PROVE  Taken(i, l, X, text, c, {})
    <2>1. c + i \in c+1..n /\ (c + i) + (l - i) <= n
        BY <1>1, <1>2
    <2>2. ASSUME NEW k \in 0..l-i PROVE X[i + k] = text[(c + i) + k]
        <3>1. i + k \in 1..n-c /\ c + (i + k) = (c + i) + k
            BY <1>1, <1>2
        <3> QED
            BY <1>2, <3>1
    <2> QED
        BY <2>1, <2>2 DEF Taken
<1> QED
    BY <1>3 DEF AllTaken, X

LEMMA PieceTaken ==
    ASSUME UnambiguousFormat, NEW text, Plain(text), NEW p, IsPlaceholder(p),
           NEW c \in 0..Len(text), NEW a \in c..Len(text), NEW b \in a..Len(text),
           NEW Y \in Seq(Chars), Y # <<>> => Y[1] \notin Digits \cup {Hyphen},
           NEW spans, NEW e \in spans, e.start = a, e.end = b,
           \A x \in spans \ {e} : x.start \in Nat /\ x.start >= b,
           AllTaken(Y, text, b, spans \ {e})
    PROVE  AllTaken(SubSeq(text, c + 1, a) \o p \o Y, text, c, spans)
<1> DEFINE n == Len(text)
           seg == SubSeq(text, c + 1, a)
           rest == p \o Y
           X == seg \o rest
           L == a - c
           P == Len(p)
<1>1. n \in Nat /\ text \in Seq(Chars) /\ c \in Nat /\ a \in Nat /\ b \in Nat
      /\ c <= a /\ a <= b /\ b <= n /\ L \in Nat
    BY DEF Plain
<1>2. /\ seg \in Seq(Chars) /\ Len(seg) = L
      /\ \A k \in 1..L : seg[k] = text[c + k]
    <2> DEFINE d == c + 1
    <2>1. d \in 1..n+1 /\ a \in 0..n /\ a - d + 1 = L /\ \A k \in 1..L : d + k - 1 = c + k
        BY <1>1
    <2> HIDE DEF d, L
    <2>2. /\ SubSeq(text, d, a) \in Seq(Chars) /\ Len(SubSeq(text, d, a)) = a - d + 1
          /\ \A k \in 1..a-d+1 : SubSeq(text, d, a)[k] = text[d + k - 1]
        <3>1. d \in Int /\ a \in Int /\ \A j \in d..a : text[j] \in Chars
            BY <1>1, <2>1
        <3>2. /\ SubSeq(text, d, a) \in Seq(Chars)
              /\ Len(SubSeq(text, d, a)) = IF d <= a THEN a - d + 1 ELSE 0
              /\ \A k \in 1..a-d+1 : SubSeq(text, d, a)[k] = text[d + k - 1]
            BY <3>1, SubSeqProperties, SMTT(60)
        <3>3. (IF d <= a THEN a - d + 1 ELSE 0) = a - d + 1
            BY <1>1, <2>1
        <3> QED
            BY <3>2, <3>3
    <2> QED
        BY <2>1, <2>2 DEF d
<1>3. P \in Nat \ {0} /\ p \in Seq(Chars)
    BY PlaceholderBegins
<1>4. seg \o p \o Y = X
    <2> HIDE DEF seg
    <2> QED
        <3>1. seg \in Seq(Chars) /\ p \in Seq(Chars) /\ Y \in Seq(Chars)
            BY <1>2, <1>3
        <3>2. (seg \o p) \o Y = seg \o (p \o Y)
            BY ONLY <3>1, ConcatAssociative, SMTT(60)
        <3> QED
            BY <3>2
<1>5. /\ <<L + 1, L + P>> \in NamespaceSpans(X)
      /\ \A x \in NamespaceSpans(Y) :
            /\ x[1] \in Nat /\ x[2] \in Nat
            /\ <<L + P + x[1], L + P + x[2]>> \in NamespaceSpans(X)
    BY PieceSpans, Zenon
<1> HIDE DEF seg, L, P
<1>6. /\ rest \in Seq(Chars) /\ Len(rest) = P + Len(Y) /\ Len(Y) \in Nat
      /\ \A k \in 1..Len(Y) : rest[P + k] = Y[k]
    BY <1>3, ConcatPlaces DEF P
<1> HIDE DEF rest
<1>7. /\ Len(X) = L + Len(rest)
      /\ \A k \in 1..L : X[k] = seg[k]
      /\ \A k \in 1..Len(rest) : X[L + k] = rest[k]
    <2>1. seg \in Seq(Chars) /\ rest \in Seq(Chars)
        BY <1>2, <1>6
    <2>2. /\ Len(X) = Len(seg) + Len(rest)
          /\ \A k \in 1..Len(seg) : X[k] = seg[k]
          /\ \A k \in 1..Len(rest) : X[Len(seg) + k] = rest[k]
        BY <2>1, ConcatPlaces
    <2> HIDE DEF X
    <2> QED
        BY <1>2, <2>2
<1> HIDE DEF X
<1>8. /\ \A k \in 1..L : X[k] = text[c + k]
      /\ \A k \in 1..Len(Y) : X[L + P + k] = Y[k]
      /\ Len(X) = L + P + Len(Y)
    <2>1. \A k \in 1..L : X[k] = text[c + k]
        BY <1>2, <1>7
    <2>2. ASSUME NEW k \in 1..Len(Y) PROVE X[L + P + k] = Y[k]
        <3>1. P + k \in 1..Len(rest) /\ L + (P + k) = L + P + k
            BY <1>1, <1>3, <1>6
        <3>2. X[L + (P + k)] = rest[P + k] /\ rest[P + k] = Y[k]
            BY <1>6, <1>7, <3>1
        <3> QED
            BY <3>1, <3>2
    <2>3. Len(X) = L + P + Len(Y)
        BY <1>1, <1>3, <1>6, <1>7
    <2> QED
        BY <2>1, <2>2, <2>3
<1>9. ASSUME NEW i \in 1..Len(X), NEW l \in i..Len(X), Away(i, l, X)
      PROVE  Taken(i, l, X, text, c, spans)
    <2>1. L + P < i \/ l < L + 1
        <3> DEFINE s == <<L + 1, L + P>>
        <3>1. s \in NamespaceSpans(X) /\ s[1] = L + 1 /\ s[2] = L + P
            BY <1>5
        <3> HIDE DEF s
        <3>2. s[2] < i \/ l < s[1]
            BY <1>9, <3>1 DEF Away
        <3> QED
            BY <3>1, <3>2
    <2>2. CASE l < L + 1
        <3>1. c + i \in c+1..n /\ (c + i) + (l - i) <= n /\ (c + i) + (l - i) <= a
            BY <1>1, <1>8, <2>2 DEF L
        <3>2. ASSUME NEW k \in 0..l-i PROVE X[i + k] = text[(c + i) + k]
            <4>1. i + k \in 1..L /\ c + (i + k) = (c + i) + k
                BY <1>1, <2>2
            <4> QED
                BY <1>8, <4>1
        <3>3. ASSUME NEW x \in spans PROVE (c + i) + (l - i) <= x.start
            BY <1>1, <3>1, SMTT(60)
        <3> QED
            BY <3>1, <3>2, <3>3 DEF Taken
    <2>3. CASE L + P < i
        <3> DEFINE i_ == i - (L + P)
                   l_ == l - (L + P)
        <3>1. /\ i_ \in 1..Len(Y) /\ l_ \in i_..Len(Y) /\ l_ - i_ = l - i
              /\ L + P \in Nat /\ i = L + P + i_ /\ l = L + P + l_
            BY <1>1, <1>3, <1>6, <1>8, <2>3
        <3>n. /\ i_ \in Nat /\ l_ \in Nat /\ i \in Nat /\ l \in Nat /\ L \in Nat /\ P \in Nat
              /\ i_ >= 1 /\ l_ >= i_ /\ l_ <= Len(Y)
            BY <1>1, <1>3, <1>6, <3>1
        <3> HIDE DEF i_, l_
        <3>2. Away(i_, l_, Y)
            <4>1. ASSUME NEW s \in NamespaceSpans(Y) PROVE s[2] < i_ \/ l_ < s[1]
                <5> DEFINE t == <<L + P + s[1], L + P + s[2]>>
                <5>1. /\ s[1] \in Nat /\ s[2] \in Nat /\ t \in NamespaceSpans(X)
                      /\ t[1] = L + P + s[1] /\ t[2] = L + P + s[2]
                    BY <1>5
                <5> HIDE DEF t
                <5>2. t[2] < i \/ l < t[1]
                    BY <1>9, <5>1 DEF Away
                <5> QED
                    <6> DEFINE s1 == s[1]
                               s2 == s[2]
                    <6>1. /\ s1 \in Nat /\ s2 \in Nat
                          /\ L + P + s2 < L + P + i_ \/ L + P + l_ < L + P + s1
                        BY <3>1, <5>1, <5>2
                    <6> HIDE DEF s1, s2
                    <6>2. s2 < i_ \/ l_ < s1
                        BY <3>n, <6>1
                    <6> QED
                        BY <6>2 DEF s1, s2
            <4> QED
                BY <4>1 DEF Away
        <3>3. PICK y \in b+1..Len(text) :
                  /\ y + (l_ - i_) <= Len(text)
                  /\ \A k \in 0..l_-i_ : Y[i_ + k] = text[y + k]
                  /\ \A x \in spans \ {e} : x.end < y \/ y + (l_ - i_) <= x.start
            BY <3>1, <3>2 DEF AllTaken, Taken
        <3>4. y \in c+1..n /\ y + (l - i) <= n /\ b < y
            <4>1. y \in Nat /\ b < y /\ y <= n
                BY <1>1, <3>3
            <4>2. y + (l - i) <= n
                BY <3>1, <3>3
            <4> QED
                BY <1>1, <4>1, <4>2
        <3>5. ASSUME NEW k \in 0..l-i PROVE X[i + k] = text[y + k]
            <4>1. i_ + k \in 1..Len(Y) /\ L + P + (i_ + k) = i + k /\ k \in 0..l_-i_
                <5>1. k \in Nat /\ k <= l_ - i_
                    BY <3>1, <3>n
                <5> QED
                    BY <1>6, <3>1, <3>n, <5>1
            <4> QED
                BY <1>8, <3>3, <4>1
        <3>6. ASSUME NEW x \in spans PROVE x.end < y \/ y + (l - i) <= x.start
            BY <3>1, <3>3, <3>4
        <3> QED
            BY <3>4, <3>5, <3>6 DEF Taken
    <2> QED
        BY <2>1, <2>2, <2>3
<1>10. AllTaken(X, text, c, spans)
    BY <1>9 DEF AllTaken
<1> QED
    BY <1>4, <1>10 DEF seg

(* What is left outside the placeholders of a masked text is text that no  *)
(* entry of the plan covered.                                              *)
LEMMA RebuildTakes ==
    ASSUME UnambiguousFormat, Opener[1] \notin Digits \cup {Hyphen},
           NEW text, Plain(text), NEW v, GivesTexts(v, Chars),
           NEW plan, Apart(plan, Len(text)), \A e \in plan : GivesBack(e, text, v)
    PROVE  AllTaken(Rebuild(text, plan), text, 0, plan)
<1> DEFINE n == Len(text)
           f == RebuildFrom(text, plan)
           Good(spans) == \A c \in 0..n : (\A x \in spans : c <= x.start)
                                            => AllTaken(f[spans][c], text, c, spans)
           T == {k \in Nat : \A spans \in SUBSET plan :
                                (\A x \in spans : x.start >= n - k) => Good(spans)}
<1>0. /\ n \in Nat /\ text \in Seq(Chars)
      /\ \A x \in plan : x.start \in Nat /\ x.end \in Nat /\ x.start < x.end /\ x.end <= n
    BY DEF Plain, Apart
<1>1. \A spans \in SUBSET plan : f[spans] = RebuildStep(text, f, spans)
    BY <1>0, RebuildEquation
<1>s. \A spans \in SUBSET plan : \A c \in 0..n : (\A x \in spans : c <= x.start)
          => Stands(f[spans][c], text, c, v)
    BY RebuildStands
<1> HIDE DEF f
<1>2. Good({})
    <2>1. f[{}] = RebuildStep(text, f, {})
        BY <1>1
    <2>2. ASSUME NEW c \in 0..n PROVE AllTaken(f[{}][c], text, c, {})
        <3>1. f[{}][c] = SubSeq(text, c + 1, n)
            BY <2>1 DEF RebuildStep
        <3>2. AllTaken(SubSeq(text, c + 1, n), text, c, {})
            BY LastTaken
        <3> QED
            BY <3>1, <3>2
    <2> QED
        BY <2>2
<1>3. 0 \in T
    <2>1. ASSUME NEW spans \in SUBSET plan, \A x \in spans : x.start >= n - 0
          PROVE  spans = {}
        BY <1>0, <2>1
    <2> HIDE DEF Good
    <2> QED
        BY <1>2, <2>1
<1>4. ASSUME NEW k \in Nat, k \in T PROVE k + 1 \in T
    <2>1. ASSUME NEW spans \in SUBSET plan, \A x \in spans : x.start >= n - (k + 1),
                 spans # {}, NEW c \in 0..n, \A x \in spans : c <= x.start
          PROVE  AllTaken(f[spans][c], text, c, spans)
        <3> DEFINE p == Leftmost(spans)
                   rest == spans \ {p}
        <3>1. Apart(spans, n)
            BY DEF Apart
        <3>2. p \in spans /\ \A x \in rest : x.start >= p.end
            BY <1>0, <2>1, <3>1, LeftmostGone
        <3>3. f[spans][c] = SubSeq(text, c + 1, p.start) \o p.new \o f[rest][p.end]
            <4>1. f[spans] = RebuildStep(text, f, spans)
                BY <1>1
            <4> HIDE DEF p, rest
            <4> QED
                BY <2>1, <4>1 DEF RebuildStep, p, rest
        <3> HIDE DEF p
        <3>4. p \in plan /\ p.start \in c..n /\ p.end \in p.start..n /\ p.end \in 0..n
              /\ p.start >= n - (k + 1) /\ p.start < p.end
            <4>1. p \in plan /\ p.start >= n - (k + 1) /\ c <= p.start
                BY <2>1, <3>2
            <4> QED
                BY <1>0, <4>1
        <3>5. /\ AllTaken(f[rest][p.end], text, p.end, rest)
              /\ Stands(f[rest][p.end], text, p.end, v)
              /\ \A x \in rest : x.start \in Nat /\ x.start >= p.end
            <4>1. rest \in SUBSET plan /\ \A x \in rest : x.start >= n - k
                <5>1. ASSUME NEW x \in rest PROVE x \in plan /\ x.start >= n - k
                    <6>1. x \in plan /\ x.start >= p.end /\ x.start \in Nat
                        BY <1>0, <3>2
                    <6> QED
                        BY <1>0, <3>4, <6>1
                <5> QED
                    BY <5>1
            <4> HIDE DEF rest
            <4>2. Good(rest)
                <5> HIDE DEF Good
                <5> QED
                    BY <1>4, <4>1
            <4>3. \A x \in rest : p.end <= x.start /\ x.start \in Nat
                <5>1. ASSUME NEW x \in rest PROVE p.end <= x.start /\ x.start \in Nat
                    <6>1. x.start >= p.end /\ x.start \in Nat
                        BY <1>0, <3>2, <4>1
                    <6> QED
                        BY <6>1
                <5> QED
                    BY <5>1
            <4> QED
                BY <1>s, <3>2, <3>4, <4>1, <4>2, <4>3
        <3>6. GivesBack(p, text, v)
            BY <3>4
        <3> DEFINE a == p.start
                   b == p.end
                   new == p.new
                   Y == f[rest][b]
        <3>a. Y \in Seq(Chars) /\ OpensLike(Y, text, b)
            BY <3>5 DEF Stands
        <3>7. /\ a \in c..n /\ b \in a..n /\ IsPlaceholder(new)
              /\ b < n => text[b + 1] \notin Digits \cup {Hyphen}
            BY <3>4, <3>6 DEF GivesBack
        <3>8. f[spans][c] = SubSeq(text, c + 1, a) \o new \o Y
            BY <3>3
        <3>9. /\ p \in spans /\ p.start = a /\ p.end = b
              /\ \A x \in spans \ {p} : x.start \in Nat /\ x.start >= b
              /\ AllTaken(Y, text, b, spans \ {p})
            BY <3>2, <3>5
        <3> HIDE DEF a, b, new, Y, rest
        <3>10. Y # <<>> => Y[1] \notin Digits \cup {Hyphen}
            BY <3>a, <3>7 DEF OpensLike
        <3>11. AllTaken(SubSeq(text, c + 1, a) \o new \o Y, text, c, spans)
            <4>1. c \in 0..Len(text) /\ a \in c..Len(text) /\ b \in a..Len(text)
                BY <2>1, <3>7
            <4> QED
                BY <3>a, <3>7, <3>9, <3>10, <4>1, PieceTaken, Zenon
        <3> QED
            BY <3>8, <3>11
    <2>2. ASSUME NEW spans \in SUBSET plan, \A x \in spans : x.start >= n - (k + 1)
          PROVE  Good(spans)
        <3>1. CASE spans = {}
            <4> HIDE DEF Good
            <4> QED
                BY <1>2, <3>1
        <3>2. CASE spans # {}
            BY <2>1, <2>2, <3>2
        <3> QED
            BY <3>1, <3>2
    <2> HIDE DEF Good
    <2> QED
        BY <2>2
<1>5. \A k \in Nat : k \in T
    <2> HIDE DEF T
    <2> QED
        BY <1>3, <1>4, NatSetInduction
<1>6. Good(plan)
    <2>1. n \in T
        <3> HIDE DEF T
        <3> QED
            BY <1>0, <1>5
    <2>2. \A x \in plan : x.start >= n - n
        BY <1>0
    <2> HIDE DEF Good
    <2> QED
        BY <2>1, <2>2
<1>7. AllTaken(f[plan][0], text, 0, plan)
    <2>1. \A x \in plan : 0 <= x.start
        BY <1>0
    <2>2. 0 \in 0..n
        BY <1>0
    <2> QED
        BY <1>6, <2>1, <2>2
<1>8. f[plan][0] = Rebuild(text, plan)
    BY RebuildIs DEF f
<1> QED
    BY <1>7, <1>8

LEMMA HitIsThere ==
    ASSUME NEW text, NEW w \in Words, NEW i \in 1..Len(text),
           LiteralAt(IF w.cs THEN text ELSE FoldText(text), i, KeyOf(w))
    PROVE  Span(i, i + Len(w.word) - 1, w.word, IF w.cs THEN 1 ELSE 0) \in DictionarySpans(text)
<1> DEFINE p == <<i, w>>
<1>1. p \in (1..Len(text)) \X Words /\ p[1] = i /\ p[2] = w
    OBVIOUS
<1> HIDE DEF p
<1>2. p \in {q \in (1..Len(text)) \X Words :
                 LiteralAt(IF q[2].cs THEN text ELSE FoldText(text), q[1], KeyOf(q[2]))}
    BY <1>1
<1> QED
    BY <1>1, <1>2 DEF DictionarySpans

(* What is found where text was taken from is found in the text.           *)
LEMMA HitIsTaken ==
    ASSUME NEW S, NEW X \in Seq(S), NEW text \in Seq(S), NEW w \in Words,
           NEW i \in 1..Len(X), NEW a \in 1..Len(text), NEW W, W = Len(KeyOf(w)), W \in Nat \ {0},
           a + (W - 1) <= Len(text), \A k \in 0..W-1 : X[i + k] = text[a + k],
           LiteralAt(IF w.cs THEN X ELSE FoldText(X), i, KeyOf(w)), i + W - 1 <= Len(X)
    PROVE  LiteralAt(IF w.cs THEN text ELSE FoldText(text), a, KeyOf(w))
<1> DEFINE key == KeyOf(w)
           shown(t) == IF w.cs THEN t ELSE FoldText(t)
<1>1. IsText(X) /\ IsText(text) /\ Len(text) \in Nat /\ Len(X) \in Nat
    BY DEF IsText, Range
<1>2. Len(shown(text)) = Len(text) /\ Len(shown(X)) = Len(X)
    BY <1>1, FoldLength
<1>3. \A k \in 1..W : shown(X)[i + k - 1] = key[k]
    BY DEF LiteralAt
<1>4. ASSUME NEW k \in 1..W PROVE shown(text)[a + k - 1] = key[k]
    <2>1. k - 1 \in 0..W-1 /\ i + (k - 1) = i + k - 1 /\ a + (k - 1) = a + k - 1
        OBVIOUS
    <2>2. X[i + k - 1] = text[a + k - 1]
        BY <2>1
    <2>3. i + k - 1 \in 1..Len(X) /\ a + k - 1 \in 1..Len(text)
        BY <1>1
    <2>4. CASE w.cs
        BY <1>3, <2>2, <2>4
    <2>5. CASE ~w.cs
        <3>1. FoldText(X)[i + k - 1] = Fold(X[i + k - 1])
              /\ FoldText(text)[a + k - 1] = Fold(text[a + k - 1])
            BY <2>3 DEF FoldText
        <3> QED
            BY <1>3, <2>2, <2>5, <3>1
    <2> QED
        BY <2>4, <2>5
<1>5. a + W - 1 <= Len(shown(text))
    BY <1>1, <1>2
<1> QED
    BY <1>4, <1>5 DEF LiteralAt

(* In a text without placeholders no hit is left out.                      *)
LEMMA PlainEligible ==
    ASSUME NEW text, Plain(text)
    PROVE  FreeHits(text) = Candidates(text)
<1>1. text \in Seq(Chars) /\ Len(text) \in Nat /\ Len(text) + 1 \in 1..Len(text)+1
    BY DEF Plain
<1>2. NamespaceSpans(text) = SpansFrom(text)[Len(text) + 1]
    BY <1>1, SpansSkip DEF Plain
<1>3. SpansFrom(text)[Len(text) + 1] = SpansStep(text, SpansFrom(text), Len(text) + 1)
    BY <1>1, SpansEquation
<1>4. NamespaceSpans(text) = {}
    BY <1>1, <1>2, <1>3 DEF SpansStep
<1> QED
    BY <1>4 DEF FreeHits, PlaceholderRegions

LEMMA SpansType ==
    ASSUME NEW S, NEW X \in Seq(S), X # <<>>
    PROVE  \A s \in NamespaceSpans(X) : s[1] \in Nat /\ s[2] \in Nat
<1>1. Len(X) \in Nat /\ Len(X) > 0
    BY EmptySeq
<1>2. 1 \in 1..Len(X) /\ 1 \in 1..Len(X)-1+2 /\ SubSeq(X, 1, Len(X)) = X
    BY <1>1, SubSeqFull
<1>3. \A j \in 1..Len(X)-1+2 : \A x \in SpansFrom(SubSeq(X, 1, Len(X)))[j] :
          x[1] \in Nat /\ x[2] \in Nat
    BY <1>2, SpansTail
<1> QED
    BY <1>2, <1>3, SpansAre

(* In a masked text no dictionary term is left outside a placeholder, not  *)
(* even one that overlap resolution dropped or that what was copied makes  *)
(* up ("zero originals reaching the upstream", engine.py:46-81).           *)
THEOREM NoTermLeft ==
    ASSUME UnambiguousFormat, Opener[1] \notin Digits \cup {Hyphen}, PlainTexts
    PROVE  Spec => []NothingLeft
<1>1. ASSUME MaskInv, NEW r \in Masked, NEW c \in DictionarySpans(req[r].masked),
             \A p \in PlaceholderRegions(req[r].masked) : ~Overlaps(c, p)
      PROVE  FALSE
    <2> DEFINE text == req[r].text
               plan == req[r].plan
               X == req[r].masked
    <2>1. /\ X = Rebuild(text, plan) /\ Plain(text) /\ GivesTexts(vault, Chars)
          /\ Apart(plan, Len(text)) /\ \A e \in plan : GivesBack(e, text, vault)
          /\ \A m \in FindMatches(text) : \E e \in plan : e.start = m.start /\ e.end = m.end
          /\ text \in Texts
        BY <1>1, MaskedIsRead
    <2> HIDE DEF plan, X, text
    <2>2. AllTaken(X, text, 0, plan)
        BY <2>1, RebuildTakes
    <2>3. text \in Seq(Chars) /\ IsText(text) /\ Len(text) \in Nat
          /\ \A e \in plan : e.start \in Nat /\ e.end \in Nat
        BY <2>1, TextsAssumption DEF Plain, Apart
    <2>4. X \in Seq(Chars) /\ IsText(X) /\ Len(X) \in Nat
        <3>1. plan \in SUBSET plan /\ 0 \in 0..Len(text) /\ \A x \in plan : 0 <= x.start
            BY <2>3
        <3>2. Stands(RebuildFrom(text, plan)[plan][0], text, 0, vault)
            BY <2>1, <3>1, RebuildStands
        <3>3. X \in Seq(Chars)
            BY <2>1, <3>2, RebuildIs DEF Stands
        <3> QED
            BY <3>3 DEF IsText, Range
    <2>5. c \in DictionarySpans(X)
        BY <1>1 DEF X
    <2>6. PICK w \in Words :
              /\ c.source = (IF w.cs THEN 1 ELSE 0)
              /\ Len(KeyOf(w)) = c.end - c.start
              /\ LiteralAt(IF w.cs THEN X ELSE FoldText(X), c.start + 1, KeyOf(w))
        BY <2>4, <2>5, DictionarySpansIn
    <2>7. c.start \in Nat /\ c.end \in Nat /\ c.start < c.end /\ c.end <= Len(X)
        BY <2>4, <2>5, DictionarySpansIn DEF IsSpan, InText
    <2> DEFINE i == c.start + 1
               l == c.end
               W == Len(KeyOf(w))
    <2>8. i \in 1..Len(X) /\ l \in i..Len(X) /\ W \in Nat \ {0} /\ l - i = W - 1
          /\ i + W - 1 <= Len(X)
        BY <2>4, <2>6, <2>7
    <2>9. Away(i, l, X)
        <3>1. ASSUME NEW s \in NamespaceSpans(X) PROVE s[2] < i \/ l < s[1]
            <4> DEFINE p == [start |-> s[1] - 1, end |-> s[2]]
            <4>1. p \in PlaceholderRegions(X) /\ p.start = s[1] - 1 /\ p.end = s[2]
                BY DEF PlaceholderRegions
            <4>2. s[1] \in Nat /\ s[2] \in Nat
                BY <2>4, <2>8, EmptySeq, SpansType
            <4> HIDE DEF p
            <4>3. ~(c.start < p.end /\ p.start < c.end)
                BY <1>1, <4>1 DEF X, Overlaps
            <4> QED
                BY <2>7, <4>1, <4>2, <4>3
        <3> QED
            BY <3>1 DEF Away
    <2> HIDE DEF i, l, W
    <2>10. PICK a \in 0+1..Len(text) :
               /\ a + (l - i) <= Len(text)
               /\ \A k \in 0..l-i : X[i + k] = text[a + k]
               /\ \A x \in plan : x.end < a \/ a + (l - i) <= x.start
        BY <2>2, <2>8, <2>9 DEF AllTaken, Taken
    <2>11. LiteralAt(IF w.cs THEN text ELSE FoldText(text), a, KeyOf(w))
        <3>1. a \in 1..Len(text) /\ a + (W - 1) <= Len(text)
              /\ \A k \in 0..W-1 : X[i + k] = text[a + k]
            <4>1. a \in 1..Len(text)
                BY <2>10
            <4>2. a + (W - 1) <= Len(text)
                BY <2>8, <2>10, Zenon
            <4>3. \A k \in 0..W-1 : X[i + k] = text[a + k]
                BY <2>8, <2>10, Zenon
            <4> QED
                BY <4>1, <4>2, <4>3
        <3>2. LiteralAt(IF w.cs THEN X ELSE FoldText(X), i, KeyOf(w)) /\ W = Len(KeyOf(w))
            BY <2>6 DEF i, W
        <3> QED
            <4>1. /\ X \in Seq(Chars) /\ text \in Seq(Chars) /\ i \in 1..Len(X)
                  /\ W \in Nat \ {0} /\ i + W - 1 <= Len(X)
                BY <2>3, <2>4, <2>8
            <4> QED
                BY ONLY <2>6, <3>1, <3>2, <4>1, HitIsTaken, ZenonT(60)
    <2> DEFINE d == Span(a, a + Len(w.word) - 1, w.word, IF w.cs THEN 1 ELSE 0)
    <2>12. d \in FreeHits(text)
        <3>1. d \in DictionarySpans(text)
            BY <2>10, <2>11, HitIsThere
        <3> HIDE DEF d
        <3> QED
            BY <2>1, <3>1, PlainEligible DEF Candidates
    <2>13. d.start = a - 1 /\ d.end = a + W - 1
        <3>1. W = Len(w.word)
            <4>1. IsText(w.word)
                BY WordsAssumption
            <4> QED
                BY <4>1, FoldLength DEF KeyOf, W
        <3> QED
            BY <3>1 DEF Span
    <2> HIDE DEF d
    <2>14. \E k \in FindMatches(text) : Overlaps(k, d)
        <3>1. IsResolution(FindMatches(text), FreeHits(text))
            BY <2>3, MatchesResolve
        <3>2. CASE d \in FindMatches(text)
            <4>1. Overlaps(d, d)
                BY <2>8, <2>10, <2>13 DEF Overlaps
            <4> QED
                BY <3>2, <4>1
        <3>3. CASE d \notin FindMatches(text)
            BY <2>12, <3>1, <3>3 DEF IsResolution
        <3> QED
            BY <3>2, <3>3
    <2>15. PICK k \in FindMatches(text) : Overlaps(k, d)
        BY <2>14
    <2>16. PICK e \in plan : e.start = k.start /\ e.end = k.end
        BY <2>1
    <2>17. e.start \in Nat /\ e.end \in Nat /\ (e.end < a \/ a + (W - 1) <= e.start)
        BY <2>3, <2>8, <2>10
    <2>18. e.start < a + W - 1 /\ a - 1 < e.end
        BY <2>13, <2>15, <2>16 DEF Overlaps
    <2> QED
        BY <2>8, <2>10, <2>17, <2>18
<1>2. MaskInv => NothingLeft
    BY <1>1 DEF NothingLeft
<1> QED
    BY <1>2, MaskInvariant, PTL

-----------------------------------------------------------------------------

USE LengthAssumption, SourceAssumption, EmptyAssumption, CandidateAssumption

(* What is known of the numbers in a span.                                 *)
LEMMA SpanType ==
    ASSUME NEW s \in Spans
    PROVE  /\ s.start \in Int /\ s.end \in Int /\ s.source \in Int
           /\ s.start <= s.end
           /\ Size(s) \in Int /\ Size(s) >= 0
BY DEF Spans, Positions, Sources, Size

(* The order of the sort is a strict total order, thanks to the source.    *)
LEMMA PrecedesTransitive ==
    ASSUME NEW a \in Spans, NEW b \in Spans, NEW c \in Spans,
           Precedes(a, b), Precedes(b, c)
    PROVE  Precedes(a, c)
<1>1. Size(a) \in Int /\ Size(b) \in Int /\ Size(c) \in Int
  BY SpanType
<1> QED
  BY <1>1, SpanType DEF Precedes

LEMMA PrecedesIrreflexive ==
    ASSUME NEW a \in Spans PROVE ~Precedes(a, a)
BY SpanType DEF Precedes

LEMMA PrecedesAsymmetric ==
    ASSUME NEW a \in Spans, NEW b \in Spans, Precedes(a, b)
    PROVE  ~Precedes(b, a)
BY PrecedesTransitive, PrecedesIrreflexive

LEMMA PrecedesTotal ==
    ASSUME NEW a \in Spans, NEW b \in Spans, a # b
    PROVE  Precedes(a, b) \/ Precedes(b, a)
<1>1. a.start # b.start \/ a.end # b.end \/ a.source # b.source
  BY DEF Spans
<1>2. Size(a) = a.end - a.start /\ Size(b) = b.end - b.start
  BY DEF Size
<1> QED
  BY <1>1, <1>2, SpanType DEF Precedes

LEMMA OverlapsSymmetric ==
    ASSUME NEW a, NEW b PROVE Overlaps(a, b) <=> Overlaps(b, a)
BY DEF Overlaps

-----------------------------------------------------------------------------

LEMMA TypeStep == DetectorTypeOK /\ [DetectorNext]_detectorVars => DetectorTypeOK'
BY DEF DetectorTypeOK, DetectorNext, detectorVars, AddSpan, NothingFound, FindRegions, Exclude, Keep,
       Skip, Return

(* Visiting the first span of todo keeps the loop invariant: s is the      *)
(* largest span visited, so whether it is kept depends on kept alone.      *)
LEMMA VisitResolves ==
    ASSUME DetectorTypeOK, LoopInv, pc = "resolve",
           NEW s \in todo, First(s),
           UNCHANGED <<candidates, regions, pc>>,
           todo' = todo \ {s},
           \/ Collides(s) /\ kept' = kept
           \/ ~Collides(s) /\ kept' = kept \cup {s}
    PROVE  LoopInv'
<1>1. Eligible' = Eligible
  BY DEF Eligible, Excluded
<1>2. /\ todo \subseteq Eligible /\ Eligible \subseteq Spans
      /\ IsResolution(kept, Visited) /\ kept \subseteq Visited
      /\ \A v \in Visited, r \in todo : Precedes(v, r)
  BY DEF LoopInv, DetectorTypeOK, Eligible, IsResolution
<1>3. Visited' = Visited \cup {s} /\ s \notin Visited /\ Visited \subseteq Spans
  BY <1>1, <1>2 DEF Visited
<1>4. \A r \in todo' : Precedes(s, r)
  BY DEF First
<1>5. \A v \in Visited', r \in todo' : Precedes(v, r)
  BY <1>2, <1>3, <1>4
<1>6. IsResolution(kept', Visited')
  <2>1. kept' \subseteq Visited'
    BY <1>2, <1>3
  <2>2. ASSUME NEW c \in Visited
        PROVE  c \in kept' <=> ~\E k \in kept' : Precedes(k, c) /\ Overlaps(k, c)
    <3>1. ~Precedes(s, c) /\ c # s
      BY <1>2, <1>3, PrecedesAsymmetric
    <3>2. c \in kept <=> ~\E k \in kept : Precedes(k, c) /\ Overlaps(k, c)
      BY <1>2 DEF IsResolution
    <3> QED
      BY <3>1, <3>2
  <2>3. s \in kept' <=> ~\E k \in kept' : Precedes(k, s) /\ Overlaps(k, s)
    <3>1. \A k \in kept : Precedes(k, s)
      BY <1>2
    <3>2. ~Precedes(s, s)
      BY <1>2, PrecedesIrreflexive
    <3>3. s \notin kept
      BY <1>2, <1>3
    <3> QED
      BY <3>1, <3>2, <3>3, OverlapsSymmetric DEF Collides
  <2> QED
    BY <1>3, <2>1, <2>2, <2>3 DEF IsResolution
<1> QED
  BY <1>1, <1>2, <1>5, <1>6 DEF LoopInv

LEMMA IInvStep == IInv /\ [DetectorNext]_detectorVars => IInv'
<1> SUFFICES ASSUME IInv, [DetectorNext]_detectorVars PROVE IInv'
  OBVIOUS
<1>t. DetectorTypeOK /\ DetectorTypeOK'
  BY TypeStep DEF IInv
<1> USE DEF IInv
<1>1. ASSUME NEW s \in Spans, AddSpan(s) PROVE IInv'
  BY <1>t, <1>1 DEF AddSpan, LoopInv, ReturnInv, StartInv
<1>2. CASE NothingFound
  BY <1>t, <1>2 DEF NothingFound, LoopInv, ReturnInv, StartInv, Eligible,
     Visited, IsResolution
<1>3. ASSUME NEW R \in SUBSET Regions, FindRegions(R) PROVE IInv'
  BY <1>t, <1>3 DEF FindRegions, LoopInv, ReturnInv, StartInv
<1>4. CASE Exclude
  <2>1. todo' = Eligible' /\ Visited' = {} /\ kept' = {} /\ pc' = "resolve"
    BY <1>4 DEF Exclude, Eligible, Excluded, Visited, StartInv
  <2> QED
    BY <1>t, <2>1 DEF LoopInv, ReturnInv, StartInv, IsResolution
<1>5. ASSUME NEW s \in todo, Keep(s) \/ Skip(s) PROVE IInv'
  <2>1. LoopInv'
    BY <1>t, <1>5, VisitResolves DEF Keep, Skip
  <2> QED
    BY <1>t, <1>5, <2>1 DEF Keep, Skip, ReturnInv, StartInv
<1>6. CASE Return
  <2>1. Eligible' = Eligible /\ Visited' = Visited
    BY <1>6 DEF Return, Eligible, Excluded, Visited
  <2> QED
    BY <1>t, <1>6, <2>1 DEF Return, LoopInv, ReturnInv, StartInv
<1>7. CASE UNCHANGED detectorVars
  <2>1. Eligible' = Eligible /\ Visited' = Visited
    BY <1>7 DEF detectorVars, Eligible, Excluded, Visited
  <2> QED
    BY <1>t, <1>7, <2>1 DEF detectorVars, LoopInv, ReturnInv, StartInv
<1> QED
  BY <1>1, <1>2, <1>3, <1>4, <1>5, <1>6, <1>7 DEF DetectorNext

LEMMA IInvInit == DetectorInit => IInv
BY DEF DetectorInit, IInv, DetectorTypeOK, LoopInv, ReturnInv, StartInv

(* The spans visited come before the spans still to be visited, and the    *)
(* spans kept are the resolution of the visited ones (detector.py:162-181).*)
THEOREM InductiveInvariant == DetectorSpec => []IInv
<1>1. QED
  BY IInvInit, IInvStep, PTL DEF DetectorSpec

(* The greedy loop returns the longest-then-leftmost resolution of the     *)
(* spans that touch no placeholder (detector.py:162-181).                  *)
THEOREM ResolutionCorrect == DetectorSpec => []LoopResolves
<1>1. IInv => LoopResolves
  BY DEF IInv, LoopInv, ReturnInv, LoopResolves, Visited
<1> QED
  BY <1>1, InductiveInvariant, PTL

(* No hit of the dictionary is lost: it is masked, or a masked span at     *)
(* least as long overlaps it, or it touches a placeholder.                 *)
THEOREM NoHitForgotten == DetectorSpec => []NothingForgotten
<1>1. IInv => NothingForgotten
  <2> SUFFICES ASSUME IInv, pc = "done", NEW c \in candidates,
                      ~Excluded(c), c \notin kept
               PROVE  \E k \in kept : Overlaps(k, c) /\ Size(k) >= Size(c)
    BY DEF NothingForgotten
  <2>1. IsResolution(kept, Eligible) /\ c \in Eligible
    BY DEF IInv, LoopInv, ReturnInv, Visited, Eligible
  <2>2. PICK k \in kept : Precedes(k, c) /\ Overlaps(k, c)
    BY <2>1 DEF IsResolution
  <2>3. k \in Spans /\ c \in Spans
    BY DEF IInv, DetectorTypeOK
  <2>4. Size(k) >= Size(c)
    BY <2>2, <2>3, SpanType DEF Precedes
  <2> QED
    BY <2>2, <2>4
<1> QED
  BY <1>1, InductiveInvariant, PTL

(* Placeholders already in the text are never masked again                 *)
(* (detector.py:162-171).                                                  *)
THEOREM PlaceholdersKept == DetectorSpec => []PlaceholdersUntouched
<1>1. IInv => PlaceholdersUntouched
  BY DEF IInv, LoopInv, PlaceholdersUntouched, Visited, Eligible, Excluded,
         IsResolution
<1> QED
  BY <1>1, InductiveInvariant, PTL

(* When no regex matches the empty string, the kept spans are disjoint, so *)
(* _rebuild's cursor never moves back (engine.py:142-159).                 *)
THEOREM PlanIsSafe == ASSUME ~EmptyMatches PROVE DetectorSpec => []PlanNonOverlapping
<1>1. IInv => PlanNonOverlapping
  <2> SUFFICES ASSUME IInv, pc = "done", NEW a \in kept, NEW b \in kept,
                      PlanBefore(a, b)
               PROVE  a.end <= b.start
    BY DEF PlanNonOverlapping
  <2>1. a \in Spans /\ b \in Spans
    BY DEF IInv, DetectorTypeOK
  <2>2. a.start < a.end /\ b.start < b.end
    BY <2>1 DEF Spans
  <2>3. a # b
    BY <2>1, PrecedesIrreflexive, SpanType DEF PlanBefore
  <2>4. IsResolution(kept, Eligible)
    BY DEF IInv, LoopInv, ReturnInv, Visited
  <2>5. ~Overlaps(a, b) /\ ~Overlaps(b, a)
    BY <2>1, <2>3, <2>4, PrecedesTotal, OverlapsSymmetric DEF IsResolution
  <2>6. a.start <= b.start
    BY <2>1, SpanType DEF PlanBefore
  <2> QED
    BY <2>1, <2>2, <2>5, <2>6, SpanType DEF Overlaps
<1> QED
  BY <1>1, InductiveInvariant, PTL

(* What is kept, and what is still to be visited, is of the candidates     *)
(* find_matches collected, and each of them lies inside the text           *)
(* (detector.py:157-181).                                                  *)
THEOREM LoopTypes == DetectorSpec => []DetectorTypeOK
<1>1. IInv => DetectorTypeOK
  BY DEF IInv
<1> QED
  BY <1>1, InductiveInvariant, PTL
=============================================================================
